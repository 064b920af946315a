--------------------------- MODULE CapturingInput ---------------------------
(***************************************************************************)
(* wrapper/input.py: the tee over wsgi.input.  The application reads; what *)
(* it is given is counted, and the first Limit bytes are kept.  The bytes  *)
(* the client sends are numbered 1..body, so what was delivered so far is  *)
(* 1..pos.  declared_size is Unknown when CONTENT_LENGTH cannot be parsed, *)
(* 0 when it is missing, as it is for a chunked body, and negative when it *)
(* is "-1", which int() parses.                                            *)
(***************************************************************************)
EXTENDS Integers, Sequences

CONSTANTS
    Limit,          \* CAPTURE_MAX_BYTES
    MaxBody,        \* bound: longest body
    Newlines,       \* positions that hold a newline
    Declared,       \* bound: values of CONTENT_LENGTH
    Sizes,          \* bound: arguments given to read and readline
    Hints,          \* bound: arguments given to readlines
    Unknown         \* Python's None

ASSUME InputAssumption ==
    /\ Limit \in Nat
    /\ MaxBody \in Nat
    /\ Newlines \subseteq 1..MaxBody
    /\ Declared \subseteq Int
    /\ Sizes \subseteq Int /\ Hints \subseteq Int
    /\ Unknown \notin Int

VARIABLES
    body,           \* length of the body the client sends
    declared_size,
    pos,            \* bytes the stream has handed out
    captured,
    observed_size,
    read_error,
    exhausted,
    lines,          \* the readlines call in progress, or the last one
    zero_read       \* history: was a read of size 0 made?

inputVars == <<body, declared_size, pos, captured, observed_size, read_error,
               exhausted, lines, zero_read>>

NoLines == [busy |-> FALSE, hint |-> 0, from |-> 0, total |-> 0, whole |-> FALSE]

InputTypeOK ==
    /\ body \in 0..MaxBody
    /\ declared_size \in Declared \cup {Unknown}
    /\ pos \in 0..body
    /\ captured \in Seq(1..body)
    /\ observed_size \in Nat
    /\ read_error \in BOOLEAN
    /\ exhausted \in BOOLEAN
    /\ lines \in [busy : BOOLEAN, hint : Int, from : Nat, total : Nat,
                  whole : BOOLEAN]
    /\ zero_read \in BOOLEAN

\* A client sends what it declared or hangs up before; a chunked body
\* (declared 0), a negative length or an unparsable one may go with any body.
InputInit ==
    /\ body \in 0..MaxBody
    /\ declared_size \in Declared \cup {Unknown}
    /\ declared_size \in Nat \ {0} => body <= declared_size
    /\ pos = 0
    /\ captured = <<>>
    /\ observed_size = 0
    /\ read_error = FALSE
    /\ exhausted = (declared_size = 0)
    /\ lines = NoLines
    /\ zero_read = FALSE

-----------------------------------------------------------------------------
(* The stream underneath. *)

Smaller(a, b) == IF a <= b THEN a ELSE b

\* What read(size) may return: everything, or some of it, and nothing only at
\* the end or when nothing was asked for.
ReadCounts(size) ==
    LET most == IF size < 0 THEN body - pos ELSE Smaller(size, body - pos)
    IN  IF most = 0 THEN {0} ELSE IF size < 0 THEN {most} ELSE 1..most

\* Where the line that starts after position at ends.
LineEnd(at) ==
    CHOOSE e \in at..body :
        /\ e = body \/ (e > at /\ e \in Newlines)
        /\ \A n \in Newlines : n > at /\ n <= body => e <= n

\* Where readlines(hint) of the stream alone may leave it, called at from.  A
\* hint below 1 is none.  With another, io.BytesIO takes lines until they are
\* hint bytes, io.BufferedReader until they are more, and PEP 3333 allows a
\* server to ignore it.
LinesOfAtLeast(from, count) ==
    {end \in from..body :
        /\ end = body \/ (end \in Newlines /\ end - from >= count)
        /\ \A n \in Newlines : from < n /\ n < end => n - from < count}

StreamEnds(from, hint) ==
    IF hint <= 0 THEN {body}
    ELSE {body} \cup LinesOfAtLeast(from, hint) \cup LinesOfAtLeast(from, hint + 1)

LineCount(size) ==
    IF size < 0 THEN LineEnd(pos) - pos ELSE Smaller(size, LineEnd(pos) - pos)

-----------------------------------------------------------------------------
(* The tee. *)
\* Mutated form: each chunk is cut to Limit, not the whole copy.
ObserveEachChunk(count) ==
    /\ pos' = pos + count
    /\ observed_size' = observed_size + count
    /\ captured' = captured \o [i \in 1..Smaller(Limit, count) |-> pos + i]
    /\ exhausted' = (exhausted \/ count = 0)

\* _observe of count bytes.
Observe(count) ==
    LET room == Smaller(Limit - Len(captured), count)
    IN  /\ pos' = pos + count
        /\ observed_size' = observed_size + count
        /\ captured' = IF room > 0
                       THEN captured \o [i \in 1..room |-> pos + i]
                       ELSE captured
        /\ exhausted' = \/ exhausted
                        \/ count = 0
                        \/ /\ declared_size # Unknown
                           /\ observed_size + count >= declared_size

Read(size) ==
    /\ ~lines.busy
    /\ \E count \in ReadCounts(size) : Observe(count)
    /\ zero_read' = (zero_read \/ size = 0)
    /\ UNCHANGED <<body, declared_size, read_error, lines>>

\* readline, and __next__, which is readline() and a test for the end.
ReadLine(size) ==
    /\ ~lines.busy
    /\ Observe(LineCount(size))
    /\ zero_read' = (zero_read \/ size = 0)
    /\ UNCHANGED <<body, declared_size, read_error, lines>>

\* The stream raises (the client is gone): the flag stays, the application
\* gets the exception, from readlines too.
ReadRaises ==
    /\ read_error' = TRUE
    /\ lines' = NoLines
    /\ UNCHANGED <<body, declared_size, pos, captured, observed_size, exhausted,
                   zero_read>>

ReadLines(hint) ==
    /\ ~lines.busy
    /\ lines' = [busy |-> TRUE, hint |-> hint, from |-> pos, total |-> 0,
                 whole |-> FALSE]
    /\ UNCHANGED <<body, declared_size, pos, captured, observed_size, read_error,
                   exhausted, zero_read>>
\* Mutated form: one line too many when the hint is met exactly.
WantsOneMore == lines.hint < 0 \/ lines.total <= lines.hint

WantsMore == lines.hint < 0 \/ lines.total < lines.hint

\* One turn of the loop in readlines.
ReadLinesTurn ==
    /\ lines.busy
    /\ WantsMore
    /\ Observe(LineCount(-1))
    /\ lines' = IF LineCount(-1) = 0
                THEN [lines EXCEPT !.busy = FALSE, !.whole = TRUE]
                ELSE [lines EXCEPT !.total = @ + LineCount(-1)]
    /\ UNCHANGED <<body, declared_size, read_error, zero_read>>

ReadLinesReturn ==
    /\ lines.busy
    /\ ~WantsMore
    /\ lines' = [lines EXCEPT !.busy = FALSE, !.whole = TRUE]
    /\ UNCHANGED <<body, declared_size, pos, captured, observed_size, read_error,
                   exhausted, zero_read>>

truncated == observed_size > Limit
\* Mutated form: the declared length is not compared.
incompleteOnlyIfUnknown ==
    read_error \/ (declared_size = Unknown /\ ~exhausted)

incomplete ==
    \/ read_error
    \/ IF declared_size # Unknown THEN observed_size < declared_size ELSE ~exhausted

\* What the application does with its input.
InputStep ==
    \/ \E size \in Sizes : Read(size) \/ ReadLine(size)
    \/ \E hint \in Hints : ReadLines(hint)
    \/ ReadLinesTurn
    \/ ReadLinesReturn
    \/ ReadRaises

-----------------------------------------------------------------------------

\* The copy is the beginning of what the application was given, in order,
\* without a gap, and it stops at Limit exactly.
CapturedIsPrefix ==
    /\ observed_size = pos
    /\ captured = [i \in 1..Smaller(Limit, pos) |-> i]

\* The request body is known: its length was declared, or the application has
\* met its end.  Not so for a body without CONTENT_LENGTH (counted as 0 bytes
\* declared) or with a negative one, or when a read of size 0 was taken for
\* the end.
KnownBody ==
    /\ declared_size # Unknown /\ declared_size <= 0 => body = 0
    /\ declared_size = Unknown => ~zero_read

\* readlines has returned, and nothing was read since.
LinesReturned == lines.whole /\ pos = lines.from + lines.total

\* "without pre-consuming input": readlines never takes more than the stream's
\* own readlines would with that hint, of whatever server; and with a hint
\* other than 0 it takes as much as one of them.
ReadlinesNeverAhead ==
    LinesReturned =>
        /\ \A end \in StreamEnds(lines.from, lines.hint) : pos <= end
        /\ lines.hint # 0 => pos \in StreamEnds(lines.from, lines.hint)
=============================================================================
