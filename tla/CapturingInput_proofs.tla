------------------------ MODULE CapturingInput_proofs ------------------------
(***************************************************************************)
(* Proofs about the tee, for any limit, body and lines: its copy is a      *)
(* prefix of what was read, a body that it calls whole is, and its         *)
(* readlines takes no more than the stream's own.  They are facts about    *)
(* one step of the application's reading; WsgiExchange_proofs makes        *)
(* invariants of them.                                                     *)
(***************************************************************************)
EXTENDS CapturingInput, SequenceTheorems, WellFoundedInduction, TLAPS

\* Where the stream is, and what the tee knows of it.
TeeInv ==
    /\ body \in Nat
    /\ pos \in 0..body
    /\ declared_size \in Nat \ {0} => body <= declared_size
    /\ declared_size \in Declared \cup {Unknown}
    /\ zero_read \in BOOLEAN
    /\ declared_size = Unknown /\ exhausted /\ ~zero_read => pos = body
    /\ CapturedIsPrefix

\* A nonempty set of naturals has a least element.
LEMMA Least ==
    ASSUME NEW T, T \subseteq Nat, T # {}
    PROVE  \E x \in T : \A y \in T : x <= y
<1>1. \E x \in T : \A y \in T : ~(<<y, x>> \in OpToRel(<, Nat))
  BY NatLessThanWellFounded, WFMin, Zenon
<1>2. PICK x \in T : \A y \in T : ~(<<y, x>> \in OpToRel(<, Nat))
  BY <1>1
<1>3. \A y \in T : ~(y < x)
  BY <1>2, Zenon DEF OpToRel
<1>4. QED
  BY <1>3

\* The end of a line lies between here and the end of the body, and is here
\* only at the end; it is at a newline or at the end, and no newline is on
\* the way.
LEMMA LineEndIsAhead ==
    ASSUME NEW b \in Nat, b = body, NEW at \in 0..b
    PROVE  /\ LineEnd(at) \in at..b
           /\ LineEnd(at) = at => at = b
           /\ LineEnd(at) = b \/ LineEnd(at) \in Newlines
           /\ \A n \in Newlines : ~(at < n /\ n < LineEnd(at))
<1> DEFINE P(e) == /\ e = body \/ (e > at /\ e \in Newlines)
                   /\ \A n \in Newlines : n > at /\ n <= body => e <= n
           T == {n \in Newlines : n > at /\ n <= body}
<1>1. Newlines \subseteq Nat
  BY InputAssumption
<1>2. \E e \in at..body : P(e)
  <2>1. CASE T = {}
    BY <2>1
  <2>2. CASE T # {}
    <3>1. T \subseteq Nat
      BY <1>1
    <3>2. PICK e \in T : \A y \in T : e <= y
      BY <2>2, <3>1, Least
    <3>3. e \in at..body /\ P(e)
      BY <1>1, <3>2
    <3>4. QED
      BY <3>3
  <2>3. QED
    BY <2>1, <2>2
<1>3. LineEnd(at) = CHOOSE e \in at..body : P(e)
  BY DEF LineEnd
<1> HIDE DEF P
<1>4. LineEnd(at) \in at..body /\ P(LineEnd(at))
  BY <1>2, <1>3
<1>5. /\ LineEnd(at) \in at..b /\ b = body
      /\ LineEnd(at) = body \/ (LineEnd(at) > at /\ LineEnd(at) \in Newlines)
      /\ \A n \in Newlines : n > at /\ n <= body => LineEnd(at) <= n
  BY <1>4 DEF P
<1> DEFINE e == LineEnd(at)
<1> HIDE DEF e
<1>6. \A n \in Newlines : ~(at < n /\ n < e)
  BY <1>1, <1>5 DEF e
<1>7. QED
  BY <1>5, <1>6 DEF e

\* What readline is given fits in the body, and is empty at its end only, if
\* it was asked for something.
LEMMA LineCountFits ==
    ASSUME TeeInv, NEW size \in Int
    PROVE  /\ LineCount(size) \in 0..(body - pos)
           /\ LineCount(size) = 0 /\ size # 0 => pos = body
<1>1. LineEnd(pos) \in pos..body /\ (LineEnd(pos) = pos => pos = body)
  BY LineEndIsAhead DEF TeeInv
<1>2. QED
  BY <1>1 DEF TeeInv, LineCount, Smaller

\* The same of read.
LEMMA ReadCountFits ==
    ASSUME TeeInv, NEW size \in Int, NEW count \in ReadCounts(size)
    PROVE  /\ count \in 0..(body - pos)
           /\ count = 0 /\ size # 0 => pos = body
BY DEF TeeInv, ReadCounts, Smaller

\* The first m numbers and the r that follow are the first m + r.
LEMMA SegmentsJoin ==
    ASSUME NEW m \in Nat, NEW r \in Nat
    PROVE  [i \in 1..m |-> i] \o [i \in 1..r |-> m + i] = [i \in 1..(m + r) |-> i]
<1> DEFINE old  == [i \in 1..m |-> i]
           new  == [i \in 1..r |-> m + i]
           kept == [i \in 1..(m + r) |-> i]
<1>1. /\ old \in Seq(Nat) /\ Len(old) = m
      /\ new \in Seq(Nat) /\ Len(new) = r
      /\ kept \in Seq(Nat) /\ Len(kept) = m + r
  OBVIOUS
<1>2. /\ \A i \in 1..m : old[i] = i
      /\ \A i \in 1..r : new[i] = m + i
      /\ \A i \in 1..(m + r) : kept[i] = i
  OBVIOUS
<1> HIDE DEF old, new, kept
<1>3. /\ old \o new \in Seq(Nat) /\ Len(old \o new) = Len(old) + Len(new)
      /\ \A i \in 1..(Len(old) + Len(new)) :
             (old \o new)[i] = IF i <= Len(old) THEN old[i] ELSE new[i - Len(old)]
  BY <1>1, ConcatProperties, Zenon
<1>4. \A i \in 1..(m + r) : (old \o new)[i] = i
  BY <1>1, <1>2, <1>3
<1>5. old \o new = kept
  BY <1>1, <1>2, <1>3, <1>4, SeqEqual
<1>6. QED
  BY <1>5 DEF old, new, kept

\* One call of _observe keeps the prefix.
LEMMA ObserveKeepsPrefix ==
    ASSUME TeeInv, NEW count \in 0..(body - pos), Observe(count)
    PROVE  /\ CapturedIsPrefix'
           /\ pos' = pos + count
           /\ exhausted' => \/ exhausted
                            \/ count = 0
                            \/ declared_size # Unknown
<1> DEFINE m    == Smaller(Limit, pos)
           room == Smaller(Limit - m, count)
<1>1. /\ pos' = pos + count /\ observed_size' = observed_size + count
      /\ observed_size = pos /\ pos \in Nat /\ count \in Nat
  BY DEF TeeInv, CapturedIsPrefix, Observe
<1>2. /\ m \in Nat /\ room \in Nat /\ m + room = Smaller(Limit, pos + count)
      /\ room > 0 => m = pos
  BY <1>1, InputAssumption DEF Smaller
<1>3. captured = [i \in 1..m |-> i]
  BY DEF TeeInv, CapturedIsPrefix
<1> HIDE DEF m
<1>4. Len(captured) = m
  BY <1>2, <1>3
<1>5. captured' = IF room > 0 THEN captured \o [i \in 1..room |-> pos + i]
                              ELSE captured
  BY <1>4 DEF Observe
<1> HIDE DEF room
<1>6. captured' = [i \in 1..(m + room) |-> i]
  <2>1. CASE room > 0
    <3>1. captured' = [i \in 1..m |-> i] \o [i \in 1..room |-> m + i]
      BY <1>2, <1>3, <1>5, <2>1, Zenon
    <3>2. QED
      BY <1>2, <3>1, SegmentsJoin, Zenon
  <2>2. CASE ~(room > 0)
    <3>1. m + room = m
      BY <1>2, <2>2
    <3>2. QED
      BY <1>3, <1>5, <2>2, <3>1, Zenon
  <2>3. QED
    BY <2>1, <2>2
<1>7. captured' = [i \in 1..Smaller(Limit, pos') |-> i]
  BY <1>1, <1>2, <1>6, Zenon
<1>8. QED
  BY <1>1, <1>7 DEF CapturedIsPrefix, Observe

\* Every way to read keeps what the tee knows.
LEMMA TeeInvStep ==
    ASSUME TeeInv, InputStep
    PROVE  TeeInv'
<1>1. Sizes \subseteq Int
  BY InputAssumption
<1>2. ASSUME NEW count \in 0..(body - pos), Observe(count),
             UNCHANGED <<body, declared_size>>,
             zero_read' \in BOOLEAN, zero_read => zero_read',
             count = 0 /\ ~zero_read' => pos = body
      PROVE  TeeInv'
  <2>1. /\ CapturedIsPrefix' /\ pos' = pos + count
        /\ exhausted' => exhausted \/ count = 0 \/ declared_size # Unknown
    BY <1>2, ObserveKeepsPrefix
  <2>2. QED
    BY <1>2, <2>1 DEF TeeInv
<1>3. ASSUME NEW size \in Sizes, Read(size) PROVE TeeInv'
  <2>1. PICK count \in ReadCounts(size) : Observe(count)
    BY <1>3 DEF Read
  <2>2. count \in 0..(body - pos) /\ (count = 0 /\ size # 0 => pos = body)
    BY <1>1, ReadCountFits
  <2>3. QED
    BY <1>2, <1>3, <2>1, <2>2 DEF Read, TeeInv
<1>4. ASSUME NEW size \in Sizes, ReadLine(size) PROVE TeeInv'
  <2>1. /\ LineCount(size) \in 0..(body - pos)
        /\ LineCount(size) = 0 /\ size # 0 => pos = body
    BY <1>1, LineCountFits
  <2>2. QED
    BY <1>2, <1>4, <2>1 DEF ReadLine, TeeInv
<1>5. CASE ReadLinesTurn
  <2>1. /\ LineCount(-1) \in 0..(body - pos)
        /\ LineCount(-1) = 0 => pos = body
    BY LineCountFits
  <2>2. QED
    BY <1>2, <1>5, <2>1 DEF ReadLinesTurn, TeeInv
<1>6. CASE ReadLinesReturn \/ ReadRaises \/ \E hint \in Hints : ReadLines(hint)
  BY <1>6 DEF ReadLinesReturn, ReadRaises, ReadLines, TeeInv, CapturedIsPrefix
<1>7. QED
  BY <1>3, <1>4, <1>5, <1>6 DEF InputStep

-----------------------------------------------------------------------------
(* readlines. *)

\* Where readlines stands: at the end of a line, or where it began, and no
\* line it has taken but the last one reached the hint.
LinesInv ==
    /\ lines \in [busy : BOOLEAN, hint : Int, from : Nat, total : Nat, whole : BOOLEAN]
    /\ lines.busy => ~lines.whole /\ pos = lines.from + lines.total
    /\ lines.busy \/ lines.whole =>
          LET end == lines.from + lines.total
          IN  /\ end <= body
              /\ lines.total # 0 => end = body \/ end \in Newlines
              /\ lines.hint < 0 \/
                    \A n \in Newlines :
                        n > lines.from /\ n < end => n - lines.from < lines.hint
    /\ lines.whole =>
          \/ lines.from + lines.total = body
          \/ lines.hint >= 0 /\ lines.total >= lines.hint

\* Where LinesInv says that a finished call stands is where the stream's own
\* would, or before.
LEMMA LinesAreNotAhead ==
    ASSUME TeeInv, LinesInv
    PROVE  ReadlinesNeverAhead
<1> DEFINE from == lines.from
           total == lines.total
           hint == lines.hint
<1> SUFFICES ASSUME lines.whole, pos = from + total
             PROVE  /\ \A end \in StreamEnds(from, hint) : pos <= end
                    /\ hint # 0 => pos \in StreamEnds(from, hint)
  BY DEF ReadlinesNeverAhead, LinesReturned
<1>1. /\ from \in Nat /\ total \in Nat /\ hint \in Int /\ body \in Nat
      /\ Newlines \subseteq Nat
  BY InputAssumption DEF LinesInv, TeeInv
<1>2. /\ pos <= body
      /\ total # 0 => pos = body \/ pos \in Newlines
      /\ hint < 0 \/ \A n \in Newlines : n > from /\ n < pos => n - from < hint
      /\ pos = body \/ (hint >= 0 /\ total >= hint)
  BY DEF LinesInv
<1> HIDE DEF from, total, hint
<1>3. ASSUME hint > 0, NEW count \in {hint, hint + 1},
             NEW end \in LinesOfAtLeast(from, count)
      PROVE  pos <= end
  <2>1. end \in Int /\ (end = body \/ (end \in Newlines /\ end - from >= count /\ end >= from))
    BY <1>1 DEF LinesOfAtLeast
  <2>2. CASE end = body
    BY <1>2, <2>2
  <2>3. CASE end \in Newlines /\ end - from >= count /\ end >= from
    <3>1. end > from /\ ~(end - from < hint)
      BY <1>1, <1>3, <2>1, <2>3
    <3>2. QED
      BY <1>1, <1>2, <1>3, <2>1, <2>3, <3>1
  <2>4. QED
    BY <2>1, <2>2, <2>3
<1>4. \A end \in StreamEnds(from, hint) : pos <= end
  BY <1>1, <1>2, <1>3 DEF StreamEnds
<1>5. ASSUME hint # 0 PROVE pos \in StreamEnds(from, hint)
  <2>1. CASE pos = body
    BY <2>1 DEF StreamEnds
  <2>2. CASE pos # body
    <3>1. hint > 0 /\ total >= hint /\ pos \in Newlines /\ pos - from >= hint
      BY <1>1, <1>2, <1>5, <2>2
    <3>2. pos \in LinesOfAtLeast(from, hint)
      BY <1>1, <1>2, <3>1 DEF LinesOfAtLeast
    <3>3. QED
      BY <1>1, <3>1, <3>2 DEF StreamEnds
  <2>3. QED
    BY <2>1, <2>2
<1>6. QED
  BY <1>4, <1>5

\* A call that is not in progress is not touched by what is read after it.
LEMMA LinesAreKept ==
    ASSUME LinesInv, ~lines.busy, UNCHANGED <<body, lines>>
    PROVE  LinesInv'
BY DEF LinesInv

\* Every way to read keeps what readlines has done.
LEMMA LinesInvStep ==
    ASSUME TeeInv, LinesInv, InputStep
    PROVE  LinesInv'
<1>1. /\ lines \in [busy : BOOLEAN, hint : Int, from : Nat, total : Nat, whole : BOOLEAN]
      /\ body \in Nat /\ pos \in 0..body
      /\ Hints \subseteq Int /\ Newlines \subseteq Nat
  BY InputAssumption DEF LinesInv, TeeInv
<1>2. ASSUME NEW size \in Sizes, Read(size) \/ ReadLine(size) PROVE LinesInv'
  <2>1. ~lines.busy /\ UNCHANGED <<body, lines>>
    BY <1>2 DEF Read, ReadLine
  <2>2. QED
    BY <2>1, LinesAreKept
<1>3. ASSUME NEW hint \in Hints, ReadLines(hint) PROVE LinesInv'
  <2>1. /\ lines' = [busy |-> TRUE, hint |-> hint, from |-> pos, total |-> 0,
                     whole |-> FALSE]
        /\ UNCHANGED <<body, pos>>
    BY <1>3 DEF ReadLines
  <2>2. /\ lines' \in [busy : BOOLEAN, hint : Int, from : Nat, total : Nat,
                       whole : BOOLEAN]
        /\ lines'.busy /\ ~lines'.whole /\ lines'.from = pos /\ lines'.total = 0
    BY <1>1, <2>1
  <2>3. QED
    BY <1>1, <2>1, <2>2 DEF LinesInv
<1>4. CASE ReadRaises
  <2>1. lines' = NoLines
    BY <1>4 DEF ReadRaises
  <2>2. /\ lines' \in [busy : BOOLEAN, hint : Int, from : Nat, total : Nat,
                       whole : BOOLEAN]
        /\ ~lines'.busy /\ ~lines'.whole
    BY <2>1 DEF NoLines
  <2>3. QED
    BY <2>2 DEF LinesInv
<1>5. CASE ReadLinesReturn
  <2>1. /\ lines.busy /\ lines.hint >= 0 /\ lines.total >= lines.hint
        /\ lines' = [lines EXCEPT !.busy = FALSE, !.whole = TRUE]
        /\ UNCHANGED <<body, pos>>
    BY <1>1, <1>5 DEF ReadLinesReturn, WantsMore
  <2>2. /\ lines' \in [busy : BOOLEAN, hint : Int, from : Nat, total : Nat,
                       whole : BOOLEAN]
        /\ ~lines'.busy /\ lines'.whole
        /\ lines'.hint = lines.hint /\ lines'.from = lines.from
        /\ lines'.total = lines.total
    BY <1>1, <2>1
  <2>3. QED
    BY <2>1, <2>2 DEF LinesInv
<1>6. CASE ReadLinesTurn
  <2> DEFINE count == LineCount(-1)
             end   == lines.from + lines.total
  <2>1. /\ lines.busy /\ (lines.hint < 0 \/ lines.total < lines.hint)
        /\ pos' = pos + count /\ body' = body
        /\ lines' = IF count = 0
                    THEN [lines EXCEPT !.busy = FALSE, !.whole = TRUE]
                    ELSE [lines EXCEPT !.total = @ + count]
    BY <1>6 DEF ReadLinesTurn, WantsMore, Observe
  <2>2. /\ pos = end /\ ~lines.whole
        /\ lines.hint < 0 \/
              \A n \in Newlines : n > lines.from /\ n < end => n - lines.from < lines.hint
    BY <2>1 DEF LinesInv
  <2>3. /\ count \in 0..(body - pos)
        /\ count = 0 => pos = body
        /\ pos + count = body \/ pos + count \in Newlines
        /\ \A n \in Newlines : ~(pos < n /\ n < pos + count)
    <3>1. /\ LineEnd(pos) \in pos..body
          /\ LineEnd(pos) = pos => pos = body
          /\ LineEnd(pos) = body \/ LineEnd(pos) \in Newlines
          /\ \A n \in Newlines : ~(pos < n /\ n < LineEnd(pos))
      BY <1>1, LineEndIsAhead
    <3>2. count = LineEnd(pos) - pos
      BY DEF LineCount
    <3>3. pos + count = LineEnd(pos)
      BY <1>1, <3>1, <3>2
    <3> HIDE DEF count
    <3>4. QED
      BY <1>1, <3>1, <3>2, <3>3
  <2> HIDE DEF count
  <2>4. CASE count = 0
    <3>1. /\ lines' \in [busy : BOOLEAN, hint : Int, from : Nat, total : Nat,
                         whole : BOOLEAN]
          /\ ~lines'.busy /\ lines'.whole
          /\ lines'.hint = lines.hint /\ lines'.from = lines.from
          /\ lines'.total = lines.total
      BY <1>1, <2>1, <2>4
    <3>2. end = body
      BY <2>2, <2>3, <2>4
    <3>3. QED
      BY <2>1, <2>2, <3>1, <3>2 DEF LinesInv
  <2>5. CASE count # 0
    <3>1. /\ lines' \in [busy : BOOLEAN, hint : Int, from : Nat, total : Nat,
                         whole : BOOLEAN]
          /\ lines'.busy /\ ~lines'.whole
          /\ lines'.hint = lines.hint /\ lines'.from = lines.from
          /\ lines'.total = lines.total + count
      BY <1>1, <2>1, <2>2, <2>3, <2>5
    <3>2. /\ lines.from \in Nat /\ lines.total \in Nat /\ lines.hint \in Int
          /\ count \in Nat
      BY <1>1, <2>3
    <3>3. /\ lines'.from + lines'.total = pos + count
          /\ pos + count <= body
      BY <1>1, <2>2, <2>3, <3>1, <3>2
    <3>4. ASSUME NEW n \in Newlines, n > lines.from, n < pos + count, ~(lines.hint < 0)
          PROVE  n - lines.from < lines.hint
      <4>1. n \in Nat /\ ~(pos < n)
        BY <1>1, <2>3, <3>4
      <4>2. CASE n = pos
        BY <1>1, <2>1, <2>2, <3>2, <3>4, <4>2
      <4>3. CASE n < pos
        BY <2>2, <3>4, <4>3
      <4>4. QED
        BY <1>1, <4>1, <4>2, <4>3
    <3>5. QED
      BY <2>1, <2>3, <3>1, <3>3, <3>4 DEF LinesInv
  <2>6. QED
    BY <2>4, <2>5
<1>7. QED
  BY <1>2, <1>3, <1>4, <1>5, <1>6 DEF InputStep

\* A step of the application's reading leaves the body alone, and flags are
\* flags.
LEMMA FlagsAreKept ==
    ASSUME InputStep, read_error \in BOOLEAN, exhausted \in BOOLEAN
    PROVE  body' = body /\ read_error' \in BOOLEAN /\ exhausted' \in BOOLEAN
<1>1. body' = body /\ read_error' \in {read_error, TRUE}
  BY DEF InputStep, Read, ReadLine, ReadLines, ReadLinesTurn, ReadLinesReturn, ReadRaises
<1>2. exhausted' = exhausted \/ \E count : Observe(count)
  BY Zenon DEF InputStep, Read, ReadLine, ReadLines, ReadLinesTurn, ReadLinesReturn,
     ReadRaises
<1>3. ASSUME NEW count, Observe(count) PROVE exhausted' \in BOOLEAN
  BY <1>3, Zenon DEF Observe
<1>4. exhausted' \in BOOLEAN
  BY <1>2, <1>3
<1>5. read_error' \in BOOLEAN
  BY <1>1, Zenon
<1>6. QED
  BY <1>1, <1>4, <1>5
=============================================================================
