------------------------- MODULE WsgiExchange_proofs -------------------------
(***************************************************************************)
(* Proofs about WsgiExchange, for any bodies, limits and statuses and any  *)
(* number of calls of close: the record is stored once, covers what was    *)
(* sent, and if it claims to be complete it is; the copy of the request is *)
(* a prefix of it, and the whole of it if the record says so; readlines    *)
(* never takes more than it would without the tee; all of it is well typed.*)
(***************************************************************************)
EXTENDS WsgiExchange, CapturingInput_proofs

\* What the wrapper has noted agrees with what the server took, as long as
\* nothing has failed; once a record is stored, the application has lost the
\* control for good.
ExchangeInv ==
    /\ phase \in {"app", "serve", "over"}
    /\ {finalized, closed, ended} \subseteq BOOLEAN
    /\ {response_size, sent, close_calls} \subseteq Nat
    /\ sent <= response_size
    /\ stores = IF finalized THEN 1 ELSE 0
    /\ app_closes = IF closed THEN 1 ELSE 0
    /\ close_calls > 0 => closed
    /\ AppRuns => response_status = sent_status /\ response_size = sent
    /\ record # Unknown => ~AppRuns
    /\ CompleteRecordIsTrue
    /\ RecordCoversResponse

\* An exception ends the application's part and stores an erroneous record
\* that covers what was sent.
LEMMA FailsKeeps ==
    ASSUME ExchangeInv, AppRuns, Fails, iterVars' = iterVars,
           response_size' \in Nat, sent' = sent, sent <= response_size'
    PROVE  ExchangeInv'
<1> USE DEF ExchangeInv, AppRuns, Fails, iterVars
<1>1. record = Unknown
  OBVIOUS
<1>2. phase' \in {"app", "serve", "over"} /\ ended' \in BOOLEAN /\ ~AppRuns'
  OBVIOUS
<1>3. CASE recording /\ ~finalized
  <2>1. /\ finalized' = TRUE /\ stores' = stores + 1
        /\ record'.state = "application_error"
        /\ record'.response_size = response_size'
    BY <1>3 DEF Finalize
  <2>2. QED
    BY <1>2, <1>3, <2>1 DEF CompleteRecordIsTrue, RecordCoversResponse
<1>4. CASE ~(recording /\ ~finalized)
  <2>1. UNCHANGED <<finalized, stores, record>>
    BY <1>4 DEF Finalize
  <2>2. QED
    BY <1>1, <1>2, <2>1 DEF CompleteRecordIsTrue, RecordCoversResponse
<1>5. QED
  BY <1>3, <1>4

\* ExchangeInv is inductive.
LEMMA ExchangeInvInductive == Spec => []ExchangeInv
<1>1. Init => ExchangeInv
  <2> SUFFICES ASSUME Init PROVE ExchangeInv
    OBVIOUS
  <2>1. /\ phase = "app" /\ record = Unknown /\ response_status = sent_status
        /\ response_size = 0 /\ sent = 0 /\ stores = 0 /\ app_closes = 0
        /\ close_calls = 0
    BY DEF Init
  <2>2. finalized = FALSE /\ closed = FALSE /\ ended = FALSE
    BY Zenon DEF Init
  <2>3. stores = IF finalized THEN 1 ELSE 0
    BY <2>1, <2>2, Zenon
  <2>4. app_closes = IF closed THEN 1 ELSE 0
    BY <2>1, <2>2, Zenon
  <2>5. {finalized, closed, ended} \subseteq BOOLEAN
    BY <2>2, Zenon
  <2>6. QED
    BY <2>1, <2>3, <2>4, <2>5 DEF ExchangeInv, CompleteRecordIsTrue, RecordCoversResponse
<1>2. ExchangeInv /\ [Next]_vars => ExchangeInv'
  <2> SUFFICES ASSUME ExchangeInv, [Next]_vars PROVE ExchangeInv'
    OBVIOUS
  <2>0. CASE UNCHANGED <<captureVars, iterVars, serverVars, noteVars, phase>>
    BY <2>0 DEF ExchangeInv, AppRuns, CompleteRecordIsTrue, RecordCoversResponse,
       captureVars, iterVars, serverVars, noteVars
  <2>1. CASE ReadsInput
    BY <2>0, <2>1 DEF ReadsInput
  <2>2. CASE StartResponse
    <3>1. AppRuns /\ response_size' = response_size /\ sent' = sent /\ iterVars' = iterVars
      BY <2>2 DEF StartResponse
    <3>2. CASE Fails
      BY <3>1, <3>2, FailsKeeps DEF ExchangeInv
    <3>3. CASE GoesOn /\ sent_status' = response_status'
      BY <3>1, <3>3 DEF ExchangeInv, GoesOn, AppRuns, CompleteRecordIsTrue,
         RecordCoversResponse, captureVars, iterVars
    <3>4. QED
      BY <2>2, <3>2, <3>3 DEF StartResponse
  <2>3. CASE Writes
    <3>1. PICK size \in 0..(MaxResponse - response_size) :
              /\ response_size' = response_size + size
              /\ \/ sent' = sent + size /\ GoesOn
                 \/ UNCHANGED sent /\ Fails
      BY <2>3 DEF Writes
    <3>2. /\ AppRuns /\ iterVars' = iterVars /\ sent_status' = sent_status
          /\ response_status' = response_status /\ size \in Nat
      BY <2>3 DEF Writes
    <3>3. CASE UNCHANGED sent /\ Fails
      BY <3>1, <3>2, <3>3, FailsKeeps DEF ExchangeInv
    <3>4. CASE sent' = sent + size /\ GoesOn
      BY <3>1, <3>2, <3>4 DEF ExchangeInv, GoesOn, AppRuns, CompleteRecordIsTrue,
         RecordCoversResponse, captureVars, iterVars
    <3>5. QED
      BY <3>1, <3>3, <3>4
  <2>4. CASE Raises
    BY <2>4, FailsKeeps DEF Raises, ExchangeInv, noteVars
  <2>5. CASE Aborts
    BY <2>5 DEF Aborts, ExchangeInv, AppRuns, CompleteRecordIsTrue,
       RecordCoversResponse, captureVars, iterVars, noteVars
  <2>6. CASE Returns
    BY <2>6 DEF Returns, ExchangeInv, AppRuns, CompleteRecordIsTrue,
       RecordCoversResponse, captureVars, iterVars, serverVars, noteVars
  <2>7. CASE NextData
    BY <2>7 DEF NextData, ExchangeInv, AppRuns, CompleteRecordIsTrue,
       RecordCoversResponse, captureVars, iterVars, noteVars
  <2>8. CASE NextStop
    <3>1. /\ AppRuns /\ ~AppRuns' /\ ended' = TRUE /\ phase' = phase
          /\ UNCHANGED <<noteVars, closed, app_closes, close_calls, sent_status, sent>>
      BY <2>8 DEF NextStop, AppRuns
    <3>2. CASE recording /\ ~finalized
      <4>1. /\ finalized' = TRUE /\ stores' = stores + 1
            /\ record'.response_status = response_status'
            /\ record'.response_size = response_size'
        BY <2>8, <3>2 DEF NextStop, Finalize
      <4>2. QED
        BY <3>1, <3>2, <4>1 DEF ExchangeInv, CompleteRecordIsTrue, RecordCoversResponse,
           noteVars
    <3>3. CASE ~(recording /\ ~finalized)
      <4>1. UNCHANGED <<finalized, stores, record>>
        BY <2>8, <3>3 DEF NextStop, Finalize
      <4>2. QED
        BY <3>1, <4>1 DEF ExchangeInv, CompleteRecordIsTrue, RecordCoversResponse,
           noteVars
    <3>4. QED
      BY <3>2, <3>3
  <2>9. CASE Close
    <3>1. /\ ended' = TRUE /\ closed' = TRUE /\ close_calls' = close_calls + 1
          /\ phase = "serve" /\ phase' \in {"serve", "over"} /\ ~AppRuns'
          /\ UNCHANGED <<noteVars, sent_status, sent>>
          /\ app_closes' = IF closed THEN app_closes ELSE app_closes + 1
      BY <2>9 DEF Close, AppRuns
    <3>2. CASE UNCHANGED <<finalized, stores, record>>
      BY <3>1, <3>2 DEF ExchangeInv, CompleteRecordIsTrue, RecordCoversResponse, noteVars
    <3>3. CASE \E state \in {"application_error", "complete"} : Finalize(state, TRUE)
      <4>1. CASE recording /\ ~finalized
        <5>1. /\ finalized' = TRUE /\ stores' = stores + 1
              /\ record'.incomplete = TRUE
              /\ record'.response_size = response_size'
          BY <3>3, <4>1 DEF Finalize
        <5>2. QED
          BY <3>1, <4>1, <5>1 DEF ExchangeInv, CompleteRecordIsTrue,
             RecordCoversResponse, noteVars
      <4>2. CASE ~(recording /\ ~finalized)
        BY <3>2, <3>3, <4>2 DEF Finalize
      <4>3. QED
        BY <4>1, <4>2
    <3>4. QED
      BY <2>9, <3>2, <3>3 DEF Close, captureVars
  <2>10. CASE UNCHANGED vars
    BY <2>0, <2>10 DEF vars
  <2>11. QED
    BY <2>1, <2>2, <2>3, <2>4, <2>5, <2>6, <2>7, <2>8, <2>9, <2>10 DEF Next
<1>3. QED
  BY <1>1, <1>2, PTL DEF Spec

\* However a response ends, finalize stores once and the application's close
\* is called once.
THEOREM ExchangeEndsOnce == Spec => []EndsOnce
<1>1. ExchangeInv => EndsOnce
  BY DEF ExchangeInv, EndsOnce
<1>2. QED
  BY <1>1, ExchangeInvInductive, PTL

\* A stored record that claims a complete response has the status and all the
\* bytes that the server took.
THEOREM CompleteRecordsAreTrue == Spec => []CompleteRecordIsTrue
<1>1. ExchangeInv => CompleteRecordIsTrue
  BY DEF ExchangeInv
<1>2. QED
  BY <1>1, ExchangeInvInductive, PTL

\* No stored record has fewer bytes than the server took, then or later.
THEOREM RecordsCoverResponses == Spec => []RecordCoversResponse
<1>1. ExchangeInv => RecordCoversResponse
  BY DEF ExchangeInv
<1>2. QED
  BY <1>1, ExchangeInvInductive, PTL

-----------------------------------------------------------------------------

\* What the tee knows, and what a record stored as whole was stored with.
ReadInv ==
    /\ TeeInv
    /\ record # Unknown /\ record.whole /\ KnownBody => pos = body /\ pos <= Limit

\* A step reads, or leaves the input alone; then it stores a record or not.
LEMMA ReadsOrKeeps ==
    ASSUME [Next]_vars, ~ReadsInput
    PROVE  /\ UNCHANGED inputVars
           /\ UNCHANGED record \/ \E state, partial : Finalize(state, partial)
BY Zenon DEF Next, vars, captureVars, StartResponse, Writes, Raises, Aborts, Returns,
   NextData, NextStop, Close, Fails, GoesOn

\* What finalize calls whole has been read to its end, and fits.
LEMMA WholeIsRead ==
    ASSUME TeeInv, KnownBody, ~truncated, ~incomplete
    PROVE  pos = body /\ pos <= Limit
<1>1. observed_size = pos /\ pos \in 0..body /\ body \in Nat /\ Limit \in Nat
  BY InputAssumption DEF TeeInv, CapturedIsPrefix
<1>2. pos <= Limit
  BY <1>1 DEF truncated
<1>3. CASE declared_size = Unknown
  BY <1>2, <1>3 DEF incomplete, TeeInv, KnownBody
<1>4. CASE declared_size # Unknown
  <2>1. declared_size \in Int /\ ~(observed_size < declared_size)
    BY <1>4, InputAssumption DEF incomplete, TeeInv
  <2>2. CASE declared_size <= 0
    BY <1>1, <1>2, <1>4, <2>2 DEF KnownBody
  <2>3. CASE ~(declared_size <= 0)
    BY <1>1, <1>2, <2>1, <2>3 DEF TeeInv
  <2>4. QED
    BY <2>2, <2>3
<1>5. QED
  BY <1>3, <1>4

\* ReadInv is inductive, as long as a record means that nothing is read any
\* more (ExchangeInv).
LEMMA ReadInvInductive == Spec => []ReadInv
<1>1. Init => ReadInv
  <2> SUFFICES ASSUME Init PROVE ReadInv
    OBVIOUS
  <2>1. InputInit /\ record = Unknown
    BY DEF Init
  <2>2. Limit \in Nat /\ MaxBody \in Nat
    BY InputAssumption
  <2>3. CapturedIsPrefix
    BY <2>1, <2>2 DEF InputInit, CapturedIsPrefix, Smaller
  <2>4. declared_size = Unknown => exhausted = FALSE
    BY <2>1, InputAssumption DEF InputInit
  <2>5. zero_read \in BOOLEAN
    BY <2>1, Zenon DEF InputInit
  <2>6. QED
    BY <2>1, <2>2, <2>3, <2>4, <2>5 DEF InputInit, ReadInv, TeeInv
<1>2. ReadInv /\ ExchangeInv /\ [Next]_vars => ReadInv'
  <2> SUFFICES ASSUME ReadInv, ExchangeInv, [Next]_vars PROVE ReadInv'
    OBVIOUS
  <2>1. CASE ReadsInput
    <3>1. record = Unknown /\ record' = record
      BY <2>1 DEF ReadsInput, ExchangeInv, captureVars
    <3>2. TeeInv'
      BY <2>1, TeeInvStep DEF ReadsInput, ReadInv
    <3>3. QED
      BY <3>1, <3>2 DEF ReadInv
  <2>2. CASE ~ReadsInput
    <3>1. UNCHANGED inputVars
      BY <2>2, ReadsOrKeeps
    <3>2. TeeInv' /\ KnownBody' = KnownBody /\ pos' = pos /\ body' = body
      BY <3>1 DEF ReadInv, inputVars, TeeInv, CapturedIsPrefix, KnownBody
    <3>3. CASE UNCHANGED record
      BY <3>2, <3>3 DEF ReadInv
    <3>4. CASE \E state, partial : Finalize(state, partial)
      <4>1. PICK state, partial : Finalize(state, partial)
        BY <3>4
      <4>2. CASE recording /\ ~finalized
        <5>1. record'.whole = (~truncated /\ ~incomplete)
          BY <4>1, <4>2 DEF Finalize
        <5>2. QED
          BY <3>2, <5>1, WholeIsRead DEF ReadInv
      <4>3. CASE ~(recording /\ ~finalized)
        BY <3>3, <4>1, <4>3 DEF Finalize
      <4>4. QED
        BY <4>2, <4>3
    <3>5. QED
      BY <2>2, <3>3, <3>4, ReadsOrKeeps
  <2>3. QED
    BY <2>1, <2>2
<1>3. QED
  BY <1>1, <1>2, ExchangeInvInductive, PTL DEF Spec

\* However the application reads, the copy is the beginning of what it was
\* given, without a gap, up to the limit exactly.
THEOREM CopiesArePrefixes == Spec => []CapturedIsPrefix
<1>1. ReadInv => CapturedIsPrefix
  BY DEF ReadInv, TeeInv
<1>2. QED
  BY <1>1, ReadInvInductive, PTL

\* A record marked whole, the only kind that is replayed, has every byte of
\* the body, if the length of the body is known at all.
THEOREM WholeRecordsAreWhole == Spec => []WholeRecordIsWhole
<1>1. ReadInv => WholeRecordIsWhole
  <2> SUFFICES ASSUME ReadInv, record # Unknown, record.whole, KnownBody
               PROVE  captured = [i \in 1..body |-> i]
    BY DEF WholeRecordIsWhole
  <2>1. pos = body /\ pos <= Limit /\ captured = [i \in 1..Smaller(Limit, pos) |-> i]
    BY DEF ReadInv, TeeInv, CapturedIsPrefix
  <2>2. Smaller(Limit, pos) = body
    BY <2>1, InputAssumption DEF Smaller, ReadInv, TeeInv
  <2>3. QED
    BY <2>1, <2>2, Zenon
<1>2. QED
  BY <1>1, ReadInvInductive, PTL

-----------------------------------------------------------------------------

\* What readlines has done is kept by its caller's other steps: they leave
\* the input alone.
LEMMA LinesInvInductive == Spec => []LinesInv
<1>1. Init => LinesInv
  <2> SUFFICES ASSUME Init PROVE LinesInv
    OBVIOUS
  <2>1. lines = NoLines
    BY DEF Init, InputInit
  <2>2. /\ lines \in [busy : BOOLEAN, hint : Int, from : Nat, total : Nat, whole : BOOLEAN]
        /\ ~lines.busy /\ ~lines.whole
    BY <2>1 DEF NoLines
  <2>3. QED
    BY <2>2 DEF LinesInv
<1>2. ReadInv /\ LinesInv /\ [Next]_vars => LinesInv'
  <2> SUFFICES ASSUME ReadInv, LinesInv, [Next]_vars PROVE LinesInv'
    OBVIOUS
  <2>1. CASE ReadsInput
    BY <2>1, LinesInvStep DEF ReadsInput, ReadInv
  <2>2. CASE ~ReadsInput
    <3>1. UNCHANGED <<body, pos, lines>>
      BY <2>2, ReadsOrKeeps DEF inputVars
    <3>2. QED
      BY <3>1 DEF LinesInv
  <2>3. QED
    BY <2>1, <2>2
<1>3. QED
  BY <1>1, <1>2, ReadInvInductive, PTL DEF Spec

\* readlines never takes more than the stream's own readlines would, whatever
\* the lines and the hint, and with a hint other than 0 it takes as much as
\* the stream of one server or another.
THEOREM ReadlinesTakesNoMore == Spec => []ReadlinesNeverAhead
<1>1. ReadInv /\ LinesInv => ReadlinesNeverAhead
  BY LinesAreNotAhead DEF ReadInv
<1>2. QED
  BY <1>1, ReadInvInductive, LinesInvInductive, PTL

-----------------------------------------------------------------------------
(* Types. *)

\* What TypeOK says beyond the invariants above.
NotesTyped ==
    /\ body \in 0..MaxBody
    /\ read_error \in BOOLEAN /\ exhausted \in BOOLEAN
    /\ recording \in BOOLEAN /\ finished \in BOOLEAN
    /\ response_status \in Statuses \cup {Unknown}
    /\ sent_status \in Statuses \cup {Unknown}
    /\ record \in Record \cup {Unknown}
    /\ close_calls \in 0..MaxCloses

LEMMA FinalizeTyped ==
    ASSUME NEW state \in {"complete", "application_error"}, NEW partial \in BOOLEAN,
           Finalize(state, partial), record \in Record \cup {Unknown},
           response_status' \in Statuses \cup {Unknown}, response_size' \in Nat
    PROVE  record' \in Record \cup {Unknown} /\ recording' = recording
<1>1. recording' = recording
  BY DEF Finalize
<1>2. CASE recording /\ ~finalized
  <2> DEFINE whole == ~truncated /\ ~incomplete
  <2>1. whole \in BOOLEAN
    BY Zenon
  <2>2. record' = [state |-> state, whole |-> whole,
                   response_status |-> response_status',
                   response_size |-> response_size', incomplete |-> partial]
    BY <1>2, Zenon DEF Finalize
  <2> HIDE DEF whole
  <2>3. QED
    BY <1>1, <2>1, <2>2 DEF Record
<1>3. CASE ~(recording /\ ~finalized)
  BY <1>1, <1>3 DEF Finalize
<1>4. QED
  BY <1>2, <1>3

LEMMA NotesTypedInductive == Spec => []NotesTyped
<1>1. Init => NotesTyped
  <2> SUFFICES ASSUME Init PROVE NotesTyped
    OBVIOUS
  <2>1. /\ body \in 0..MaxBody /\ read_error = FALSE /\ exhausted = (declared_size = 0)
        /\ recording \in BOOLEAN /\ finished = FALSE
        /\ response_status = Unknown /\ sent_status = Unknown /\ record = Unknown
        /\ close_calls = 0
    BY Zenon DEF Init, InputInit
  <2>2. close_calls \in 0..MaxCloses
    <3>1. 0 \in 0..MaxCloses
      BY ExchangeAssumption
    <3>2. QED
      BY <2>1, <3>1, Zenon
  <2>3. read_error \in BOOLEAN /\ exhausted \in BOOLEAN /\ finished \in BOOLEAN
    BY <2>1, Zenon
  <2>4. QED
    BY <2>1, <2>2, <2>3, Zenon DEF NotesTyped
<1>2. ExchangeInv /\ ExchangeInv' /\ NotesTyped /\ [Next]_vars => NotesTyped'
  <2> SUFFICES ASSUME ExchangeInv, ExchangeInv', NotesTyped, [Next]_vars PROVE NotesTyped'
    OBVIOUS
  <2>1. CASE ReadsInput
    <3>1. InputStep /\ UNCHANGED <<captureVars, iterVars, serverVars, noteVars>>
      BY <2>1, Zenon DEF ReadsInput
    <3>2. body' = body /\ read_error' \in BOOLEAN /\ exhausted' \in BOOLEAN
      BY <3>1, FlagsAreKept, Zenon DEF NotesTyped
    <3>3. QED
      BY <3>1, <3>2, Zenon DEF NotesTyped, captureVars, iterVars, serverVars, noteVars
  <2>2. CASE ~ReadsInput
    <3>1. UNCHANGED <<body, read_error, exhausted>>
      BY <2>2, ReadsOrKeeps, Zenon DEF inputVars
    <3>2. /\ response_status' \in Statuses \cup {Unknown}
          /\ sent_status' \in Statuses \cup {Unknown}
      <4>1. \/ UNCHANGED <<response_status, sent_status>>
            \/ \E status \in Statuses : /\ response_status' = status
                                        /\ sent_status' \in {sent_status, status}
        BY <2>2 DEF Next, vars, StartResponse, Writes, Raises, Aborts, Returns, NextData,
           NextStop, Close, serverVars, noteVars
      <4>2. QED
        BY <4>1 DEF NotesTyped
    <3>3. finished' \in BOOLEAN
      <4>1. finished' \in {finished, TRUE}
        BY <2>2 DEF Next, vars, StartResponse, Writes, Raises, Aborts, Returns, NextData,
           NextStop, Close, iterVars
      <4>2. QED
        BY <4>1, Zenon DEF NotesTyped
    <3>4. close_calls' \in 0..MaxCloses
      <4>1. \/ close_calls' = close_calls
            \/ close_calls < MaxCloses /\ close_calls' = close_calls + 1
        BY <2>2 DEF Next, vars, StartResponse, Writes, Raises, Aborts, Returns, NextData,
           NextStop, Close, iterVars
      <4>2. QED
        BY <4>1, ExchangeAssumption DEF NotesTyped
    <3>5. record' \in Record \cup {Unknown} /\ recording' = recording
      <4>1. \/ UNCHANGED <<record, recording>>
            \/ \E state \in {"complete", "application_error"}, partial \in BOOLEAN :
                  Finalize(state, partial)
        BY <2>2, Zenon DEF Next, vars, captureVars, StartResponse, Writes, Raises, Aborts,
           Returns, NextData, NextStop, Close, Fails, GoesOn
      <4>2. response_size' \in Nat
        BY DEF ExchangeInv
      <4>3. QED
        BY <3>2, <4>1, <4>2, FinalizeTyped DEF NotesTyped
    <3>6. QED
      BY <3>1, <3>2, <3>3, <3>4, <3>5, Zenon DEF NotesTyped
  <2>3. QED
    BY <2>1, <2>2
<1>3. QED
  BY <1>1, <1>2, ExchangeInvInductive, PTL DEF Spec

\* Input, record and counts stay well typed, for any bodies, statuses and
\* bounds.
THEOREM TypeCorrect == Spec => []TypeOK
<1>1. NotesTyped /\ ExchangeInv /\ ReadInv /\ LinesInv => TypeOK
  <2> SUFFICES ASSUME NotesTyped, ExchangeInv, ReadInv, LinesInv PROVE TypeOK
    OBVIOUS
  <2>1. captured \in Seq(1..body)
    <3> DEFINE n == Smaller(Limit, pos)
    <3>1. n \in Nat /\ n <= body /\ captured = [i \in 1..n |-> i] /\ body \in Nat
      BY InputAssumption DEF ReadInv, TeeInv, CapturedIsPrefix, Smaller
    <3> HIDE DEF n
    <3>2. \A i \in 1..n : i \in 1..body
      BY <3>1
    <3>3. QED
      BY <3>1, <3>2
  <2>2. InputTypeOK
    <3>1. observed_size \in Nat
      BY DEF ReadInv, TeeInv, CapturedIsPrefix
    <3>2. QED
      BY <2>1, <3>1, Zenon DEF InputTypeOK, NotesTyped, ReadInv, TeeInv, LinesInv
  <2>3. stores \in Nat /\ app_closes \in Nat
    BY DEF ExchangeInv
  <2>4. {recording, finished, closed, finalized, ended} \subseteq BOOLEAN
    BY Zenon DEF ExchangeInv, NotesTyped
  <2>5. response_size \in Nat /\ sent \in Nat /\ phase \in {"app", "serve", "over"}
    BY Zenon DEF ExchangeInv
  <2>6. QED
    BY <2>2, <2>3, <2>4, <2>5, Zenon DEF TypeOK, NotesTyped
<1>2. QED
  BY <1>1, NotesTypedInductive, ExchangeInvInductive, ReadInvInductive, LinesInvInductive,
     PTL
=============================================================================
