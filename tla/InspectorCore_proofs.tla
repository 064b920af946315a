------------------------ MODULE InspectorCore_proofs ------------------------
(***************************************************************************)
(* Proofs about InspectorCore, for every set of requests and replays.      *)
(***************************************************************************)
EXTENDS InspectorCore, FiniteSetTheorems, WellFoundedInduction, TLAPS

-----------------------------------------------------------------------------
(* The store's statements keep the tables well typed. *)

\* Inserting or overwriting a row keeps a table of rows a table of rows.
LEMMA PutType ==
    ASSUME NEW Key, NEW Row, NEW table, NEW key \in Key, NEW row \in Row,
           DOMAIN table \subseteq Key, table \in [DOMAIN table -> Row]
    PROVE  /\ DOMAIN Put(table, key, row) = DOMAIN table \cup {key}
           /\ Put(table, key, row) \in [DOMAIN Put(table, key, row) -> Row]
  BY DEF Put

\* So does an update, which touches a row only if it is there.
LEMMA UpdateType ==
    ASSUME NEW Row, NEW table, NEW key, NEW row \in Row,
           table \in [DOMAIN table -> Row]
    PROVE  /\ DOMAIN Update(table, key, row) = DOMAIN table
           /\ Update(table, key, row) \in [DOMAIN table -> Row]
  BY DEF Update

\* Deleting exchanges leaves typed rows and sets references to NULL.
LEMMA DeleteType ==
    ASSUME StoreTypeOK, NEW gone, DeleteExchanges(gone)
    PROVE  StoreTypeOK'
<1>1. DOMAIN exchange_record' \subseteq Requests
  BY DEF DeleteExchanges, StoreTypeOK
<1>2. exchange_record' \in [DOMAIN exchange_record' -> ExchangeRecord]
  BY DEF DeleteExchanges, StoreTypeOK
<1>3. DOMAIN replay_attempt' = DOMAIN replay_attempt
  BY DEF DeleteExchanges
<1>4. ASSUME NEW p \in DOMAIN replay_attempt
      PROVE  [replay_attempt[p] EXCEPT !.source = Null] \in ReplayAttemptRecord
  BY DEF StoreTypeOK, ReplayAttemptRecord
<1>5. replay_attempt' \in [DOMAIN replay_attempt' -> ReplayAttemptRecord]
  BY <1>3, <1>4 DEF DeleteExchanges, StoreTypeOK
<1>6. QED
  BY <1>1, <1>2, <1>3, <1>5 DEF StoreTypeOK

\* What create_exchange makes of a fresh row is a row.
LEMMA CorrelatedType ==
    ASSUME NEW row \in ExchangeRecord, NEW n \in Replays \cup {Null}, StoreTypeOK
    PROVE  Correlated(row, n) \in ExchangeRecord
<1>1. CASE Claimable(n)
  <2>1. n \in Replays
    BY <1>1 DEF Claimable, StoreTypeOK
  <2>2. QED
    BY <1>1, <2>1 DEF Correlated, ExchangeRecord
<1>2. CASE ~Claimable(n)
  BY <1>2 DEF Correlated, ExchangeRecord
<1>3. QED
  BY <1>1, <1>2

-----------------------------------------------------------------------------
(* Type correctness. *)

\* Both tables start empty.
LEMMA EmptyStore ==
    ASSUME exchange_record = [r \in {} |-> NewExchange(0)],
           replay_attempt  = [p \in {} |-> NewAttempt(Null)]
    PROVE  StoreTypeOK
  BY DEF StoreTypeOK

\* Fresh rows are rows.
LEMMA NewRowType ==
    /\ \A now \in Nat : NewExchange(now) \in ExchangeRecord
    /\ \A e \in Requests \cup {Null} : NewAttempt(e) \in ReplayAttemptRecord
  BY DEF NewExchange, NewAttempt, ExchangeRecord, ReplayAttemptRecord, Body

\* A step of a request's capture keeps every variable in its type.
LEMMA CaptureTypes ==
    ASSUME TypeOK, NEW r \in Requests,
           Arrive(r) \/ CaptureStep(r) \/ KillCapture(r)
    PROVE  TypeOK'
<1>1. CASE Arrive(r)
  <2>1. exchange' \in [Requests -> ExchangeRecord] /\ clock' \in Nat
    BY <1>1, NewRowType DEF Arrive, TypeOK
  <2>2. nonce' \in [Requests -> Replays \cup {Null}]
    BY <1>1 DEF Arrive, TypeOK
  <2>3. StoreTypeOK'
    BY <1>1 DEF Arrive, TypeOK, StoreTypeOK, store
  <2>4. QED
    BY <1>1, <2>1, <2>2, <2>3 DEF Arrive, TypeOK, CaptureState, replayVars
<1>2. CASE CaptureRequest(r)
  <2> DEFINE row == Correlated(exchange[r], nonce[r])
  <2>1. row \in ExchangeRecord
    BY CorrelatedType DEF TypeOK
  <2>2. /\ exchange_record' = Put(exchange_record, r, row)
        /\ exchange' = [exchange EXCEPT ![r] = row]
    BY <1>2 DEF CaptureRequest, CreateExchange
  <2>3. /\ DOMAIN exchange_record' \subseteq Requests
        /\ exchange_record' \in [DOMAIN exchange_record' -> ExchangeRecord]
    <3>1. /\ DOMAIN exchange_record \subseteq Requests
          /\ exchange_record \in [DOMAIN exchange_record -> ExchangeRecord]
      BY DEF TypeOK, StoreTypeOK
    <3>2. /\ DOMAIN Put(exchange_record, r, row) = DOMAIN exchange_record \cup {r}
          /\ Put(exchange_record, r, row)
               \in [DOMAIN Put(exchange_record, r, row) -> ExchangeRecord]
      BY ONLY <2>1, <3>1, r \in Requests, PutType
    <3>3. QED
      BY <2>2, <3>1, <3>2
  <2>4. /\ DOMAIN replay_attempt' \subseteq Replays
        /\ replay_attempt' \in [DOMAIN replay_attempt' -> ReplayAttemptRecord]
    <3>1. CASE Claimable(nonce[r])
      <4>1. /\ nonce[r] \in DOMAIN replay_attempt
            /\ replay_attempt[nonce[r]] \in ReplayAttemptRecord
        BY <3>1 DEF Claimable, TypeOK, StoreTypeOK
      <4>2. [replay_attempt[nonce[r]] EXCEPT !.claimed = TRUE]
              \in ReplayAttemptRecord
        BY <4>1 DEF ReplayAttemptRecord
      <4>3. QED
        BY <1>2, <3>1, <4>2
           DEF CaptureRequest, CreateExchange, TypeOK, StoreTypeOK
    <3>2. CASE ~Claimable(nonce[r])
      BY <1>2, <3>2 DEF CaptureRequest, CreateExchange, TypeOK, StoreTypeOK
    <3>3. QED
      BY <3>1, <3>2
  <2>5. exchange' \in [Requests -> ExchangeRecord]
    BY <2>1, <2>2 DEF TypeOK
  <2>6. QED
    BY <1>2, <2>3, <2>4, <2>5
       DEF CaptureRequest, TypeOK, StoreTypeOK, CaptureState, replayVars
<1>3. CASE Finalize(r)
  <2>1. PICK body \in {"whole", "partial"} :
          UpdateExchange(r, [exchange[r] EXCEPT !.state = "finished",
                                                !.body = body])
    BY <1>3 DEF Finalize
  <2>2. [exchange[r] EXCEPT !.state = "finished", !.body = body]
          \in ExchangeRecord
    <3>1. exchange[r] \in ExchangeRecord
      BY DEF TypeOK
    <3>2. QED
      BY <3>1 DEF ExchangeRecord, Body
  <2>3. StoreTypeOK'
    <3> DEFINE row == [exchange[r] EXCEPT !.state = "finished", !.body = body]
    <3>1. exchange_record \in [DOMAIN exchange_record -> ExchangeRecord]
      BY DEF TypeOK, StoreTypeOK
    <3>2. row \in ExchangeRecord
      BY <2>2
    <3> HIDE DEF row
    <3>3. /\ DOMAIN Update(exchange_record, r, row) = DOMAIN exchange_record
          /\ Update(exchange_record, r, row)
               \in [DOMAIN exchange_record -> ExchangeRecord]
      BY ONLY <3>1, <3>2, UpdateType
    <3>4. exchange_record' = Update(exchange_record, r, row)
          /\ UNCHANGED replay_attempt
      BY <2>1 DEF UpdateExchange, row
    <3>5. QED
      BY <3>3, <3>4 DEF TypeOK, StoreTypeOK
  <2>4. QED
    BY <1>3, <2>3 DEF Finalize, TypeOK, CaptureState, replayVars
<1>4. CASE Prune(r)
  <2>1. StoreTypeOK'
    BY <1>4, DeleteType DEF Prune, PruneExchanges, TypeOK
  <2>2. QED
    BY <1>4, <2>1 DEF Prune, TypeOK, CaptureState, replayVars
<1>5. CASE CaptureRequestFails(r) \/ FinalizeFails(r) \/ PruneFails(r)
           \/ KillCapture(r)
  BY <1>5 DEF CaptureRequestFails, FinalizeFails, PruneFails, KillCapture,
              TypeOK, StoreTypeOK, CaptureState, store, replayVars
<1>6. QED
  BY <1>1, <1>2, <1>3, <1>4, <1>5 DEF CaptureStep

\* A step of a replay keeps every variable in its type.
LEMMA ReplayTypes ==
    ASSUME TypeOK, NEW p \in Replays,
           Submit(p) \/ ReplayStep(p) \/ KillReplay(p)
    PROVE  TypeOK'
<1>1. CASE Submit(p)
  <2>1. PICK e \in DOMAIN exchange_record, m \in {"equivalent", "edited"} :
          /\ source' = [source EXCEPT ![p] = e]
          /\ snapshot' = [snapshot EXCEPT ![p] = exchange_record[e]]
          /\ mode' = [mode EXCEPT ![p] = m]
    BY <1>1 DEF Submit
  <2>2. e \in Requests /\ exchange_record[e] \in ExchangeRecord
    BY <2>1 DEF TypeOK, StoreTypeOK
  <2>3. QED
    BY <1>1, <2>1, <2>2
       DEF Submit, TypeOK, StoreTypeOK, ReplayState, store, captureVars
<1>2. CASE RecordAttempt(p)
  <2>1. NewAttempt(source[p]) \in ReplayAttemptRecord
    BY NewRowType DEF TypeOK
  <2>2. StoreTypeOK'
    <3> DEFINE row == NewAttempt(source[p])
    <3>1. /\ DOMAIN replay_attempt \subseteq Replays
          /\ replay_attempt \in [DOMAIN replay_attempt -> ReplayAttemptRecord]
      BY DEF TypeOK, StoreTypeOK
    <3>2. row \in ReplayAttemptRecord
      BY <2>1
    <3> HIDE DEF row
    <3>3. /\ DOMAIN Put(replay_attempt, p, row) = DOMAIN replay_attempt \cup {p}
          /\ Put(replay_attempt, p, row)
               \in [DOMAIN Put(replay_attempt, p, row) -> ReplayAttemptRecord]
      BY ONLY <3>1, <3>2, p \in Replays, PutType
    <3>4. replay_attempt' = Put(replay_attempt, p, row) /\ UNCHANGED exchange_record
      BY <1>2 DEF RecordAttempt, CreateAttempt, row
    <3>5. QED
      BY <3>1, <3>3, <3>4 DEF TypeOK, StoreTypeOK
  <2>3. attempt' \in [Replays -> ReplayAttemptRecord]
    BY <1>2, <2>1 DEF RecordAttempt, TypeOK
  <2>4. QED
    BY <1>2, <2>2, <2>3 DEF RecordAttempt, TypeOK, ReplayState, captureVars
<1>3. CASE Reject(p) \/ Answer(p)
  <2>1. ASSUME NEW state \in {"complete", "error"}
        PROVE  [attempt[p] EXCEPT !.state = state] \in ReplayAttemptRecord
    BY DEF TypeOK, ReplayAttemptRecord
  <2>2. PICK state \in {"complete", "error"} :
          attempt' = [attempt EXCEPT ![p].state = state]
    BY <1>3 DEF Reject, Answer
  <2>3. attempt' \in [Replays -> ReplayAttemptRecord]
    BY <2>1, <2>2 DEF TypeOK
  <2>4. QED
    BY <1>3, <2>3 DEF Reject, Answer, TypeOK, StoreTypeOK, ReplayState, store,
                      captureVars
<1>4. CASE StoreOutcome(p)
  <2>1. StoreTypeOK'
    BY <1>4, UpdateType DEF StoreOutcome, UpdateAttempt, TypeOK, StoreTypeOK
  <2>2. QED
    BY <1>4, <2>1 DEF StoreOutcome, TypeOK, ReplayState, captureVars
<1>5. CASE RecordAttemptFails(p) \/ Escape(p) \/ Connect(p) \/ Send(p)
           \/ StoreOutcomeFails(p) \/ KillReplay(p)
  BY <1>5 DEF RecordAttemptFails, Escape, Connect, Send, StoreOutcomeFails,
              KillReplay, TypeOK, StoreTypeOK, ReplayState, store, captureVars
<1>6. QED
  BY <1>1, <1>2, <1>3, <1>4, <1>5 DEF ReplayStep

-----------------------------------------------------------------------------
(* What the threads keep between two steps: the facts about a record in    *)
(* memory that make its next write a step that Correlation allows.         *)

\* A record that is not stored yet is not linked.
FreshIsUnlinked ==
    \A r \in Requests :
        capture[r] \in {"idle", "create"} => exchange[r].observed = Null

\* An attempt has a source once it is recorded, and not before.
RecordedHasSource ==
    \A p \in Replays :
        replay[p] \in {"idle", "create"} => attempt[p].source = Null

\* What update_attempt is about to write is an outcome: it also writes
\* claimed = FALSE back, which must not open the nonce again.
OutcomeIsFinal ==
    \A p \in Replays : replay[p] = "store" => attempt[p].state # "pending"

ThreadInv ==
    TypeOK /\ FreshIsUnlinked /\ RecordedHasSource /\ OutcomeIsFinal

\* Steps of a request's capture leave the replays alone.
LEMMA CaptureKeepsThreadInv ==
    ASSUME ThreadInv, NEW r \in Requests,
           Arrive(r) \/ CaptureStep(r) \/ KillCapture(r)
    PROVE  ThreadInv'
<1>1. TypeOK'
  BY CaptureTypes DEF ThreadInv
<1>2. UNCHANGED <<replay, attempt>>
  BY DEF Arrive, CaptureStep, CaptureRequest, CaptureRequestFails, Finalize,
         FinalizeFails, Prune, PruneFails, KillCapture, replayVars
<1>3. RecordedHasSource' /\ OutcomeIsFinal'
  BY <1>2 DEF ThreadInv, RecordedHasSource, OutcomeIsFinal
<1>4. FreshIsUnlinked'
  <2>1. CASE Arrive(r)
    <3>1. NewExchange(clock).observed = Null
      BY DEF NewExchange
    <3>2. QED
      BY <2>1, <3>1 DEF Arrive, ThreadInv, TypeOK, FreshIsUnlinked
  <2>2. CASE CaptureRequest(r)
    <3>1. capture'[r] = "app" /\ \A s \in Requests \ {r} :
            capture'[s] = capture[s] /\ exchange'[s] = exchange[s]
      BY <2>2 DEF CaptureRequest, ThreadInv, TypeOK
    <3>2. QED
      BY <3>1 DEF ThreadInv, FreshIsUnlinked
  <2>3. CASE CaptureRequestFails(r) \/ Finalize(r) \/ FinalizeFails(r)
             \/ Prune(r) \/ PruneFails(r) \/ KillCapture(r)
    BY <2>3 DEF CaptureRequestFails, Finalize, FinalizeFails, Prune, PruneFails,
                KillCapture, ThreadInv, TypeOK, FreshIsUnlinked
  <2>4. QED
    BY <2>1, <2>2, <2>3 DEF CaptureStep
<1>5. QED
  BY <1>1, <1>3, <1>4 DEF ThreadInv

\* Steps of a replay leave the captures alone.
LEMMA ReplayKeepsThreadInv ==
    ASSUME ThreadInv, NEW p \in Replays,
           Submit(p) \/ ReplayStep(p) \/ KillReplay(p)
    PROVE  ThreadInv'
<1>1. TypeOK'
  BY ReplayTypes DEF ThreadInv
<1>2. FreshIsUnlinked'
  <2>1. UNCHANGED <<capture, exchange>>
    BY DEF Submit, ReplayStep, RecordAttempt, RecordAttemptFails, Reject, Escape,
           Connect, Send, Answer, StoreOutcome, StoreOutcomeFails, KillReplay,
           captureVars
  <2>2. QED
    BY <2>1 DEF ThreadInv, FreshIsUnlinked
<1>3. RecordedHasSource' /\ OutcomeIsFinal'
  <2>1. CASE Submit(p) \/ RecordAttemptFails(p) \/ Escape(p) \/ Connect(p)
             \/ Send(p) \/ StoreOutcome(p) \/ StoreOutcomeFails(p)
             \/ KillReplay(p)
    BY <2>1 DEF Submit, RecordAttemptFails, Escape, Connect, Send, StoreOutcome,
                StoreOutcomeFails, KillReplay, ThreadInv, TypeOK,
                RecordedHasSource, OutcomeIsFinal
  <2>2. CASE RecordAttempt(p)
    <3>1. replay'[p] = "evaluate" /\ \A q \in Replays \ {p} :
            replay'[q] = replay[q] /\ attempt'[q] = attempt[q]
      BY <2>2 DEF RecordAttempt, ThreadInv, TypeOK
    <3>2. QED
      BY <3>1 DEF ThreadInv, RecordedHasSource, OutcomeIsFinal
  <2>3. CASE Reject(p) \/ Answer(p)
    <3>1. PICK state \in {"complete", "error"} :
            attempt' = [attempt EXCEPT ![p].state = state]
      BY <2>3 DEF Reject, Answer
    <3>2. replay' = [replay EXCEPT ![p] = "store"]
      BY <2>3 DEF Reject, Answer
    <3>3. attempt[p] \in ReplayAttemptRecord
      BY DEF ThreadInv, TypeOK
    <3>4. attempt'[p].state = state
      BY <3>1, <3>3 DEF ThreadInv, TypeOK, ReplayAttemptRecord
    <3>5. replay'[p] = "store" /\ \A q \in Replays \ {p} :
            replay'[q] = replay[q] /\ attempt'[q] = attempt[q]
      BY <3>1, <3>2 DEF ThreadInv, TypeOK
    <3>6. QED
      BY <3>4, <3>5 DEF ThreadInv, RecordedHasSource, OutcomeIsFinal
  <2>4. QED
    BY <2>1, <2>2, <2>3 DEF ReplayStep
<1>4. QED
  BY <1>1, <1>2, <1>3 DEF ThreadInv

\* The facts hold initially and every step keeps them.
LEMMA ThreadInvInductive ==
    /\ Init => ThreadInv
    /\ ThreadInv /\ [Next]_vars => ThreadInv'
<1>1. Init => ThreadInv
  <2> SUFFICES ASSUME Init PROVE ThreadInv
    OBVIOUS
  <2>1. TypeOK
    BY EmptyStore, NewRowType
       DEF Init, StoreInit, TypeOK, CaptureState, ReplayState
  <2>2. FreshIsUnlinked
    BY DEF Init, FreshIsUnlinked, NewExchange
  <2>3. RecordedHasSource /\ OutcomeIsFinal
    BY DEF Init, RecordedHasSource, OutcomeIsFinal, NewAttempt
  <2>4. QED
    BY <2>1, <2>2, <2>3 DEF ThreadInv
<1>2. ThreadInv /\ [Next]_vars => ThreadInv'
  <2> SUFFICES ASSUME ThreadInv, [Next]_vars PROVE ThreadInv'
    OBVIOUS
  <2>1. CASE Clear
    BY <2>1, EmptyStore
       DEF Clear, ClearTables, ThreadInv, TypeOK, StoreTypeOK, captureVars,
           replayVars, FreshIsUnlinked, RecordedHasSource, OutcomeIsFinal
  <2>2. CASE UNCHANGED vars
    BY <2>2 DEF vars, store, captureVars, replayVars, ThreadInv, TypeOK,
                StoreTypeOK, FreshIsUnlinked, RecordedHasSource, OutcomeIsFinal
  <2>3. QED
    BY <2>1, <2>2, CaptureKeepsThreadInv, ReplayKeepsThreadInv DEF Next
<1>3. QED
  BY <1>1, <1>2

\* Every variable keeps its type, in every interleaving and after any failure.
THEOREM TypeCorrect == Spec => []TypeOK
<1>1. ThreadInv => TypeOK
  BY DEF ThreadInv
<1>2. QED
  BY <1>1, ThreadInvInductive, PTL DEF Spec

-----------------------------------------------------------------------------
(* The core implements Correlation: each step of a thread issues, claims   *)
(* or closes nonces, or leaves them alone.                                 *)

\* Deleting exchanges makes no nonce claimable and spends none.
LEMMA DeleteKeepsClaimable ==
    ASSUME StoreTypeOK, NEW gone, DeleteExchanges(gone), NEW p
    PROVE  Claimable(p)' <=> Claimable(p)
<1>1. DOMAIN replay_attempt' = DOMAIN replay_attempt
  BY DEF DeleteExchanges
<1>2. CASE p \in DOMAIN replay_attempt
  <2>1. replay_attempt[p] \in ReplayAttemptRecord
    BY <1>2 DEF StoreTypeOK
  <2>2. \/ replay_attempt'[p] = replay_attempt[p]
        \/ replay_attempt'[p] = [replay_attempt[p] EXCEPT !.source = Null]
    BY <1>2 DEF DeleteExchanges
  <2>3. /\ replay_attempt'[p].state = replay_attempt[p].state
        /\ replay_attempt'[p].claimed = replay_attempt[p].claimed
    BY <2>1, <2>2 DEF ReplayAttemptRecord
  <2>4. QED
    BY <1>1, <2>3 DEF Claimable
<1>3. CASE p \notin DOMAIN replay_attempt
  BY <1>1, <1>3 DEF Claimable
<1>4. QED
  BY <1>2, <1>3

NonceStep == [Nonces!AbstractNext]_(Nonces!abstractVars)

\* A step that changes neither links nor sources, and opens no nonce, is a
\* step of Correlation: it closes the nonces that are claimable no more.
LEMMA ClosingStep ==
    ASSUME UNCHANGED <<exchange, Issued>>,
           \A p \in Replays : Claimable(p)' => Claimable(p)
    PROVE  NonceStep
<1> DEFINE closed == {p \in Replays : Claimable(p) /\ ~Claimable(p)'}
<1>1. closed \in SUBSET Replays
  OBVIOUS
<1>2. {p \in Replays : Claimable(p)}' = {p \in Replays : Claimable(p)} \ closed
  OBVIOUS
<1>3. Nonces!Close(closed)
  BY <1>2 DEF Nonces!Close
<1>4. QED
  BY <1>1, <1>3 DEF NonceStep, Nonces!AbstractNext

\* A capture claims the nonce it carries, once, or changes no nonce.
LEMMA CaptureNonceStep ==
    ASSUME ThreadInv, NEW r \in Requests,
           Arrive(r) \/ CaptureStep(r) \/ KillCapture(r)
    PROVE  NonceStep
<1>1. UNCHANGED Issued
  BY DEF Arrive, CaptureStep, CaptureRequest, CaptureRequestFails, Finalize,
         FinalizeFails, Prune, PruneFails, KillCapture, replayVars, Issued
<1>2. CASE Arrive(r)
  <2>1. exchange[r].observed = Null /\ NewExchange(clock).observed = Null
    BY <1>2 DEF Arrive, ThreadInv, FreshIsUnlinked, NewExchange
  <2>2. [q \in Requests |-> exchange[q].observed]'
          = [q \in Requests |-> exchange[q].observed]
    BY <1>2, <2>1 DEF Arrive, ThreadInv, TypeOK
  <2>3. UNCHANGED replay_attempt
    BY <1>2 DEF Arrive, store
  <2>4. \A p \in Replays : Claimable(p)' <=> Claimable(p)
    BY <2>3 DEF Claimable
  <2>5. UNCHANGED Nonces!abstractVars
    BY <1>1, <2>2, <2>4 DEF Nonces!abstractVars
  <2>6. QED
    BY <2>5 DEF NonceStep
<1>3. CASE CaptureRequest(r)
  <2> DEFINE n == nonce[r]
             row == exchange[r]
  <2>1. exchange' = [exchange EXCEPT ![r] = Correlated(row, n)]
    BY <1>3 DEF CaptureRequest
  <2>2. row \in ExchangeRecord /\ row.observed = Null
    BY <1>3 DEF CaptureRequest, ThreadInv, TypeOK, FreshIsUnlinked
  <2>3. CASE Claimable(n)
    <3>1. n \in Replays /\ n \in DOMAIN replay_attempt
          /\ replay_attempt[n] \in ReplayAttemptRecord
      BY <2>3 DEF Claimable, ThreadInv, TypeOK, StoreTypeOK
    <3>2. Correlated(row, n).observed = n
      BY <2>2, <2>3 DEF Correlated, ExchangeRecord
    <3>3. [q \in Requests |-> exchange[q].observed]'
            = [[q \in Requests |-> exchange[q].observed] EXCEPT ![r] = n]
      BY <2>1, <3>2 DEF ThreadInv, TypeOK
    <3>4. replay_attempt' = [replay_attempt EXCEPT ![n].claimed = TRUE]
      BY <1>3, <2>3 DEF CaptureRequest, CreateExchange
    <3>5. replay_attempt'[n].claimed
      BY <3>1, <3>4 DEF ReplayAttemptRecord
    <3>6. \A p \in Replays : Claimable(p)' <=> Claimable(p) /\ p # n
      BY <3>4, <3>5 DEF Claimable
    <3>7. {p \in Replays : Claimable(p)}' = {p \in Replays : Claimable(p)} \ {n}
      BY <3>6
    <3>8. PICK m \in Replays : m = n
      BY <3>1
    <3>9. Nonces!Claim(r, m)
      <4>1. m \in {p \in Replays : Claimable(p)}
        BY <2>3, <3>8
      <4>2. [q \in Requests |-> exchange[q].observed][r] = Null
        BY <2>2
      <4>3. QED
        BY <1>1, <3>3, <3>7, <3>8, <4>1, <4>2 DEF Nonces!Claim
    <3>10. QED
      BY <3>9 DEF NonceStep, Nonces!AbstractNext
  <2>4. CASE ~Claimable(n)
    <3>1. Correlated(row, n).observed = Null
      BY <2>2, <2>4 DEF Correlated, ExchangeRecord
    <3>2. [q \in Requests |-> exchange[q].observed]'
            = [q \in Requests |-> exchange[q].observed]
      BY <2>1, <2>2, <3>1 DEF ThreadInv, TypeOK
    <3>3. UNCHANGED replay_attempt
      BY <1>3, <2>4 DEF CaptureRequest, CreateExchange
    <3>4. \A p \in Replays : Claimable(p)' <=> Claimable(p)
      BY <3>3 DEF Claimable
    <3>5. UNCHANGED Nonces!abstractVars
      BY <1>1, <3>2, <3>4 DEF Nonces!abstractVars
    <3>6. QED
      BY <3>5 DEF NonceStep
  <2>5. QED
    BY <2>3, <2>4
<1>4. CASE Prune(r)
  <2>1. \A p \in Replays : Claimable(p)' <=> Claimable(p)
    BY <1>4, DeleteKeepsClaimable DEF Prune, PruneExchanges, ThreadInv, TypeOK
  <2>2. QED
    BY <1>1, <1>4, <2>1, ClosingStep DEF Prune
<1>5. CASE CaptureRequestFails(r) \/ Finalize(r) \/ FinalizeFails(r)
           \/ PruneFails(r) \/ KillCapture(r)
  <2>1. UNCHANGED <<exchange, replay_attempt>>
    BY <1>5 DEF CaptureRequestFails, Finalize, UpdateExchange, FinalizeFails,
                PruneFails, KillCapture, store
  <2>2. \A p \in Replays : Claimable(p)' <=> Claimable(p)
    BY <2>1 DEF Claimable
  <2>3. QED
    BY <1>1, <2>1, <2>2, ClosingStep
<1>6. QED
  BY <1>2, <1>3, <1>4, <1>5 DEF CaptureStep

\* A replay issues its nonce when it records the attempt; its later writes
\* can only close it.
LEMMA ReplayNonceStep ==
    ASSUME ThreadInv, NEW p \in Replays,
           Submit(p) \/ ReplayStep(p) \/ KillReplay(p)
    PROVE  NonceStep
<1>1. UNCHANGED exchange
  BY DEF Submit, ReplayStep, RecordAttempt, RecordAttemptFails, Reject, Escape,
         Connect, Send, Answer, StoreOutcome, StoreOutcomeFails, KillReplay,
         captureVars
<1>2. CASE RecordAttempt(p)
  <2> DEFINE row == NewAttempt(source[p])
  <2>1. /\ replay[p] = "create"
        /\ source[p] \in Requests
        /\ replay_attempt' = Put(replay_attempt, p, row)
        /\ attempt' = [attempt EXCEPT ![p] = row]
    BY <1>2 DEF RecordAttempt, CreateAttempt, NewAttempt, ThreadInv, TypeOK,
                StoreTypeOK
  <2>2. row.source # Null /\ row.state = "pending" /\ row.claimed = FALSE
    BY <2>1, ActorsAssumption DEF NewAttempt
  <2>3. p \notin Issued
    BY <2>1 DEF Issued, ThreadInv, RecordedHasSource
  <2>4. Issued' = Issued \cup {p}
    BY <2>1, <2>2 DEF Issued, ThreadInv, TypeOK
  <2>5. DOMAIN replay_attempt' = DOMAIN replay_attempt \cup {p}
        /\ replay_attempt'[p] = row
        /\ \A q \in DOMAIN replay_attempt \ {p} :
              replay_attempt'[q] = replay_attempt[q]
    BY <2>1 DEF Put
  <2>6. \A q \in Replays : Claimable(q)' <=> Claimable(q) \/ q = p
    BY <2>2, <2>5 DEF Claimable
  <2>7. {q \in Replays : Claimable(q)}' = {q \in Replays : Claimable(q)} \cup {p}
    BY <2>6
  <2>8. Nonces!Issue(p)
    BY <1>1, <2>3, <2>4, <2>7 DEF Nonces!Issue
  <2>9. QED
    BY <2>8 DEF NonceStep, Nonces!AbstractNext
<1>3. CASE Reject(p) \/ Answer(p)
  <2>1. PICK state \in {"complete", "error"} :
          attempt' = [attempt EXCEPT ![p].state = state]
    BY <1>3 DEF Reject, Answer
  <2>2. attempt[p] \in ReplayAttemptRecord
    BY DEF ThreadInv, TypeOK
  <2>3. \A q \in Replays : attempt'[q].source = attempt[q].source
    BY <2>1, <2>2 DEF ThreadInv, TypeOK, ReplayAttemptRecord
  <2>4. UNCHANGED Issued
    BY <2>3 DEF Issued
  <2>5. \A q \in Replays : Claimable(q)' <=> Claimable(q)
    BY <1>3 DEF Reject, Answer, store, Claimable
  <2>6. QED
    BY <1>1, <2>4, <2>5, ClosingStep
<1>4. CASE StoreOutcome(p)
  <2>1. attempt[p].state # "pending"
    BY <1>4 DEF StoreOutcome, ThreadInv, OutcomeIsFinal
  <2>2. replay_attempt' = Update(replay_attempt, p, attempt[p])
    BY <1>4 DEF StoreOutcome, UpdateAttempt
  <2>3. \A q \in Replays : Claimable(q)' => Claimable(q)
    BY <2>1, <2>2 DEF Update, Claimable
  <2>4. UNCHANGED Issued
    BY <1>4 DEF StoreOutcome, Issued
  <2>5. QED
    BY <1>1, <2>3, <2>4, ClosingStep
<1>5. CASE Submit(p) \/ RecordAttemptFails(p) \/ Escape(p) \/ Connect(p)
           \/ Send(p) \/ StoreOutcomeFails(p) \/ KillReplay(p)
  <2>1. UNCHANGED <<attempt, replay_attempt>>
    BY <1>5 DEF Submit, RecordAttemptFails, Escape, Connect, Send,
                StoreOutcomeFails, KillReplay, store
  <2>2. UNCHANGED Issued /\ \A q \in Replays : Claimable(q)' <=> Claimable(q)
    BY <2>1 DEF Issued, Claimable
  <2>3. QED
    BY <1>1, <2>2, ClosingStep
<1>6. QED
  BY <1>2, <1>3, <1>4, <1>5 DEF ReplayStep

\* The threads, with every failure and death, implement Correlation.
THEOREM CoreImplementsCorrelation == Spec => ImplementsCorrelation
<1>1. Init => Nonces!AbstractInit
  <2> SUFFICES ASSUME Init PROVE Nonces!AbstractInit
    OBVIOUS
  <2>1. Issued = {}
    BY DEF Init, Issued, NewAttempt
  <2>2. {p \in Replays : Claimable(p)} = {}
    BY DEF Init, StoreInit, Claimable
  <2>3. [r \in Requests |-> exchange[r].observed] = [r \in Requests |-> Null]
    BY DEF Init, NewExchange
  <2>4. QED
    BY <2>1, <2>2, <2>3 DEF Nonces!AbstractInit
<1>2. ThreadInv /\ [Next]_vars => NonceStep
  <2> SUFFICES ASSUME ThreadInv, [Next]_vars PROVE NonceStep
    OBVIOUS
  <2>1. CASE Clear
    <3>1. UNCHANGED <<exchange, attempt>> /\ DOMAIN replay_attempt' = {}
      BY <2>1 DEF Clear, ClearTables, captureVars, replayVars
    <3>2. UNCHANGED Issued /\ \A p \in Replays : ~Claimable(p)'
      BY <3>1 DEF Issued, Claimable
    <3>3. QED
      BY <3>1, <3>2, ClosingStep
  <2>2. CASE UNCHANGED vars
    <3>1. UNCHANGED <<exchange, attempt, replay_attempt>>
      BY <2>2 DEF vars, store, captureVars, replayVars
    <3>2. UNCHANGED Issued /\ \A p \in Replays : Claimable(p)' <=> Claimable(p)
      BY <3>1 DEF Issued, Claimable
    <3>3. QED
      BY <3>1, <3>2, ClosingStep
  <2>3. QED
    BY <2>1, <2>2, CaptureNonceStep, ReplayNonceStep DEF Next
<1>3. QED
  BY <1>1, <1>2, ThreadInvInductive, PTL
     DEF Spec, ImplementsCorrelation, Nonces!AbstractSpec, NonceStep

\* Hence a nonce correlates at most one exchange, for any number of requests,
\* replays and workers: Correlation promises it and the core implements it.
THEOREM CoreCorrelatesOnce == Spec => []NonceCorrelatesOnce
<1>1. Nonces!AbstractSpec => [](Nonces!AbstractTypeOK /\ Nonces!ClaimedOnce)
  BY Nonces!AbstractlyClaimedOnce
<1>2. Nonces!ClaimedOnce => NonceCorrelatesOnce
  BY DEF Nonces!ClaimedOnce, NonceCorrelatesOnce
<1>3. QED
  BY <1>1, <1>2, CoreImplementsCorrelation, PTL DEF ImplementsCorrelation

-----------------------------------------------------------------------------
(* Every replay keeps to ReplayPhases. *)

\* A step of one replay is a step of its phases, and touches no other replay.
LEMMA ReplayPhaseStep ==
    ASSUME TypeOK, NEW q \in Replays, NEW p \in Replays,
           Submit(q) \/ ReplayStep(q) \/ KillReplay(q)
    PROVE  Phases(p)!PhaseNext \/ UNCHANGED Phases(p)!phaseVars
<1> USE DEF TypeOK, Phases!phaseVars, Phases!PhaseNext
<1>1. CASE p # q
  <2>1. replay'[p] = replay[p] /\ (p \in wire' <=> p \in wire)
    BY <1>1 DEF Submit, ReplayStep, KillReplay, RecordAttempt, RecordAttemptFails,
                Reject, Escape, Connect, Send, Answer, StoreOutcome, StoreOutcomeFails
  <2>2. QED
    BY <2>1
<1>2. CASE p = q
  <2>1. CASE Submit(q)
    BY <1>2, <2>1 DEF Submit, Phases!Prepare
  <2>2. CASE RecordAttempt(q)
    BY <1>2, <2>2 DEF RecordAttempt, Phases!Prepare
  <2>3. CASE RecordAttemptFails(q)
    BY <1>2, <2>3 DEF RecordAttemptFails, Phases!Prepare
  <2>4. CASE Reject(q)
    BY <1>2, <2>4 DEF Reject, Phases!Decide
  <2>5. CASE Escape(q)
    BY <1>2, <2>5 DEF Escape, Phases!Decide, Phases!Send
  <2>6. CASE Connect(q)
    BY <1>2, <2>6 DEF Connect, Phases!Decide
  <2>7. CASE Send(q)
    BY <1>2, <2>7 DEF Send, Phases!Send
  <2>8. CASE Answer(q)
    BY <1>2, <2>8 DEF Answer, Phases!Send, Phases!Settle
  <2>9. CASE StoreOutcome(q)
    BY <1>2, <2>9 DEF StoreOutcome, Phases!Finish
  <2>10. CASE StoreOutcomeFails(q)
    BY <1>2, <2>10 DEF StoreOutcomeFails, Phases!Finish
  <2>11. CASE KillReplay(q)
    BY <1>2, <2>11 DEF KillReplay, Phases!Die
  <2>12. QED
    BY <2>1, <2>2, <2>3, <2>4, <2>5, <2>6, <2>7, <2>8, <2>9, <2>10, <2>11 DEF ReplayStep
<1>3. QED
  BY <1>1, <1>2

\* Each of any number of replays, whatever the store and the workers do, goes
\* through the phases of ReplayPhases: it is sent at most once, only after its
\* attempt was committed, and then comes to an outcome.
THEOREM CoreImplementsPhases == Spec => ImplementsPhases
<1> DEFINE PhaseStep == \A p \in Replays :
                Phases(p)!PhaseNext \/ UNCHANGED Phases(p)!phaseVars
<1>1. Init => \A p \in Replays : Phases(p)!PhaseInit
  BY DEF Init, Phases!PhaseInit
<1>2. TypeOK /\ [Next]_vars => [PhaseStep]_vars
  <2> SUFFICES ASSUME TypeOK, [Next]_vars, NEW p \in Replays
               PROVE  Phases(p)!PhaseNext \/ UNCHANGED Phases(p)!phaseVars
    OBVIOUS
  <2>1. CASE \E q \in Replays : Submit(q) \/ ReplayStep(q) \/ KillReplay(q)
    BY <2>1, ReplayPhaseStep
  <2>2. CASE \E r \in Requests : Arrive(r) \/ CaptureStep(r) \/ KillCapture(r)
    <3>1. UNCHANGED <<replay, wire>>
      BY <2>2 DEF Arrive, CaptureStep, KillCapture, CaptureRequest, CaptureRequestFails,
                  Finalize, FinalizeFails, Prune, PruneFails, replayVars
    <3>2. QED
      BY <3>1 DEF Phases!phaseVars
  <2>3. CASE Clear
    BY <2>3 DEF Clear, replayVars, Phases!phaseVars
  <2>4. CASE UNCHANGED vars
    BY <2>4 DEF vars, replayVars, Phases!phaseVars
  <2>5. QED
    BY <2>1, <2>2, <2>3, <2>4 DEF Next
<1>3. QED
  BY <1>1, <1>2, TypeCorrect, PTL DEF Spec, ImplementsPhases

-----------------------------------------------------------------------------
(* Rows, links and claims: what any two threads know of each other through *)
(* the store.                                                              *)

\* A nonce comes from the wire, and is on the wire only once its attempt has
\* been committed.
NonceIsSent    == \A r \in Requests : nonce[r] \in wire \cup {Null}
WireIsRecorded == \A p \in wire : replay[p] \notin {"idle", "create"}

\* A link is to a nonce that was sent; a stored row has been inserted by its
\* thread; and the attempt that a stored row is linked to is stored as well.
LinkIsSent     == \A r \in Requests : exchange[r].observed \in wire \cup {Null}
RowIsRecorded  == \A r \in DOMAIN exchange_record : Recorded(r)
LinkHasAttempt ==
    \A r \in DOMAIN exchange_record :
        exchange[r].observed # Null => exchange[r].observed \in DOMAIN replay_attempt

LinkInv ==
    /\ NonceIsSent /\ WireIsRecorded /\ LinkIsSent
    /\ RowIsRecorded /\ LinkHasAttempt
    /\ InboundIsCorrelated /\ ClaimMatchesLink

\* What all steps have in common that neither record a capture nor an attempt:
\* rows and pending attempts can go, links and nonces stay as they are.
QuietStep ==
    /\ wire \subseteq wire'
    /\ \A p \in Replays :
          /\ replay[p] \notin {"idle", "create"} => replay'[p] \notin {"idle", "create"}
          /\ p \in wire' \ wire => replay'[p] \notin {"idle", "create"}
    /\ \A r \in Requests :
          /\ exchange'[r].observed = exchange[r].observed
          /\ nonce'[r] \in wire' \cup {Null}
          /\ Recorded(r)' <=> Recorded(r)
          /\ Recorded(r) => UNCHANGED <<nonce[r], exchange[r]>>
    /\ DOMAIN exchange_record' \subseteq DOMAIN exchange_record
    /\ \A r \in DOMAIN exchange_record' :
          exchange_record'[r].observed = exchange_record[r].observed
    /\ \A p \in DOMAIN replay_attempt' :
          /\ p \in DOMAIN replay_attempt
          /\ replay_attempt'[p].state = "pending" =>
                 /\ replay_attempt[p].state = "pending"
                 /\ replay_attempt'[p].claimed = replay_attempt[p].claimed
    /\ DOMAIN exchange_record' # {} =>
           DOMAIN replay_attempt \subseteq DOMAIN replay_attempt'

\* Such a step keeps what LinkInv says.
LEMMA QuietKeepsLinks ==
    ASSUME TypeOK, TypeOK', LinkInv, QuietStep
    PROVE  LinkInv'
<1>1. /\ DOMAIN exchange_record \subseteq Requests /\ wire' \subseteq Replays
      /\ DOMAIN replay_attempt \subseteq Replays
  BY DEF TypeOK, StoreTypeOK
<1>2. NonceIsSent' /\ WireIsRecorded' /\ LinkIsSent'
  BY <1>1 DEF LinkInv, NonceIsSent, WireIsRecorded, LinkIsSent, QuietStep
<1>3. RowIsRecorded'
  BY <1>1 DEF LinkInv, RowIsRecorded, QuietStep
<1>4. LinkHasAttempt'
  BY <1>1 DEF LinkInv, LinkHasAttempt, QuietStep
<1>5. InboundIsCorrelated'
  BY <1>1 DEF LinkInv, InboundIsCorrelated, QuietStep
<1>6. ClaimMatchesLink'
  BY <1>1 DEF LinkInv, ClaimMatchesLink, QuietStep
<1>7. QED
  BY <1>2, <1>3, <1>4, <1>5, <1>6 DEF LinkInv

\* Deleting exchanges leaves what is left of them, and the state and claim of
\* every attempt.
LEMMA DeleteIsQuiet ==
    ASSUME StoreTypeOK, NEW gone, DeleteExchanges(gone)
    PROVE  /\ DOMAIN exchange_record' = DOMAIN exchange_record \ gone
           /\ \A r \in DOMAIN exchange_record' : exchange_record'[r] = exchange_record[r]
           /\ DOMAIN replay_attempt' = DOMAIN replay_attempt
           /\ \A p \in DOMAIN replay_attempt :
                 /\ replay_attempt'[p].state = replay_attempt[p].state
                 /\ replay_attempt'[p].claimed = replay_attempt[p].claimed
<1>1. /\ DOMAIN exchange_record' = DOMAIN exchange_record \ gone
      /\ \A r \in DOMAIN exchange_record' : exchange_record'[r] = exchange_record[r]
      /\ DOMAIN replay_attempt' = DOMAIN replay_attempt
  BY DEF DeleteExchanges
<1>2. ASSUME NEW p \in DOMAIN replay_attempt
      PROVE  /\ replay_attempt'[p].state = replay_attempt[p].state
             /\ replay_attempt'[p].claimed = replay_attempt[p].claimed
  <2>1. replay_attempt[p] \in ReplayAttemptRecord
    BY DEF StoreTypeOK
  <2>2. \/ replay_attempt'[p] = replay_attempt[p]
        \/ replay_attempt'[p] = [replay_attempt[p] EXCEPT !.source = Null]
    BY DEF DeleteExchanges
  <2>3. QED
    BY <2>1, <2>2 DEF ReplayAttemptRecord
<1>3. QED
  BY <1>1, <1>2

\* A step of a capture is quiet, but for the one that inserts its row.
LEMMA CaptureIsQuiet ==
    ASSUME ThreadInv, LinkInv, NEW r \in Requests,
           Arrive(r) \/ CaptureStep(r) \/ KillCapture(r), ~CaptureRequest(r)
    PROVE  QuietStep
<1> USE DEF QuietStep, Recorded
<1>1. UNCHANGED <<wire, replay>>
  BY DEF Arrive, CaptureStep, CaptureRequest, CaptureRequestFails, Finalize,
         FinalizeFails, Prune, PruneFails, KillCapture, replayVars
<1>2. NonceIsSent /\ TypeOK /\ StoreTypeOK
  BY DEF LinkInv, ThreadInv, TypeOK
<1>3. CASE Arrive(r)
  <2>1. PICK n \in wire \cup {Null} : nonce' = [nonce EXCEPT ![r] = n]
    BY <1>3 DEF Arrive
  <2>2. exchange[r].observed = Null /\ NewExchange(clock).observed = Null
    BY <1>3 DEF Arrive, ThreadInv, FreshIsUnlinked, NewExchange
  <2>3. /\ ~Recorded(r) /\ ~Recorded(r)'
        /\ \A q \in Requests : exchange'[q].observed = exchange[q].observed
        /\ \A q \in Requests \ {r} : capture'[q] = capture[q]
                                     /\ UNCHANGED <<nonce[q], exchange[q]>>
        /\ \A q \in Requests : nonce'[q] \in wire' \cup {Null}
    BY <1>1, <1>2, <1>3, <2>1, <2>2 DEF Arrive, TypeOK, NonceIsSent
  <2>4. UNCHANGED store
    BY <1>3 DEF Arrive
  <2>5. QED
    BY <1>1, <2>3, <2>4 DEF store
<1>4. CASE CaptureRequestFails(r) \/ FinalizeFails(r) \/ PruneFails(r) \/ KillCapture(r)
  <2>1. UNCHANGED <<store, nonce, exchange>>
    BY <1>4 DEF CaptureRequestFails, FinalizeFails, PruneFails, KillCapture
  <2>2. \A q \in Requests : Recorded(q)' <=> Recorded(q)
    BY <1>2, <1>4 DEF CaptureRequestFails, FinalizeFails, PruneFails, KillCapture, TypeOK
  <2>3. QED
    BY <1>1, <1>2, <2>1, <2>2 DEF store, NonceIsSent
<1>5. CASE Finalize(r)
  <2>1. PICK body \in {"whole", "partial"} :
          UpdateExchange(r, [exchange[r] EXCEPT !.state = "finished", !.body = body])
    BY <1>5 DEF Finalize
  <2> DEFINE row == [exchange[r] EXCEPT !.state = "finished", !.body = body]
  <2>2. row.observed = exchange[r].observed
    <3>1. exchange[r] \in ExchangeRecord
      BY <1>2 DEF TypeOK
    <3>2. QED
      BY <3>1 DEF ExchangeRecord
  <2>3. exchange_record' = Update(exchange_record, r, row) /\ UNCHANGED replay_attempt
    BY <2>1 DEF UpdateExchange
  <2> HIDE DEF row
  <2>4. /\ DOMAIN exchange_record' = DOMAIN exchange_record
        /\ \A q \in DOMAIN exchange_record :
              exchange_record'[q] = IF q = r THEN row ELSE exchange_record[q]
    BY <2>3 DEF Update
  <2>5. \A q \in DOMAIN exchange_record :
            exchange_record'[q].observed = exchange_record[q].observed
    BY <2>2, <2>4 DEF LinkInv, ClaimMatchesLink
  <2>6. \A q \in Requests : Recorded(q)' <=> Recorded(q)
    BY <1>2, <1>5 DEF Finalize, TypeOK
  <2>7. UNCHANGED <<nonce, exchange>>
    BY <1>5 DEF Finalize
  <2>8. QED
    BY <1>1, <1>2, <2>3, <2>4, <2>5, <2>6, <2>7 DEF NonceIsSent
<1>6. CASE Prune(r)
  <2>1. DeleteExchanges(Surplus(MaxRecords)) /\ UNCHANGED <<nonce, exchange>>
    BY <1>6 DEF Prune, PruneExchanges
  <2>2. \A q \in Requests : Recorded(q)' <=> Recorded(q)
    BY <1>2, <1>6 DEF Prune, TypeOK
  <2>3. QED
    BY <1>1, <1>2, <2>1, <2>2, DeleteIsQuiet DEF NonceIsSent
<1>7. QED
  BY <1>3, <1>4, <1>5, <1>6 DEF CaptureStep

\* So is a step of a replay, but for the one that inserts its attempt.
LEMMA ReplayIsQuiet ==
    ASSUME ThreadInv, LinkInv, NEW p \in Replays,
           Submit(p) \/ ReplayStep(p) \/ KillReplay(p), ~RecordAttempt(p)
    PROVE  QuietStep
<1> USE DEF QuietStep, Recorded
<1>1. UNCHANGED <<capture, nonce, exchange>> /\ UNCHANGED exchange_record
  BY DEF Submit, ReplayStep, RecordAttempt, RecordAttemptFails, Reject, Escape,
         Connect, Send, Answer, StoreOutcome, UpdateAttempt, StoreOutcomeFails,
         KillReplay, captureVars, store
<1>2. NonceIsSent /\ TypeOK
  BY DEF LinkInv, ThreadInv
<1>3. /\ wire \subseteq wire'
      /\ \A q \in Replays :
            /\ replay[q] \notin {"idle", "create"} => replay'[q] \notin {"idle", "create"}
            /\ q \in wire' \ wire => replay'[q] \notin {"idle", "create"}
  BY <1>2 DEF Submit, ReplayStep, RecordAttempt, RecordAttemptFails, Reject, Escape,
         Connect, Send, Answer, StoreOutcome, StoreOutcomeFails, KillReplay, TypeOK
<1>4. \A r \in Requests : nonce'[r] \in wire' \cup {Null}
  BY <1>1, <1>2, <1>3 DEF NonceIsSent
<1>5. CASE StoreOutcome(p)
  <2>1. attempt[p].state # "pending"
    BY <1>5 DEF StoreOutcome, ThreadInv, OutcomeIsFinal
  <2>2. replay_attempt' = Update(replay_attempt, p, attempt[p])
    BY <1>5 DEF StoreOutcome, UpdateAttempt
  <2>3. /\ DOMAIN replay_attempt' = DOMAIN replay_attempt
        /\ \A q \in DOMAIN replay_attempt :
              replay_attempt'[q] = IF q = p THEN attempt[p] ELSE replay_attempt[q]
    BY <2>2 DEF Update
  <2>4. QED
    BY <1>1, <1>3, <1>4, <2>1, <2>3
<1>6. CASE ~StoreOutcome(p)
  <2>1. UNCHANGED replay_attempt
    BY <1>6 DEF Submit, ReplayStep, RecordAttemptFails, Reject, Escape, Connect, Send,
                Answer, StoreOutcomeFails, KillReplay, store
  <2>2. QED
    BY <1>1, <1>3, <1>4, <2>1
<1>7. QED
  BY <1>5, <1>6

\* A capture that inserts its row is linked to a pending nonce or marked as
\* a duplicate, and the claim is stored with it.
LEMMA CaptureKeepsLinks ==
    ASSUME ThreadInv, LinkInv, NEW r \in Requests, CaptureRequest(r)
    PROVE  LinkInv'
<1> DEFINE n == nonce[r]
           row == Correlated(exchange[r], n)
<1>1. /\ TypeOK /\ capture[r] = "create"
      /\ exchange[r] \in ExchangeRecord /\ exchange[r].observed = Null
      /\ n \in wire \cup {Null} /\ wire \subseteq Replays
      /\ DOMAIN replay_attempt \subseteq Replays /\ Null \notin Replays
      /\ DOMAIN exchange_record \subseteq Requests
  BY ActorsAssumption
     DEF CaptureRequest, ThreadInv, TypeOK, StoreTypeOK, FreshIsUnlinked, LinkInv, NonceIsSent
<1>2. /\ capture' = [capture EXCEPT ![r] = "app"]
      /\ exchange' = [exchange EXCEPT ![r] = row]
      /\ exchange_record' = Put(exchange_record, r, row)
      /\ UNCHANGED <<wire, nonce, replay>>
      /\ replay_attempt' = IF Claimable(n)
                           THEN [replay_attempt EXCEPT ![n].claimed = TRUE]
                           ELSE replay_attempt
  BY DEF CaptureRequest, CreateExchange, replayVars
<1>3. /\ row.observed = IF Claimable(n) THEN n ELSE Null
      /\ n \in DOMAIN replay_attempt /\ replay_attempt[n].state = "pending"
            /\ ~Claimable(n) => row.diagnostic = "duplicate-correlation"
  BY <1>1 DEF Correlated, Claimable, ExchangeRecord
<1> HIDE DEF row
<1>4. /\ exchange'[r] = row
      /\ \A q \in Requests \ {r} : exchange'[q] = exchange[q] /\ capture'[q] = capture[q]
      /\ capture'[r] = "app"
  BY <1>1, <1>2 DEF TypeOK
<1>5. /\ DOMAIN exchange_record' = DOMAIN exchange_record \cup {r}
      /\ exchange_record'[r] = row
      /\ \A q \in DOMAIN exchange_record \ {r} : exchange_record'[q] = exchange_record[q]
  BY <1>2 DEF Put
<1>6. /\ DOMAIN replay_attempt' = DOMAIN replay_attempt
      /\ \A p \in DOMAIN replay_attempt :
            /\ replay_attempt'[p].state = replay_attempt[p].state
            /\ replay_attempt'[p].claimed = (replay_attempt[p].claimed \/ (p = n /\ Claimable(n)))
  <2>1. CASE Claimable(n)
    <3>1. n \in DOMAIN replay_attempt /\ replay_attempt[n] \in ReplayAttemptRecord
      BY <1>1, <2>1 DEF Claimable, TypeOK, StoreTypeOK
    <3>2. replay_attempt' = [replay_attempt EXCEPT ![n].claimed = TRUE]
      BY <1>2, <2>1
    <3>3. \A p \in DOMAIN replay_attempt : p # n => replay_attempt'[p] = replay_attempt[p]
      BY <3>2
    <3>4. replay_attempt'[n].state = replay_attempt[n].state /\ replay_attempt'[n].claimed = TRUE
      BY <3>1, <3>2 DEF ReplayAttemptRecord
    <3>5. \A p \in DOMAIN replay_attempt : replay_attempt[p].claimed \in BOOLEAN
      BY <1>1 DEF TypeOK, StoreTypeOK, ReplayAttemptRecord
    <3>6. QED
      BY <2>1, <3>2, <3>3, <3>4, <3>5
  <2>2. CASE ~Claimable(n)
    <3>1. replay_attempt' = replay_attempt
      BY <1>2, <2>2
    <3>2. \A p \in DOMAIN replay_attempt : replay_attempt[p].claimed \in BOOLEAN
      BY <1>1 DEF TypeOK, StoreTypeOK, ReplayAttemptRecord
    <3>3. QED
      BY <2>2, <3>1, <3>2
  <2>3. QED
    BY <2>1, <2>2
<1>7. Claimable(n) => n \in wire /\ n \in DOMAIN replay_attempt /\ n # Null
  BY <1>1 DEF Claimable
<1>8. NonceIsSent' /\ WireIsRecorded'
  BY <1>2 DEF LinkInv, NonceIsSent, WireIsRecorded
<1>9. LinkIsSent'
  BY <1>2, <1>3, <1>4, <1>7 DEF LinkInv, LinkIsSent
<1>10. RowIsRecorded'
  BY <1>1, <1>4, <1>5 DEF LinkInv, RowIsRecorded, Recorded
<1>11. LinkHasAttempt'
  BY <1>1, <1>3, <1>4, <1>5, <1>6, <1>7 DEF LinkInv, LinkHasAttempt
<1>12. InboundIsCorrelated'
  <2> SUFFICES ASSUME NEW q \in Requests, NEW p \in DOMAIN replay_attempt,
                      Recorded(q)', nonce[q] = p, replay_attempt[p].state = "pending"
               PROVE  \/ exchange'[q].observed = p
                      \/ exchange'[q].diagnostic = "duplicate-correlation"
    BY <1>2, <1>6 DEF InboundIsCorrelated
  <2>1. CASE q = r
    BY <1>3, <1>4, <2>1
  <2>2. CASE q # r
    BY <1>4, <2>2 DEF LinkInv, InboundIsCorrelated, Recorded
  <2>3. QED
    BY <2>1, <2>2
<1>13. ClaimMatchesLink'
  <2>1. \A p \in DOMAIN replay_attempt : replay_attempt[p].state = "pending" =>
            (replay_attempt'[p].claimed <=> \E q \in Requests : exchange'[q].observed = p)
    <3> SUFFICES ASSUME NEW p \in DOMAIN replay_attempt, replay_attempt[p].state = "pending"
                 PROVE  replay_attempt'[p].claimed <=> \E q \in Requests : exchange'[q].observed = p
      OBVIOUS
    <3>1. replay_attempt[p].claimed <=> \E q \in Requests : exchange[q].observed = p
      BY DEF LinkInv, ClaimMatchesLink
    <3>2. (\E q \in Requests : exchange'[q].observed = p) <=>
              \/ \E q \in Requests : exchange[q].observed = p
              \/ p = n /\ Claimable(n)
      BY <1>1, <1>3, <1>4
    <3>3. QED
      BY <1>6, <3>1, <3>2
  <2>2. \A q \in DOMAIN exchange_record' : exchange_record'[q].observed = exchange'[q].observed
    BY <1>1, <1>4, <1>5 DEF LinkInv, ClaimMatchesLink
  <2>3. QED
    BY <1>6, <2>1, <2>2 DEF ClaimMatchesLink
<1>14. QED
  BY <1>8, <1>9, <1>10, <1>11, <1>12, <1>13 DEF LinkInv

\* An attempt is inserted before its nonce is sent: no link and no request
\* can be to it yet.
LEMMA AttemptKeepsLinks ==
    ASSUME ThreadInv, LinkInv, NEW p \in Replays, RecordAttempt(p)
    PROVE  LinkInv'
<1>1. /\ TypeOK /\ replay[p] = "create"
      /\ UNCHANGED <<exchange_record, wire, capture, nonce, exchange>>
      /\ replay_attempt' = Put(replay_attempt, p, NewAttempt(source[p]))
      /\ replay' = [replay EXCEPT ![p] = "evaluate"]
  BY DEF RecordAttempt, CreateAttempt, ThreadInv, captureVars
<1>2. p \notin wire /\ Null \notin Replays
  BY <1>1, ActorsAssumption DEF LinkInv, WireIsRecorded
<1>3. \A r \in Requests : nonce[r] # p /\ exchange[r].observed # p
  BY <1>2 DEF LinkInv, NonceIsSent, LinkIsSent
<1>4. /\ DOMAIN replay_attempt' = DOMAIN replay_attempt \cup {p}
      /\ replay_attempt'[p].claimed = FALSE
      /\ \A q \in DOMAIN replay_attempt \ {p} : replay_attempt'[q] = replay_attempt[q]
  BY <1>1 DEF Put, NewAttempt
<1>5. NonceIsSent' /\ LinkIsSent' /\ RowIsRecorded'
  BY <1>1 DEF LinkInv, NonceIsSent, LinkIsSent, RowIsRecorded, Recorded
<1>6. WireIsRecorded'
  BY <1>1 DEF LinkInv, WireIsRecorded, TypeOK
<1>7. LinkHasAttempt'
  BY <1>1, <1>4 DEF LinkInv, LinkHasAttempt
<1>8. InboundIsCorrelated'
  BY <1>1, <1>3, <1>4 DEF LinkInv, InboundIsCorrelated, Recorded
<1>9. ClaimMatchesLink'
  BY <1>1, <1>3, <1>4 DEF LinkInv, ClaimMatchesLink
<1>10. QED
  BY <1>5, <1>6, <1>7, <1>8, <1>9 DEF LinkInv

\* LinkInv is inductive, given ThreadInv.
LEMMA LinkInvInductive == Spec => []LinkInv
<1>1. Init => LinkInv
  <2> SUFFICES ASSUME Init PROVE LinkInv
    OBVIOUS
  <2>1. /\ DOMAIN exchange_record = {} /\ DOMAIN replay_attempt = {} /\ wire = {}
        /\ \A r \in Requests : nonce[r] = Null /\ exchange[r].observed = Null
    BY DEF Init, StoreInit, NewExchange
  <2>2. QED
    BY <2>1 DEF LinkInv, NonceIsSent, WireIsRecorded, LinkIsSent, RowIsRecorded,
                LinkHasAttempt, InboundIsCorrelated, ClaimMatchesLink
<1>2. ThreadInv /\ ThreadInv' /\ LinkInv /\ [Next]_vars => LinkInv'
  <2> SUFFICES ASSUME ThreadInv, ThreadInv', LinkInv, [Next]_vars PROVE LinkInv'
    OBVIOUS
  <2>1. QuietStep => LinkInv'
    BY QuietKeepsLinks DEF ThreadInv
  <2>2. CASE Clear
    <3>1. /\ DOMAIN exchange_record' = {} /\ DOMAIN replay_attempt' = {}
          /\ UNCHANGED <<wire, replay, capture, nonce, exchange>>
      BY <2>2 DEF Clear, ClearTables, captureVars, replayVars
    <3>2. QuietStep
      BY <3>1 DEF QuietStep, LinkInv, NonceIsSent, Recorded
    <3>3. QED
      BY <2>1, <3>2
  <2>3. CASE UNCHANGED vars
    <3>1. UNCHANGED <<exchange_record, replay_attempt, wire, replay, capture, nonce, exchange>>
      BY <2>3 DEF vars, store, captureVars, replayVars
    <3>2. QuietStep
      BY <3>1 DEF QuietStep, LinkInv, NonceIsSent, Recorded
    <3>3. QED
      BY <2>1, <3>2
  <2>4. ASSUME NEW r \in Requests, Arrive(r) \/ CaptureStep(r) \/ KillCapture(r)
        PROVE  LinkInv'
    BY <2>1, <2>4, CaptureIsQuiet, CaptureKeepsLinks
  <2>5. ASSUME NEW p \in Replays, Submit(p) \/ ReplayStep(p) \/ KillReplay(p)
        PROVE  LinkInv'
    BY <2>1, <2>5, ReplayIsQuiet, AttemptKeepsLinks
  <2>6. QED
    BY <2>2, <2>3, <2>4, <2>5 DEF Next
<1>3. QED
  BY <1>1, <1>2, ThreadInvInductive, PTL DEF Spec

\* A request that carries the nonce of a pending attempt does not go
\* unnoticed, however early, late or often it arrives.
THEOREM InboundsAreCorrelated == Spec => []InboundIsCorrelated
<1>1. LinkInv => InboundIsCorrelated
  BY DEF LinkInv
<1>2. QED
  BY <1>1, LinkInvInductive, PTL

\* Link and claim are stored together or not at all.
THEOREM ClaimsMatchLinks == Spec => []ClaimMatchesLink
<1>1. LinkInv => ClaimMatchesLink
  BY DEF LinkInv
<1>2. QED
  BY <1>1, LinkInvInductive, PTL

\* No constraint refuses what finalize writes: the attempt that a stored row
\* is linked to is stored (clear empties both tables), and no other row is.
THEOREM FinalizesAreAccepted == Spec => []FinalizeIsNeverRefused
<1>1. TypeOK /\ LinkInv /\ NonceCorrelatesOnce => FinalizeIsNeverRefused
  <2> SUFFICES ASSUME TypeOK, LinkInv, NonceCorrelatesOnce, NEW r \in Requests,
                      r \in DOMAIN exchange_record, exchange[r].observed # Null
               PROVE  /\ exchange[r].observed \in DOMAIN replay_attempt
                      /\ \A s \in DOMAIN exchange_record \ {r} :
                            exchange_record[s].observed # exchange[r].observed
    BY DEF FinalizeIsNeverRefused, ExchangeAccepted
  <2>1. exchange[r].observed \in DOMAIN replay_attempt
    BY DEF LinkInv, LinkHasAttempt
  <2>2. ASSUME NEW s \in DOMAIN exchange_record \ {r}
        PROVE  exchange_record[s].observed # exchange[r].observed
    <3>1. s \in Requests /\ exchange_record[s].observed = exchange[s].observed
      BY DEF TypeOK, StoreTypeOK, LinkInv, ClaimMatchesLink
    <3>2. QED
      BY <3>1 DEF NonceCorrelatesOnce
  <2>3. QED
    BY <2>1, <2>2
<1>2. QED
  BY <1>1, LinkInvInductive, TypeCorrect, CoreCorrelatesOnce, PTL

\* Only the thread that is about to insert a row can add one, so whatever a
\* thread writes later does not bring back what was pruned or cleared.
THEOREM NothingRemovedReturns == Spec => RemovedStaysRemoved
<1>1. TypeOK /\ [Next]_vars =>
          /\ \A r \in DOMAIN exchange_record' \ DOMAIN exchange_record : capture[r] = "create"
          /\ \A p \in DOMAIN replay_attempt' \ DOMAIN replay_attempt : replay[p] = "create"
  <2> SUFFICES ASSUME TypeOK, [Next]_vars
               PROVE  /\ \A r \in DOMAIN exchange_record' :
                            r \in DOMAIN exchange_record \/ capture[r] = "create"
                      /\ \A p \in DOMAIN replay_attempt' :
                            p \in DOMAIN replay_attempt \/ replay[p] = "create"
    OBVIOUS
  <2>1. ASSUME NEW r \in Requests, CaptureRequest(r)
        PROVE  /\ DOMAIN exchange_record' = DOMAIN exchange_record \cup {r}
               /\ DOMAIN replay_attempt' = DOMAIN replay_attempt
    BY <2>1 DEF CaptureRequest, CreateExchange, Put
  <2>2. ASSUME NEW p \in Replays, RecordAttempt(p)
        PROVE  /\ DOMAIN replay_attempt' = DOMAIN replay_attempt \cup {p}
               /\ UNCHANGED exchange_record
    BY <2>2 DEF RecordAttempt, CreateAttempt, Put
  <2>3. ASSUME NEW r \in Requests, Arrive(r) \/ CaptureStep(r) \/ KillCapture(r),
               ~CaptureRequest(r)
        PROVE  /\ DOMAIN exchange_record' \subseteq DOMAIN exchange_record
               /\ DOMAIN replay_attempt' = DOMAIN replay_attempt
    BY <2>3 DEF Arrive, CaptureStep, CaptureRequestFails, Finalize, UpdateExchange, Update,
                FinalizeFails, Prune, PruneExchanges, DeleteExchanges, PruneFails,
                KillCapture, store
  <2>4. ASSUME NEW p \in Replays, Submit(p) \/ ReplayStep(p) \/ KillReplay(p),
               ~RecordAttempt(p)
        PROVE  /\ DOMAIN replay_attempt' = DOMAIN replay_attempt
               /\ UNCHANGED exchange_record
    BY <2>4 DEF Submit, ReplayStep, RecordAttemptFails, Reject, Escape, Connect, Send,
                Answer, StoreOutcome, UpdateAttempt, Update, StoreOutcomeFails,
                KillReplay, store
  <2>5. CASE Clear
    BY <2>5 DEF Clear, ClearTables
  <2>6. CASE UNCHANGED vars
    BY <2>6 DEF vars, store
  <2>7. CASE \E r \in Requests : Arrive(r) \/ CaptureStep(r) \/ KillCapture(r)
    BY <2>1, <2>3, <2>7 DEF CaptureRequest
  <2>8. CASE \E p \in Replays : Submit(p) \/ ReplayStep(p) \/ KillReplay(p)
    BY <2>2, <2>4, <2>8 DEF RecordAttempt
  <2>9. QED
    BY <2>5, <2>6, <2>7, <2>8 DEF Next
<1>2. QED
  BY <1>1, TypeCorrect, PTL DEF Spec, RemovedStaysRemoved

-----------------------------------------------------------------------------
(* What a replay reports. *)

\* Until the outcome is written, the stored attempt is pending and nothing
\* has been reported; an outcome is final.
ReportInv ==
    /\ \A p \in Replays :
          /\ replay[p] \in {"evaluate", "send", "wait", "store"} /\ p \in DOMAIN replay_attempt
                 => replay_attempt[p].state = "pending"
          /\ replay[p] # "done" => ~persistence_error[p]
          /\ replay[p] = "done" => attempt[p].state # "pending"
    /\ ReportMatchesStore

\* A step that leaves one replay alone, and the state of its attempt, keeps
\* what ReportInv says of it.
ReportKept(p) ==
    /\ UNCHANGED <<attempt[p], persistence_error[p], replay[p]>>
    /\ p \in DOMAIN replay_attempt' =>
           /\ p \in DOMAIN replay_attempt
           /\ replay_attempt'[p].state = replay_attempt[p].state

\* ReportInv is inductive, given ThreadInv.
LEMMA ReportInvInductive == Spec => []ReportInv
<1>1. Init => ReportInv
  BY DEF Init, ReportInv, ReportMatchesStore
<1>2. ThreadInv /\ ReportInv /\ [Next]_vars => ReportInv'
  <2> SUFFICES ASSUME ThreadInv, ReportInv, [Next]_vars PROVE ReportInv'
    OBVIOUS
  <2> USE DEF ReportInv, ReportMatchesStore
  <2>1. CASE \A p \in Replays : ReportKept(p)
    BY <2>1 DEF ReportKept
  <2>2. CASE Clear
    BY <2>1, <2>2 DEF Clear, ClearTables, replayVars, ReportKept
  <2>3. CASE UNCHANGED vars
    BY <2>1, <2>3 DEF vars, store, replayVars, ReportKept
  <2>4. ASSUME NEW r \in Requests, Arrive(r) \/ CaptureStep(r) \/ KillCapture(r)
        PROVE  ReportInv'
    <3>1. UNCHANGED replayVars
      BY <2>4 DEF Arrive, CaptureStep, CaptureRequest, CaptureRequestFails, Finalize,
                  FinalizeFails, Prune, PruneFails, KillCapture
    <3>2. /\ DOMAIN replay_attempt' = DOMAIN replay_attempt
          /\ \A p \in DOMAIN replay_attempt : replay_attempt'[p].state = replay_attempt[p].state
      <4>1. CASE CaptureRequest(r)
        <5>1. \/ replay_attempt' = replay_attempt
              \/ replay_attempt' = [replay_attempt EXCEPT ![nonce[r]].claimed = TRUE]
          BY <4>1 DEF CaptureRequest, CreateExchange
        <5>2. \A p \in DOMAIN replay_attempt : replay_attempt[p] \in ReplayAttemptRecord
          BY DEF ThreadInv, TypeOK, StoreTypeOK
        <5>3. QED
          BY <5>1, <5>2 DEF ReplayAttemptRecord
      <4>2. CASE Prune(r)
        BY <4>2, DeleteIsQuiet DEF Prune, PruneExchanges, ThreadInv, TypeOK
      <4>3. CASE ~CaptureRequest(r) /\ ~Prune(r)
        BY <2>4, <4>3 DEF Arrive, CaptureStep, CaptureRequestFails, Finalize, UpdateExchange,
                    FinalizeFails, PruneFails, KillCapture, store
      <4>4. QED
        BY <4>1, <4>2, <4>3
    <3>3. QED
      BY <2>1, <3>1, <3>2 DEF replayVars, ReportKept
  <2>5. ASSUME NEW p \in Replays, Submit(p) \/ ReplayStep(p) \/ KillReplay(p)
        PROVE  ReportInv'
    <3> USE DEF ThreadInv, TypeOK
    <3>1. \A q \in Replays \ {p} : ReportKept(q)
      BY <2>5 DEF ReportKept, Submit, ReplayStep, RecordAttempt, CreateAttempt, Put,
           RecordAttemptFails, Reject, Escape, Connect, Send, Answer, StoreOutcome,
           UpdateAttempt, Update, StoreOutcomeFails, KillReplay, store
    <3>2. CASE Submit(p) \/ RecordAttemptFails(p) \/ Escape(p) \/ Connect(p) \/ Send(p)
               \/ KillReplay(p)
      BY <3>1, <3>2 DEF ReportKept, Submit, RecordAttemptFails, Escape, Connect, Send,
           KillReplay, store
    <3>3. CASE RecordAttempt(p)
      <4>1. /\ replay'[p] = "evaluate" /\ ~persistence_error'[p]
            /\ replay_attempt'[p].state = "pending"
        BY <3>3 DEF RecordAttempt, CreateAttempt, Put, NewAttempt
      <4>2. QED
        BY <3>1, <4>1 DEF ReportKept
    <3>4. CASE Reject(p) \/ Answer(p)
      <4>1. replay'[p] = "store" /\ replay[p] \in {"evaluate", "send", "wait"}
            /\ UNCHANGED <<replay_attempt, persistence_error>>
        BY <3>4 DEF Reject, Answer, store
      <4>2. QED
        BY <3>1, <4>1 DEF ReportKept
    <3>5. CASE StoreOutcome(p)
      <4>1. /\ replay[p] = "store" /\ replay'[p] = "done"
            /\ UNCHANGED <<attempt, persistence_error>>
            /\ p \in DOMAIN replay_attempt' => replay_attempt'[p] = attempt[p]
        BY <3>5 DEF StoreOutcome, UpdateAttempt, Update
      <4>2. attempt[p].state # "pending"
        BY <4>1 DEF OutcomeIsFinal
      <4>3. QED
        BY <3>1, <4>1, <4>2 DEF ReportKept
    <3>6. CASE StoreOutcomeFails(p)
      <4>1. /\ replay[p] = "store" /\ replay'[p] = "done"
            /\ UNCHANGED <<attempt, replay_attempt>> /\ persistence_error'[p] = TRUE
        BY <3>6 DEF StoreOutcomeFails, store
      <4>2. attempt[p].state # "pending"
        BY <4>1 DEF OutcomeIsFinal
      <4>3. QED
        BY <3>1, <4>1, <4>2 DEF ReportKept
    <3>7. QED
      BY <2>5, <3>2, <3>3, <3>4, <3>5, <3>6 DEF ReplayStep
  <2>6. QED
    BY <2>2, <2>3, <2>4, <2>5 DEF Next
<1>3. QED
  BY <1>1, <1>2, ThreadInvInductive, PTL DEF Spec

\* The page says that an outcome was not saved exactly when the stored
\* attempt does not have it.
THEOREM ReportsAreTrue == Spec => []ReportMatchesStore
<1>1. ReportInv => ReportMatchesStore
  BY DEF ReportInv
<1>2. QED
  BY <1>1, ReportInvInductive, PTL

-----------------------------------------------------------------------------
(* Pending rows. *)

\* If no transaction fails and no worker dies, a pending row is one whose
\* request is being served: finalize always gets to write its state, since no
\* constraint refuses it.
THEOREM PendingsAreServed ==
    ASSUME ~StorageFails, ~WorkersDie
    PROVE  Spec => []PendingIsInFlight
<1>1. Init => PendingIsInFlight
  BY DEF Init, StoreInit, PendingIsInFlight
<1>2. TypeOK /\ FinalizeIsNeverRefused /\ PendingIsInFlight /\ [Next]_vars
          => PendingIsInFlight'
  <2> SUFFICES ASSUME TypeOK, FinalizeIsNeverRefused, PendingIsInFlight, [Next]_vars
               PROVE  PendingIsInFlight'
    OBVIOUS
  <2> USE DEF PendingIsInFlight
  <2>0. DOMAIN exchange_record \subseteq Requests /\ TypeOK
    BY DEF TypeOK, StoreTypeOK
  <2>1. CASE UNCHANGED <<exchange_record, capture>>
    BY <2>1
  <2>2. ASSUME NEW r \in Requests, CaptureRequest(r) PROVE PendingIsInFlight'
    <3> DEFINE row == Correlated(exchange[r], nonce[r])
    <3>1. /\ capture' = [capture EXCEPT ![r] = "app"]
          /\ exchange_record' = Put(exchange_record, r, row)
      BY <2>2 DEF CaptureRequest, CreateExchange
    <3> HIDE DEF row
    <3>2. \A s \in DOMAIN exchange_record' :
              \/ s = r
              \/ s \in DOMAIN exchange_record /\ exchange_record'[s] = exchange_record[s]
      BY <3>1 DEF Put
    <3>3. QED
      BY <2>0, <3>1, <3>2 DEF TypeOK
  <2>3. ASSUME NEW r \in Requests, Finalize(r) PROVE PendingIsInFlight'
    <3>1. PICK body \in {"whole", "partial"} :
            UpdateExchange(r, [exchange[r] EXCEPT !.state = "finished", !.body = body])
      BY <2>3 DEF Finalize
    <3> DEFINE row == [exchange[r] EXCEPT !.state = "finished", !.body = body]
    <3>2. row.state = "finished"
      <4>1. exchange[r] \in ExchangeRecord
        BY DEF TypeOK
      <4>2. QED
        BY <4>1 DEF ExchangeRecord
    <3>3. exchange_record' = Update(exchange_record, r, row)
      BY <3>1 DEF UpdateExchange
    <3> HIDE DEF row
    <3>4. QED
      BY <2>0, <2>3, <3>2, <3>3 DEF Finalize, Update, TypeOK
  <2>4. ASSUME NEW r \in Requests, Prune(r) PROVE PendingIsInFlight'
    <3>1. \A s \in DOMAIN exchange_record' :
              s \in DOMAIN exchange_record /\ exchange_record'[s] = exchange_record[s]
      BY <2>4, DeleteIsQuiet DEF Prune, PruneExchanges, TypeOK
    <3>2. QED
      BY <2>0, <2>4, <3>1 DEF Prune, TypeOK
  <2>5. ASSUME NEW r \in Requests, Arrive(r) PROVE PendingIsInFlight'
    BY <2>0, <2>5 DEF Arrive, store, TypeOK
  <2>6. ASSUME NEW r \in Requests, CaptureStep(r) \/ KillCapture(r)
        PROVE  PendingIsInFlight'
    <3>1. ~FinalizeFails(r)
      BY DEF FinalizeFails, FinalizeIsNeverRefused
    <3>2. QED
      BY <2>2, <2>3, <2>4, <2>6, <3>1
         DEF CaptureStep, CaptureRequestFails, PruneFails, KillCapture
  <2>7. ASSUME NEW p \in Replays, Submit(p) \/ ReplayStep(p) \/ KillReplay(p)
        PROVE  PendingIsInFlight'
    BY <2>1, <2>7 DEF Submit, ReplayStep, RecordAttempt, CreateAttempt, RecordAttemptFails,
         Reject, Escape, Connect, Send, Answer, StoreOutcome, UpdateAttempt,
         StoreOutcomeFails, KillReplay, store, captureVars
  <2>8. CASE Clear
    BY <2>8 DEF Clear, ClearTables
  <2>9. CASE UNCHANGED vars
    BY <2>1, <2>9 DEF vars, store, captureVars
  <2>10. QED
    BY <2>5, <2>6, <2>7, <2>8, <2>9 DEF Next
<1>3. QED
  BY <1>1, <1>2, TypeCorrect, FinalizesAreAccepted, PTL DEF Spec

-----------------------------------------------------------------------------
(* Retention. *)

\* Multiples of the clock's second that differ are a second apart.
LEMMA SecondsApart ==
    ASSUME NEW q \in Int, NEW p \in Int, q < p
    PROVE  Ticks * q \in Int /\ Ticks * p \in Int /\ Ticks * q + Ticks <= Ticks * p
<1>1. p - q - 1 \in Nat /\ Ticks \in Nat
  BY ActorsAssumption
<1>2. Ticks * (p - q - 1) \in Nat
  BY <1>1
<1>3. Ticks * (p - q - 1) = Ticks * p - Ticks * q - Ticks
  BY <1>1
<1>4. QED
  BY <1>1, <1>2, <1>3

\* An instant is so many whole seconds, and a fraction.
LEMMA Seconds ==
    ASSUME NEW time \in Nat
    PROVE  /\ time \div Ticks \in Int
           /\ Ticks * (time \div Ticks) \in Int
           /\ time = Ticks * (time \div Ticks) + (time % Ticks)
           /\ time % Ticks \in 0..(Ticks - 1)
           /\ TextOrder(time) \in Nat
           /\ TextOrder(time) = IF time % Ticks = 0 THEN time + Ticks ELSE time
<1>1. Ticks \in Nat \ {0}
  BY ActorsAssumption
<1>2. time \div Ticks \in Int
  BY <1>1
<1>3. time = Ticks * (time \div Ticks) + (time % Ticks)
  BY <1>1
<1>4. time % Ticks \in 0..(Ticks - 1)
  BY <1>1
<1> DEFINE seconds  == time \div Ticks
           fraction == time % Ticks
<1>5. Ticks * seconds \in Int
  <2> HIDE DEF seconds
  <2>1. QED
    BY <1>1, <1>2 DEF seconds
<1>6. TextOrder(time) = IF fraction = 0 THEN time + Ticks ELSE time
  BY DEF TextOrder
<1>7. TextOrder(time) \in Nat
  <2> HIDE DEF fraction
  <2>1. QED
    BY <1>1, <1>6
<1>8. QED
  BY <1>2, <1>3, <1>4, <1>5, <1>6, <1>7

\* Two instants never have the same text.
LEMMA TextsDiffer ==
    ASSUME NEW a \in Nat, NEW b \in Nat, TextOrder(a) = TextOrder(b)
    PROVE  a = b
<1>1. Ticks \in Nat \ {0}
  BY ActorsAssumption
<1>2. ASSUME NEW x \in Nat, NEW y \in Nat, TextOrder(x) = TextOrder(y),
             x % Ticks = 0, y % Ticks # 0
      PROVE  FALSE
  <2> DEFINE q == x \div Ticks
             p == y \div Ticks
             Q == Ticks * q
             P == Ticks * p
             f == y % Ticks
  <2>1. /\ q \in Int /\ Q \in Int /\ x = Q + (x % Ticks)
        /\ p \in Int /\ P \in Int /\ y = P + f /\ f \in 0..(Ticks - 1)
    BY Seconds
  <2>2. x = Q
    <3> HIDE DEF Q
    <3>1. QED
      BY <1>2, <2>1
  <2>3. TextOrder(x) = x + Ticks /\ TextOrder(y) = y /\ f # 0
    BY <1>2 DEF TextOrder
  <2> HIDE DEF f
  <2>4. CASE p < q
    <3>1. P + Ticks <= Q
      BY <2>1, <2>4, SecondsApart
    <3> HIDE DEF P, Q
    <3>2. QED
      BY <1>1, <1>2, <2>1, <2>2, <2>3, <3>1
  <2>5. CASE p = q
    <3>1. P = Q
      BY <2>5
    <3> HIDE DEF P, Q
    <3>2. QED
      BY <1>1, <1>2, <2>1, <2>2, <2>3, <3>1
  <2>6. CASE p = q + 1
    <3>1. P = Q + Ticks
      <4>1. Ticks * (q + 1) = Ticks * q + Ticks
        <5> HIDE DEF q
        <5>1. QED
          BY <1>1, <2>1
      <4>2. QED
        BY <2>6, <4>1
    <3> HIDE DEF P, Q
    <3>2. QED
      BY <1>1, <1>2, <2>1, <2>2, <2>3, <3>1
  <2>7. CASE q + 1 < p
    <3> DEFINE R == Ticks * (q + 1)
    <3>1. R + Ticks <= P /\ R \in Int
      BY <2>1, <2>7, SecondsApart
    <3>2. R = Q + Ticks
      <4> HIDE DEF q
      <4>1. QED
        BY <1>1, <2>1
    <3> HIDE DEF P, Q, R
    <3>3. QED
      BY <1>1, <1>2, <2>1, <2>2, <2>3, <3>1, <3>2
  <2>8. QED
    <3> HIDE DEF p, q
    <3>1. QED
      BY <2>1, <2>4, <2>5, <2>6, <2>7
<1>3. CASE a % Ticks = 0 /\ b % Ticks = 0
  BY <1>1, <1>3 DEF TextOrder
<1>4. CASE a % Ticks # 0 /\ b % Ticks # 0
  BY <1>4 DEF TextOrder
<1>5. QED
  BY <1>2, <1>3, <1>4

\* What has the earlier text is not younger by a second.
LEMMA TextsAgree ==
    ASSUME NEW a \in Nat, NEW b \in Nat, TextOrder(a) <= TextOrder(b)
    PROVE  a \div Ticks <= b \div Ticks
<1>1. Ticks \in Nat \ {0}
  BY ActorsAssumption
<1> DEFINE q == a \div Ticks
           p == b \div Ticks
           Q == Ticks * q
           P == Ticks * p
           f == a % Ticks
           g == b % Ticks
<1>2. /\ q \in Int /\ Q \in Int /\ a = Q + f /\ f \in 0..(Ticks - 1)
      /\ p \in Int /\ P \in Int /\ b = P + g /\ g \in 0..(Ticks - 1)
  BY Seconds
<1>3. /\ TextOrder(a) = IF f = 0 THEN a + Ticks ELSE a
      /\ TextOrder(b) = IF g = 0 THEN b + Ticks ELSE b
  BY DEF TextOrder
<1>4. ASSUME p < q PROVE P + Ticks <= Q
  BY <1>2, <1>4, SecondsApart
<1> HIDE DEF P, Q, f, g
<1>5. TextOrder(a) > Q /\ TextOrder(a) \in Int
  BY <1>1, <1>2, <1>3
<1>6. TextOrder(b) <= P + Ticks /\ TextOrder(b) \in Int
  BY <1>1, <1>2, <1>3
<1>7. QED
  BY <1>1, <1>2, <1>4, <1>5, <1>6

\* A nonempty set of naturals has a least element.
LEMMA Least ==
    ASSUME NEW T, T \subseteq Nat, T # {}
    PROVE  \E x \in T : \A y \in T : x <= y
<1>1. PICK x \in T : \A y \in T : ~(<<y, x>> \in OpToRel(<, Nat))
  BY NatLessThanWellFounded, WFMin, Zenon
<1>2. \A y \in T : ~(y < x)
  BY <1>1, Zenon DEF OpToRel
<1>3. QED
  BY <1>2

\* The rows that prune leaves are at most as many as it is told, if no two
\* were captured at the same instant.
LEMMA KeptAreFew ==
    ASSUME TypeOK, NEW maximum \in Nat,
           \A r, s \in DOMAIN exchange_record :
               exchange_record[r].created_at = exchange_record[s].created_at => r = s
    PROVE  Cardinality(DOMAIN exchange_record \ Surplus(maximum)) <= maximum
<1> DEFINE rows == DOMAIN exchange_record
           kept == rows \ Surplus(maximum)
           text(r) == TextOrder(exchange_record[r].created_at)
           newer(r) == {s \in rows : Newer(s, r)}
<1>1. /\ rows \subseteq Requests /\ IsFiniteSet(rows)
      /\ \A r \in rows : exchange_record[r].created_at \in Nat
  <2>1. rows \subseteq Requests /\ \A r \in rows : exchange_record[r] \in ExchangeRecord
    BY DEF TypeOK, StoreTypeOK
  <2>2. QED
    BY <2>1, ActorsAssumption, FS_Subset DEF ExchangeRecord
<1>2. /\ IsFiniteSet(kept) /\ Cardinality(kept) \in Nat
      /\ \A r \in rows : IsFiniteSet(newer(r)) /\ Cardinality(newer(r)) \in Nat
  <2>1. \A S \in SUBSET rows : IsFiniteSet(S) /\ Cardinality(S) \in Nat
    BY <1>1, FS_Subset, FS_CardinalityType
  <2>2. kept \in SUBSET rows /\ \A r \in rows : newer(r) \in SUBSET rows
    OBVIOUS
  <2>3. QED
    BY <2>1, <2>2
<1>3. \A r \in kept : Cardinality(newer(r)) < maximum
  BY <1>2 DEF Surplus
<1>4. CASE kept = {}
  <2>1. Cardinality(kept) = 0
    <3> HIDE DEF kept
    <3>1. QED
      BY <1>4, FS_EmptySet
  <2>2. QED
    BY <2>1
<1>5. CASE kept # {}
  <2> DEFINE texts == {text(r) : r \in kept}
  <2>1. texts \subseteq Nat /\ texts # {}
    BY <1>1, <1>5, Seconds
  <2>2. \E x \in texts : \A y \in texts : x <= y
    <3> HIDE DEF texts
    <3>1. QED
      BY <2>1, Least
  <2>3. PICK oldest \in kept : \A r \in kept : text(oldest) <= text(r)
    BY <2>2
  <2>4. kept \ {oldest} \subseteq newer(oldest)
    <3> SUFFICES ASSUME NEW r \in kept, r # oldest PROVE Newer(r, oldest)
      OBVIOUS
    <3>1. /\ exchange_record[r].created_at \in Nat
          /\ exchange_record[oldest].created_at \in Nat
          /\ exchange_record[r].created_at # exchange_record[oldest].created_at
      BY <1>1
    <3>2. text(r) # text(oldest) /\ text(r) \in Nat /\ text(oldest) \in Nat
      BY <3>1, TextsDiffer, Seconds
    <3>3. QED
      BY <2>3, <3>2 DEF Newer
  <2>5. Cardinality(kept \ {oldest}) = Cardinality(kept) - 1
    BY <1>2, FS_RemoveElement
  <2>6. Cardinality(kept \ {oldest}) <= Cardinality(newer(oldest))
    BY <1>2, <2>4, FS_Subset
  <2>7. /\ Cardinality(newer(oldest)) < maximum
        /\ Cardinality(newer(oldest)) \in Nat
    BY <1>2, <1>3
  <2>8. Cardinality(kept) <= maximum
    <3> DEFINE n == Cardinality(newer(oldest))
               k == Cardinality(kept)
               m == Cardinality(kept \ {oldest})
    <3>1. k \in Nat /\ n \in Nat /\ n < maximum /\ m = k - 1 /\ m <= n
      BY <1>2, <2>5, <2>6, <2>7
    <3> HIDE DEF n, k, m
    <3>2. k <= maximum
      BY <3>1
    <3>3. QED
      BY <3>2 DEF k
  <2>9. QED
    BY <2>8
<1>6. QED
  BY <1>4, <1>5

\* No two captures were created at the same instant, the clock is past all of
\* them, and a stored row has the time its thread holds in memory.
TimesDiffer ==
    /\ \A r \in Requests : capture[r] # "idle" => exchange[r].created_at < clock
    /\ \A r, s \in Requests :
          /\ capture[r] # "idle" /\ capture[s] # "idle"
          /\ exchange[r].created_at = exchange[s].created_at
          => r = s
    /\ \A r \in DOMAIN exchange_record :
          exchange_record[r].created_at = exchange[r].created_at

\* What all steps but an arrival do with times: nothing, or write the time in
\* memory to the store.
TimeStep ==
    /\ UNCHANGED clock
    /\ \A r \in Requests :
          /\ capture'[r] = "idle" <=> capture[r] = "idle"
          /\ exchange'[r].created_at = exchange[r].created_at
    /\ \A r \in DOMAIN exchange_record' :
          \/ exchange_record'[r].created_at = exchange[r].created_at
          \/ /\ r \in DOMAIN exchange_record
             /\ exchange_record'[r].created_at = exchange_record[r].created_at

LEMMA TimesAreKept ==
    ASSUME TypeOK, TypeOK', TimesDiffer, TimeStep
    PROVE  TimesDiffer'
<1>1. DOMAIN exchange_record' \subseteq Requests
  BY DEF TypeOK, StoreTypeOK
<1>2. QED
  BY <1>1 DEF TimesDiffer, TimeStep

LEMMA CaptureKeepsTimes ==
    ASSUME TypeOK, NEW r \in Requests, CaptureStep(r) \/ KillCapture(r)
    PROVE  TimeStep
<1>1. /\ UNCHANGED clock
      /\ exchange[r] \in ExchangeRecord
      /\ \A q \in Requests : capture'[q] = "idle" <=> capture[q] = "idle"
  BY DEF CaptureStep, CaptureRequest, CaptureRequestFails, Finalize, FinalizeFails,
         Prune, PruneFails, KillCapture, TypeOK
<1>2. CASE CaptureRequest(r)
  <2> DEFINE row == Correlated(exchange[r], nonce[r])
  <2>1. row.created_at = exchange[r].created_at
    BY <1>1 DEF Correlated, ExchangeRecord
  <2>2. /\ exchange_record' = Put(exchange_record, r, row)
        /\ exchange' = [exchange EXCEPT ![r] = row]
    BY <1>2 DEF CaptureRequest, CreateExchange
  <2> HIDE DEF row
  <2>3. \A q \in Requests : exchange'[q].created_at = exchange[q].created_at
    BY <2>1, <2>2 DEF TypeOK
  <2>4. \A q \in DOMAIN exchange_record' :
            \/ q = r /\ exchange_record'[q] = row
            \/ q \in DOMAIN exchange_record /\ exchange_record'[q] = exchange_record[q]
    BY <2>2 DEF Put
  <2>5. QED
    BY <1>1, <2>1, <2>3, <2>4 DEF TimeStep
<1>3. CASE Finalize(r)
  <2>1. PICK body \in {"whole", "partial"} :
          UpdateExchange(r, [exchange[r] EXCEPT !.state = "finished", !.body = body])
    BY <1>3 DEF Finalize
  <2> DEFINE row == [exchange[r] EXCEPT !.state = "finished", !.body = body]
  <2>2. row.created_at = exchange[r].created_at
    BY <1>1 DEF ExchangeRecord
  <2>3. exchange_record' = Update(exchange_record, r, row) /\ UNCHANGED exchange
    BY <1>3, <2>1 DEF UpdateExchange, Finalize
  <2> HIDE DEF row
  <2>4. \A q \in DOMAIN exchange_record' :
            \/ q = r /\ exchange_record'[q] = row
            \/ q \in DOMAIN exchange_record /\ exchange_record'[q] = exchange_record[q]
    BY <2>3 DEF Update
  <2>5. QED
    BY <1>1, <2>2, <2>3, <2>4 DEF TimeStep
<1>4. CASE Prune(r)
  <2>1. /\ UNCHANGED exchange
        /\ \A q \in DOMAIN exchange_record' :
              q \in DOMAIN exchange_record /\ exchange_record'[q] = exchange_record[q]
    BY <1>4, DeleteIsQuiet DEF Prune, PruneExchanges, TypeOK
  <2>2. QED
    BY <1>1, <2>1 DEF TimeStep
<1>5. CASE CaptureRequestFails(r) \/ FinalizeFails(r) \/ PruneFails(r) \/ KillCapture(r)
  <2>1. UNCHANGED <<exchange_record, exchange>>
    BY <1>5 DEF CaptureRequestFails, FinalizeFails, PruneFails, KillCapture, store
  <2>2. QED
    BY <1>1, <2>1 DEF TimeStep
<1>6. QED
  BY <1>2, <1>3, <1>4, <1>5 DEF CaptureStep

\* Steps of replays and of the page leave captures alone.
LEMMA OthersKeepCaptures ==
    ASSUME \/ \E p \in Replays : Submit(p) \/ ReplayStep(p) \/ KillReplay(p)
           \/ Clear
           \/ UNCHANGED vars
    PROVE  /\ UNCHANGED <<clock, capture, exchange>>
           /\ \/ UNCHANGED exchange_record
              \/ DOMAIN exchange_record' = {}
<1>1. ASSUME NEW p \in Replays, Submit(p) \/ ReplayStep(p) \/ KillReplay(p)
      PROVE  UNCHANGED <<clock, capture, exchange, exchange_record>>
  BY <1>1 DEF Submit, ReplayStep, RecordAttempt, CreateAttempt, RecordAttemptFails,
              Reject, Escape, Connect, Send, Answer, StoreOutcome, UpdateAttempt,
              StoreOutcomeFails, KillReplay, store, captureVars
<1>2. CASE Clear
  BY <1>2 DEF Clear, ClearTables, captureVars
<1>3. CASE UNCHANGED vars
  BY <1>3 DEF vars, store, captureVars
<1>4. QED
  BY <1>1, <1>2, <1>3

LEMMA TimesInductive == Spec => []TimesDiffer
<1>1. Init => TimesDiffer
  BY DEF Init, StoreInit, TimesDiffer
<1>2. TypeOK /\ TypeOK' /\ LinkInv /\ TimesDiffer /\ [Next]_vars => TimesDiffer'
  <2> SUFFICES ASSUME TypeOK, TypeOK', LinkInv, TimesDiffer, [Next]_vars
               PROVE  TimesDiffer'
    OBVIOUS
  <2>1. ASSUME NEW r \in Requests, Arrive(r) PROVE TimesDiffer'
    <3>1. /\ clock \in Nat /\ clock' = clock + 1
          /\ exchange'[r].created_at = clock
          /\ capture[r] = "idle"
          /\ UNCHANGED exchange_record
          /\ \A q \in Requests \ {r} : UNCHANGED <<capture[q], exchange[q]>>
      BY <2>1 DEF Arrive, NewExchange, store, TypeOK
    <3>2. \A q \in Requests : exchange[q].created_at \in Nat
      <4>1. \A q \in Requests : exchange[q] \in ExchangeRecord
        BY DEF TypeOK
      <4>2. QED
        BY <4>1 DEF ExchangeRecord
    <3>3. DOMAIN exchange_record \subseteq Requests \ {r}
      BY <3>1 DEF TypeOK, StoreTypeOK, LinkInv, RowIsRecorded, Recorded
    <3>4. QED
      BY <3>1, <3>2, <3>3 DEF TimesDiffer
  <2>2. ASSUME NEW r \in Requests, CaptureStep(r) \/ KillCapture(r) PROVE TimesDiffer'
    BY <2>2, CaptureKeepsTimes, TimesAreKept
  <2>3. CASE \/ \E p \in Replays : Submit(p) \/ ReplayStep(p) \/ KillReplay(p)
             \/ Clear
             \/ UNCHANGED vars
    <3>1. TimeStep
      BY <2>3, OthersKeepCaptures DEF TimeStep
    <3>2. QED
      BY <3>1, TimesAreKept
  <2>4. QED
    BY <2>1, <2>2, <2>3 DEF Next
<1>3. QED
  BY <1>1, <1>2, TypeCorrect, LinkInvInductive, PTL DEF Spec

\* The table never holds more than MAX_RECORDS rows and one for each capture
\* that has not come to its own prune: to insert a row is to become such a
\* capture, and who prunes leaves no more than MAX_RECORDS rows behind.
THEOREM RetentionBounded == Spec => []RetentionBound
<1>1. Init => RetentionBound
  <2>1. Init => DOMAIN exchange_record = {}
    BY DEF Init, StoreInit
  <2>2. IsFiniteSet(Unpruned) /\ Cardinality(Unpruned) \in Nat
    BY ActorsAssumption, FS_Subset, FS_CardinalityType DEF Unpruned
  <2>3. QED
    BY <2>1, <2>2, FS_EmptySet, ConfigAssumption DEF RetentionBound
<1>2. TypeOK /\ TypeOK' /\ LinkInv /\ TimesDiffer /\ RetentionBound /\ [Next]_vars
          => RetentionBound'
  <2> SUFFICES ASSUME TypeOK, TypeOK', LinkInv, TimesDiffer, RetentionBound, [Next]_vars
               PROVE  RetentionBound'
    OBVIOUS
  <2> DEFINE rows == DOMAIN exchange_record
  <2>1. /\ rows \subseteq Requests /\ rows' \subseteq Requests
        /\ Unpruned \subseteq Requests /\ Unpruned' \subseteq Requests
    BY DEF TypeOK, StoreTypeOK, Unpruned
  <2>2. \A S \in SUBSET Requests : IsFiniteSet(S) /\ Cardinality(S) \in Nat
    BY ActorsAssumption, FS_Subset, FS_CardinalityType
  <2>3. /\ IsFiniteSet(rows) /\ IsFiniteSet(rows')
        /\ IsFiniteSet(Unpruned) /\ IsFiniteSet(Unpruned')
        /\ Cardinality(rows) \in Nat /\ Cardinality(rows') \in Nat
        /\ Cardinality(Unpruned) \in Nat /\ Cardinality(Unpruned') \in Nat
    BY <2>1, <2>2
  <2>4. Cardinality(rows) <= MaxRecords + Cardinality(Unpruned)
    BY DEF RetentionBound
  <2>5. SUFFICES Cardinality(rows') <= MaxRecords + Cardinality(Unpruned')
    BY DEF RetentionBound
  <2>6. ASSUME rows' \subseteq rows, Unpruned \subseteq Unpruned'
        PROVE  Cardinality(rows') <= MaxRecords + Cardinality(Unpruned')
    <3> HIDE DEF rows
    <3>1. Cardinality(rows') <= Cardinality(rows)
      BY <2>3, <2>6, FS_Subset
    <3>2. Cardinality(Unpruned) <= Cardinality(Unpruned')
      BY <2>3, <2>6, FS_Subset
    <3>3. QED
      BY <2>3, <2>4, <3>1, <3>2, ConfigAssumption
  <2>7. ASSUME NEW r \in Requests, CaptureRequest(r)
        PROVE  Cardinality(rows') <= MaxRecords + Cardinality(Unpruned')
    <3>1. rows' = rows \cup {r} /\ r \notin rows
      BY <2>7 DEF CaptureRequest, CreateExchange, Put, LinkInv, RowIsRecorded, Recorded
    <3>2. Unpruned' = Unpruned \cup {r} /\ r \notin Unpruned
      BY <2>7 DEF CaptureRequest, Unpruned, TypeOK
    <3> HIDE DEF rows
    <3>3. /\ Cardinality(rows') = Cardinality(rows) + 1
          /\ Cardinality(Unpruned') = Cardinality(Unpruned) + 1
      BY <2>3, <3>1, <3>2, FS_AddElement
    <3>4. QED
      BY <2>3, <2>4, <3>3, ConfigAssumption
  <2>8. ASSUME NEW r \in Requests, Prune(r)
        PROVE  Cardinality(rows') <= MaxRecords + Cardinality(Unpruned')
    <3>1. rows' = rows \ Surplus(MaxRecords)
      BY <2>8, DeleteIsQuiet DEF Prune, PruneExchanges, TypeOK
    <3>2. \A q, s \in rows :
              exchange_record[q].created_at = exchange_record[s].created_at => q = s
      BY <2>1 DEF TimesDiffer, LinkInv, RowIsRecorded, Recorded
    <3>3. Cardinality(rows \ Surplus(MaxRecords)) <= MaxRecords
      BY <3>2, KeptAreFew, ConfigAssumption
    <3> HIDE DEF rows
    <3>4. QED
      BY <2>3, <3>1, <3>3, ConfigAssumption
  <2>9. ASSUME NEW r \in Requests, Finalize(r) PROVE rows' \subseteq rows /\ Unpruned \subseteq Unpruned'
    BY <2>9 DEF Finalize, UpdateExchange, Update, Unpruned, TypeOK
  <2>10. ASSUME NEW r \in Requests,
                \/ Arrive(r) \/ CaptureRequestFails(r) \/ FinalizeFails(r)
                \/ PruneFails(r) \/ KillCapture(r)
         PROVE  rows' \subseteq rows /\ Unpruned \subseteq Unpruned'
    BY <2>10 DEF Arrive, CaptureRequestFails, FinalizeFails, PruneFails, KillCapture,
                 store, Unpruned, TypeOK
  <2>11. CASE \/ \E p \in Replays : Submit(p) \/ ReplayStep(p) \/ KillReplay(p)
              \/ Clear
              \/ UNCHANGED vars
    <3>1. rows' \subseteq rows /\ Unpruned \subseteq Unpruned'
      BY <2>11, OthersKeepCaptures DEF Unpruned
    <3>2. QED
      BY <2>6, <3>1
  <2>12. CASE \E r \in Requests : Arrive(r) \/ CaptureStep(r) \/ KillCapture(r)
    BY <2>6, <2>7, <2>8, <2>9, <2>10, <2>12 DEF CaptureStep
  <2>13. QED
    BY <2>11, <2>12 DEF Next
<1>3. QED
  BY <1>1, <1>2, TypeCorrect, LinkInvInductive, TimesInductive, PTL DEF Spec

\* Prune never takes a row and keeps one that is older by a second or more,
\* although it orders rows by their texts and not by their times.
THEOREM PrunedByAge == Spec => PrunesByAge
<1> DEFINE ByAge ==
        \A gone \in DOMAIN exchange_record \ DOMAIN exchange_record',
           kept \in DOMAIN exchange_record' :
             exchange_record[gone].created_at \div Ticks
                 <= exchange_record[kept].created_at \div Ticks
<1>1. TypeOK => ((\E r \in Requests : Prune(r)) => ByAge)
  <2> SUFFICES ASSUME TypeOK, NEW r \in Requests, Prune(r),
                      NEW gone \in DOMAIN exchange_record \ DOMAIN exchange_record',
                      NEW kept \in DOMAIN exchange_record'
               PROVE  exchange_record[gone].created_at \div Ticks
                          <= exchange_record[kept].created_at \div Ticks
    OBVIOUS
  <2> DEFINE rows == DOMAIN exchange_record
             newer(s) == {q \in rows : Newer(q, s)}
             time(s) == exchange_record[s].created_at
  <2>1. /\ gone \in rows /\ kept \in rows
        /\ gone \in Surplus(MaxRecords) /\ kept \notin Surplus(MaxRecords)
    <3>1. DOMAIN exchange_record' = rows \ Surplus(MaxRecords)
      BY DeleteIsQuiet DEF Prune, PruneExchanges, TypeOK
    <3>2. QED
      BY <3>1
  <2>2. /\ rows \subseteq Requests
        /\ \A q \in rows : time(q) \in Nat
    <3>1. rows \subseteq Requests /\ \A q \in rows : exchange_record[q] \in ExchangeRecord
      BY DEF TypeOK, StoreTypeOK
    <3>2. QED
      BY <3>1 DEF ExchangeRecord
  <2>3. \A q \in rows : TextOrder(time(q)) \in Nat
    BY <2>2, Seconds
  <2>4. TextOrder(time(gone)) <= TextOrder(time(kept))
    <3> SUFFICES ASSUME TextOrder(time(kept)) < TextOrder(time(gone)) PROVE FALSE
      BY <2>1, <2>3
    <3>1. newer(gone) \subseteq newer(kept)
      BY <2>1, <2>3 DEF Newer
    <3>2. IsFiniteSet(newer(kept))
      BY <2>2, ActorsAssumption, FS_Subset
    <3>3. ~(Cardinality(newer(kept)) >= MaxRecords) /\ Cardinality(newer(gone)) >= MaxRecords
      BY <2>1 DEF Surplus
    <3> HIDE DEF newer
    <3>4. /\ Cardinality(newer(gone)) <= Cardinality(newer(kept))
          /\ Cardinality(newer(gone)) \in Nat /\ Cardinality(newer(kept)) \in Nat
      BY <3>1, <3>2, FS_Subset, FS_CardinalityType
    <3>5. QED
      BY <3>3, <3>4, ConfigAssumption
  <2>5. QED
    BY <2>1, <2>2, <2>4, TextsAgree
<1>2. TypeOK /\ [Next]_vars => [(\E r \in Requests : Prune(r)) => ByAge]_vars
  BY <1>1
<1>3. QED
  BY <1>2, TypeCorrect, PTL DEF Spec, PrunesByAge
=============================================================================
