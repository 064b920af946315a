---------------------------- MODULE InspectorCore ----------------------------
(***************************************************************************)
(* The capture and replay threads over the Inspector's tables: every       *)
(* business request runs capture/exchange.py around the application, every *)
(* replay runs replay/service.py inside an Inspector POST, and /clear may  *)
(* empty the tables at any moment.  Threads of several workers interleave  *)
(* between transactions; each holds the record it created in memory and    *)
(* writes all of it back later.  A transaction may fail (the 1 s busy      *)
(* timeout, a full disk), a worker may die between two steps.              *)
(***************************************************************************)
EXTENDS InspectorStore

CONSTANTS
    MaxRecords,     \* MAX_RECORDS
    StorageFails,   \* may a transaction fail?
    WorkersDie      \* may a worker be killed?

ASSUME ConfigAssumption ==
    /\ MaxRecords \in Nat \ {0}
    /\ StorageFails \in BOOLEAN
    /\ WorkersDie \in BOOLEAN

VARIABLES
    clock,              \* timezone.now(), strictly increasing
    wire,               \* nonces that send_request put on the network
    capture,            \* request -> where its ExchangeCapture is
    nonce,              \* request -> x-django-http-inspector-replay, or Null
    exchange,           \* request -> ExchangeCapture.exchange, in memory
    replay,             \* replay  -> where replay_exchange is
    mode,               \* replay  -> "equivalent" or "edited"
    source,             \* replay  -> the exchange it was submitted for
    snapshot,           \* replay  -> the row get_exchange returned
    attempt,            \* replay  -> the ReplayAttemptRecord in memory
    persistence_error   \* replay  -> was the outcome refused by the store?

captureVars == <<capture, nonce, exchange>>
replayVars  == <<replay, mode, source, snapshot, attempt, persistence_error>>
vars == <<store, clock, wire, captureVars, replayVars>>

-----------------------------------------------------------------------------

CaptureState == {"idle", "create", "app", "prune", "pruned", "unrecorded",
                 "unfinished"}
ReplayState  == {"idle", "create", "evaluate", "send", "wait", "store",
                 "done", "refused", "killed"}

TypeOK ==
    /\ StoreTypeOK
    /\ clock \in Nat
    /\ wire \subseteq Replays
    /\ capture \in [Requests -> CaptureState]
    /\ nonce \in [Requests -> Replays \cup {Null}]
    /\ exchange \in [Requests -> ExchangeRecord]
    /\ replay \in [Replays -> ReplayState]
    /\ mode \in [Replays -> {"equivalent", "edited"}]
    /\ source \in [Replays -> Requests \cup {Null}]
    /\ snapshot \in [Replays -> ExchangeRecord]
    /\ attempt \in [Replays -> ReplayAttemptRecord]
    /\ persistence_error \in [Replays -> BOOLEAN]

Init ==
    /\ StoreInit
    /\ clock = 0
    /\ wire = {}
    /\ capture = [r \in Requests |-> "idle"]
    /\ nonce = [r \in Requests |-> Null]
    /\ exchange = [r \in Requests |-> NewExchange(0)]
    /\ replay = [p \in Replays |-> "idle"]
    /\ mode = [p \in Replays |-> "equivalent"]
    /\ source = [p \in Replays |-> Null]
    /\ snapshot = [p \in Replays |-> NewExchange(0)]
    /\ attempt = [p \in Replays |-> NewAttempt(Null)]
    /\ persistence_error = [p \in Replays |-> FALSE]

-----------------------------------------------------------------------------
(* A business request. *)

\* The wrapper builds the record.  The header may carry the nonce of any
\* replay already sent: at once, late, or again when a proxy retries.
Arrive(r) ==
    /\ capture[r] = "idle"
    /\ \E n \in wire \cup {Null} : nonce' = [nonce EXCEPT ![r] = n]
    /\ clock' = clock + 1
    /\ exchange' = [exchange EXCEPT ![r] = NewExchange(clock)]
    /\ capture' = [capture EXCEPT ![r] = "create"]
    /\ UNCHANGED <<store, wire, replayVars>>

CaptureRequest(r) ==
    /\ capture[r] = "create"
    /\ CreateExchange(r, exchange[r], nonce[r])
    /\ exchange' = [exchange EXCEPT ![r] = Correlated(@, nonce[r])]
    /\ capture' = [capture EXCEPT ![r] = "app"]
    /\ UNCHANGED <<clock, wire, nonce, replayVars>>

\* The failure is logged and the request goes on without a record.
CaptureRequestFails(r) ==
    /\ StorageFails
    /\ capture[r] = "create"
    /\ capture' = [capture EXCEPT ![r] = "unrecorded"]
    /\ UNCHANGED <<store, clock, wire, nonce, exchange, replayVars>>
\* Mutated form: the state is not written.
FinalizeKeepsState(r) ==
    /\ capture[r] = "app"
    /\ \E body \in {"whole", "partial"} :
         UpdateExchange(r, [exchange[r] EXCEPT !.body = body])
    /\ capture' = [capture EXCEPT ![r] = "prune"]
    /\ UNCHANGED <<clock, wire, nonce, exchange, replayVars>>

\* Mutated form: prune is left out.
FinalizeWithoutPrune(r) ==
    /\ capture[r] = "app"
    /\ \E body \in {"whole", "partial"} :
         UpdateExchange(r, [exchange[r] EXCEPT !.state = "finished", !.body = body])
    /\ capture' = [capture EXCEPT ![r] = "pruned"]
    /\ UNCHANGED <<clock, wire, nonce, exchange, replayVars>>

\* finalize: what became of the body goes into the record, and the record
\* goes to the store.  Nothing reads the record in memory after that.
Finalize(r) ==
    /\ capture[r] = "app"
    /\ \E body \in {"whole", "partial"} :
         UpdateExchange(r, [exchange[r] EXCEPT !.state = "finished", !.body = body])
    /\ capture' = [capture EXCEPT ![r] = "prune"]
    /\ UNCHANGED <<clock, wire, nonce, exchange, replayVars>>

\* The exception is logged, there is no retry and prune is not reached.
FinalizeFails(r) ==
    /\ capture[r] = "app"
    /\ StorageFails \/ ~ExchangeAccepted(r, exchange[r])
    /\ capture' = [capture EXCEPT ![r] = "unfinished"]
    /\ UNCHANGED <<store, clock, wire, nonce, exchange, replayVars>>

Prune(r) ==
    /\ capture[r] = "prune"
    /\ PruneExchanges(MaxRecords)
    /\ capture' = [capture EXCEPT ![r] = "pruned"]
    /\ UNCHANGED <<clock, wire, nonce, exchange, replayVars>>

PruneFails(r) ==
    /\ StorageFails
    /\ capture[r] = "prune"
    /\ capture' = [capture EXCEPT ![r] = "unfinished"]
    /\ UNCHANGED <<store, clock, wire, nonce, exchange, replayVars>>

\* What is left behind is what a failed transaction leaves.
KillCapture(r) ==
    /\ WorkersDie
    /\ \/ /\ capture[r] = "create"
          /\ capture' = [capture EXCEPT ![r] = "unrecorded"]
       \/ /\ capture[r] \in {"app", "prune"}
          /\ capture' = [capture EXCEPT ![r] = "unfinished"]
    /\ UNCHANGED <<store, clock, wire, nonce, exchange, replayVars>>

-----------------------------------------------------------------------------
(* A replay.  From here on it works with the row it read, not the table. *)

\* can_replay: the state column is not looked at.
CanReplay(row) == row.body # "partial"

\* get_exchange; an edited replay of an incomplete body is a 409 right away.
Submit(p) ==
    /\ replay[p] = "idle"
    /\ \E e \in DOMAIN exchange_record, m \in {"equivalent", "edited"} :
        /\ m = "edited" => CanReplay(exchange_record[e])
        /\ source' = [source EXCEPT ![p] = e]
        /\ snapshot' = [snapshot EXCEPT ![p] = exchange_record[e]]
        /\ mode' = [mode EXCEPT ![p] = m]
    /\ replay' = [replay EXCEPT ![p] = "create"]
    /\ UNCHANGED <<store, clock, wire, captureVars, attempt, persistence_error>>

RecordAttempt(p) ==
    /\ replay[p] = "create"
    /\ CreateAttempt(p, NewAttempt(source[p]))
    /\ attempt' = [attempt EXCEPT ![p] = NewAttempt(source[p])]
    /\ replay' = [replay EXCEPT ![p] = "evaluate"]
    /\ UNCHANGED <<clock, wire, captureVars, mode, source, snapshot,
                   persistence_error>>

\* Nothing was sent; the page says so.
RecordAttemptFails(p) ==
    /\ replay[p] = "create"
    /\ StorageFails \/ source[p] \notin DOMAIN exchange_record
    /\ replay' = [replay EXCEPT ![p] = "refused"]
    /\ UNCHANGED <<store, clock, wire, captureVars, mode, source, snapshot,
                   attempt, persistence_error>>

\* An error outcome before anything is sent: can_replay is false, or the
\* target is not acceptable or does not resolve.
Reject(p) ==
    /\ replay[p] = "evaluate"
    /\ attempt' = [attempt EXCEPT ![p].state = "error"]
    /\ replay' = [replay EXCEPT ![p] = "store"]
    /\ UNCHANGED <<store, clock, wire, captureVars, mode, source, snapshot,
                   persistence_error>>

\* Mutated form: HTTPException is not turned into a ReplayTransportError.
EscapeAfterSend(p) ==
    /\ replay[p] \in {"evaluate", "send", "wait"}
    /\ replay[p] = "evaluate" => CanReplay(snapshot[p])
    /\ replay' = [replay EXCEPT ![p] = "refused"]
    /\ UNCHANGED <<store, clock, wire, captureVars, mode, source, snapshot,
                   attempt, persistence_error>>

\* An exception that is neither TargetError nor ReplayTransportError (an
\* unparsable URL, a host that cannot be IDNA-encoded, an illegal header
\* value) leaves replay_exchange; the attempt is not updated.
Escape(p) ==
    /\ replay[p] \in {"evaluate", "send"}
    /\ replay[p] = "evaluate" => CanReplay(snapshot[p])
    /\ replay' = [replay EXCEPT ![p] = "refused"]
    /\ UNCHANGED <<store, clock, wire, captureVars, mode, source, snapshot,
                   attempt, persistence_error>>

Connect(p) ==
    /\ replay[p] = "evaluate"
    /\ CanReplay(snapshot[p])
    /\ replay' = [replay EXCEPT ![p] = "send"]
    /\ UNCHANGED <<store, clock, wire, captureVars, mode, source, snapshot,
                   attempt, persistence_error>>
\* Mutated form: the request leaves before the attempt is committed.
SendBeforeCommit(p) ==
    /\ replay[p] \in {"create", "send"}
    /\ wire' = wire \cup {p}
    /\ replay' = [replay EXCEPT ![p] = IF @ = "create" THEN @ ELSE "wait"]
    /\ UNCHANGED <<store, clock, captureVars, mode, source, snapshot, attempt,
                   persistence_error>>

Send(p) ==
    /\ replay[p] = "send"
    /\ wire' = wire \cup {p}
    /\ replay' = [replay EXCEPT ![p] = "wait"]
    /\ UNCHANGED <<store, clock, captureVars, mode, source, snapshot, attempt,
                   persistence_error>>
\* Mutated form: the state stays "pending", and a late update reopens the nonce.
AnswerWithoutState(p) ==
    /\ replay[p] \in {"send", "wait"}
    /\ replay' = [replay EXCEPT ![p] = "store"]
    /\ UNCHANGED <<store, clock, wire, captureVars, mode, source, snapshot,
                   attempt, persistence_error>>

\* A response, or a connect, tls, timeout or read error.  The peer may have
\* handled the request whatever is reported here.
Answer(p) ==
    /\ replay[p] \in {"send", "wait"}
    /\ \E state \in {"complete", "error"} :
        /\ replay[p] = "send" => state = "error"
        /\ attempt' = [attempt EXCEPT ![p].state = state]
    /\ replay' = [replay EXCEPT ![p] = "store"]
    /\ UNCHANGED <<store, clock, wire, captureVars, mode, source, snapshot,
                   persistence_error>>
\* Mutated form: the outcome is written over and over.
StoreOutcomeForever(p) ==
    /\ replay[p] = "store"
    /\ UpdateAttempt(p, attempt[p])
    /\ UNCHANGED <<replay, clock, wire, captureVars, mode, source, snapshot,
                   attempt, persistence_error>>

StoreOutcome(p) ==
    /\ replay[p] = "store"
    /\ UpdateAttempt(p, attempt[p])
    /\ replay' = [replay EXCEPT ![p] = "done"]
    /\ UNCHANGED <<clock, wire, captureVars, mode, source, snapshot, attempt,
                   persistence_error>>
\* Mutated form: the failure is only logged.
SwallowOutcomeFailure(p) ==
    /\ replay[p] = "store"
    /\ StorageFails \/ ~AttemptAccepted(p, attempt[p])
    /\ replay' = [replay EXCEPT ![p] = "done"]
    /\ UNCHANGED <<store, clock, wire, captureVars, mode, source, snapshot,
                   attempt, persistence_error>>

\* The page reports that the outcome could not be saved; there is no retry.
StoreOutcomeFails(p) ==
    /\ replay[p] = "store"
    /\ StorageFails \/ ~AttemptAccepted(p, attempt[p])
    /\ persistence_error' = [persistence_error EXCEPT ![p] = TRUE]
    /\ replay' = [replay EXCEPT ![p] = "done"]
    /\ UNCHANGED <<store, clock, wire, captureVars, mode, source, snapshot,
                   attempt>>

KillReplay(p) ==
    /\ WorkersDie
    /\ replay[p] \in {"create", "evaluate", "send", "wait", "store"}
    /\ replay' = [replay EXCEPT ![p] = "killed"]
    /\ UNCHANGED <<store, clock, wire, captureVars, mode, source, snapshot,
                   attempt, persistence_error>>

Clear ==
    /\ ClearTables
    /\ UNCHANGED <<clock, wire, captureVars, replayVars>>

-----------------------------------------------------------------------------

CaptureStep(r) ==
    \/ CaptureRequest(r) \/ CaptureRequestFails(r)
    \/ Finalize(r) \/ FinalizeFails(r)
    \/ Prune(r) \/ PruneFails(r)

ReplayStep(p) ==
    \/ RecordAttempt(p) \/ RecordAttemptFails(p)
    \/ Reject(p) \/ Escape(p) \/ Connect(p) \/ Send(p) \/ Answer(p)
    \/ StoreOutcome(p) \/ StoreOutcomeFails(p)

Next ==
    \/ \E r \in Requests : Arrive(r) \/ CaptureStep(r) \/ KillCapture(r)
    \/ \E p \in Replays : Submit(p) \/ ReplayStep(p) \/ KillReplay(p)
    \/ Clear

Spec == Init /\ [][Next]_vars

\* A thread that is not killed goes on: the application answers, the socket
\* times out, SQLite grants or refuses the lock within a second.
Fairness ==
    /\ \A r \in Requests : WF_vars(CaptureStep(r))
    /\ \A p \in Replays : WF_vars(ReplayStep(p))

FairSpec == Spec /\ Fairness

-----------------------------------------------------------------------------
(* Safety. *)

\* The nonce of a replay correlates at most one exchange, ever: also when the
\* header arrives twice, the first exchange was pruned, or two workers insert
\* at once (create_exchange claims and links in one transaction).
NonceCorrelatesOnce ==
    \A r, s \in Requests :
        exchange[r].observed = exchange[s].observed /\ exchange[r].observed # Null
            => r = s

Recorded(r) == capture[r] \in {"app", "prune", "pruned", "unfinished"}

\* While an attempt is pending, every captured request that carried its nonce
\* is either the one linked to it or marked a duplicate: the row is committed
\* before the first byte leaves, so no arrival can be too early to be noticed.
InboundIsCorrelated ==
    \A r \in Requests, p \in DOMAIN replay_attempt :
        Recorded(r) /\ nonce[r] = p /\ replay_attempt[p].state = "pending" =>
            \/ exchange[r].observed = p
            \/ exchange[r].diagnostic = "duplicate-correlation"

\* A pending attempt is marked claimed exactly when some request was linked to
\* it, and a stored row has the link its thread holds in memory: no half of the
\* claim is ever stored alone.
ClaimMatchesLink ==
    /\ \A p \in DOMAIN replay_attempt :
          replay_attempt[p].state = "pending" =>
              (replay_attempt[p].claimed <=>
                  \E r \in Requests : exchange[r].observed = p)
    /\ \A r \in DOMAIN exchange_record :
          exchange_record[r].observed = exchange[r].observed

\* The record that finalize holds in memory is never refused by a constraint,
\* although rows it refers to may have been pruned or cleared meanwhile.
FinalizeIsNeverRefused ==
    \A r \in Requests :
        capture[r] = "app" => ExchangeAccepted(r, exchange[r])

\* The page calls an outcome unsaved if and only if the row, when there still
\* is one, does not carry it.
ReportMatchesStore ==
    \A p \in Replays :
        replay[p] = "done" /\ p \in DOMAIN replay_attempt =>
            (persistence_error[p] <=> replay_attempt[p].state # attempt[p].state)

Unpruned == {r \in Requests : capture[r] \in {"app", "prune", "unfinished"}}

\* The table outgrows MAX_RECORDS only by captures that have not come to their
\* own prune: those in flight and those whose finalize failed.
RetentionBound ==
    Cardinality(DOMAIN exchange_record) <= MaxRecords + Cardinality(Unpruned)

\* Without failures and deaths a pending exchange is one that is being served.
PendingIsInFlight ==
    \A r \in DOMAIN exchange_record :
        exchange_record[r].state = "pending" => capture[r] = "app"

\* What prune removes is at least as old, to the second, as what it keeps.
PrunesByAge ==
    [][(\E r \in Requests : Prune(r)) =>
         \A gone \in DOMAIN exchange_record \ DOMAIN exchange_record',
            kept \in DOMAIN exchange_record' :
              exchange_record[gone].created_at \div Ticks
                  <= exchange_record[kept].created_at \div Ticks]_vars

\* A row that was pruned or cleared does not come back when a thread that
\* still holds its record writes it.
RemovedStaysRemoved ==
    [][/\ \A r \in DOMAIN exchange_record' \ DOMAIN exchange_record :
            capture[r] = "create"
       /\ \A p \in DOMAIN replay_attempt' \ DOMAIN replay_attempt :
            replay[p] = "create"]_vars

-----------------------------------------------------------------------------
(* Liveness, under Fairness. *)

\* Once every request is over, nothing exceeds MAX_RECORDS (no failures).
RetentionReached == <>[](Cardinality(DOMAIN exchange_record) <= MaxRecords)

\* A replay that was submitted ends with an answer to the browser.
ReplayAnswers ==
    \A p \in Replays :
        replay[p] = "create" ~> replay[p] \in {"done", "refused"}

-----------------------------------------------------------------------------
(* The core implements Correlation and, for each replay, ReplayPhases. *)

Issued == {p \in Replays : attempt[p].source # Null}

Nonces ==
    INSTANCE Correlation WITH
        issued   <- Issued,
        open     <- {p \in Replays : Claimable(p)},
        observed <- [r \in Requests |-> exchange[r].observed]

\* Every step of the threads claims, issues or closes nonces as Correlation
\* allows, or leaves them alone.
ImplementsCorrelation == Nonces!AbstractSpec

Phases(p) ==
    INSTANCE ReplayPhases WITH
        phase  <- replay[p],
        onWire <- p \in wire

\* Every replay goes through the phases of ReplayPhases, which the transport
\* implements in detail: nothing is sent before the attempt is committed, and
\* what was sent has an outcome.
ImplementsPhases ==
    /\ \A p \in Replays : Phases(p)!PhaseInit
    /\ [][\A p \in Replays :
             Phases(p)!PhaseNext \/ UNCHANGED Phases(p)!phaseVars]_vars

-----------------------------------------------------------------------------
(* What the documentation says and the code does not do. *)

\* "A claimed nonce that appears again is stored with the diagnostic
\* duplicate-correlation": whatever became of the replay since.
DuplicateIsDiagnosed ==
    \A r, s \in Requests :
        (/\ r # s
         /\ Recorded(s)
         /\ nonce[s] \in DOMAIN replay_attempt
         /\ exchange[r].observed = nonce[s])
            => exchange[s].diagnostic = "duplicate-correlation"

\* "Deleting the source exchange keeps the attempt with no source": so the
\* outcome of a replay that ran is stored, unless the attempt was cleared.
OutcomeSurvivesSource ==
    \A p \in Replays :
        replay[p] = "done" /\ p \in DOMAIN replay_attempt =>
            replay_attempt[p].state = attempt[p].state

\* "Only a completely observed, untruncated body may be replayed as it was."
OnlyWholeBodiesAreSent ==
    \A p \in wire : mode[p] = "equivalent" => snapshot[p].body = "whole"
=============================================================================
