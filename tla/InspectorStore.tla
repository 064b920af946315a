--------------------------- MODULE InspectorStore ---------------------------
(***************************************************************************)
(* The SQLite tables of django-http-inspector and the transactions that    *)
(* storage/repository.py runs on them.  SQLite serialises writers, so each *)
(* transaction is one step: it commits as a whole or leaves no trace.      *)
(*                                                                         *)
(* A WSGI request inserts at most one exchange_record and a replay at most *)
(* one replay_attempt, and AUTOINCREMENT never hands an id out twice: the  *)
(* row of request r is keyed by r, the row of replay p by p, and the       *)
(* nonce (a fresh uuid4 per attempt) is p too.  A missing row is a key     *)
(* outside the table's DOMAIN.  Only the columns that some other step      *)
(* reads are kept.                                                         *)
(***************************************************************************)
EXTENDS Integers, FiniteSets

CONSTANTS
    Requests,   \* business requests, each handled once by some worker
    Replays,    \* replays, each submitted once from the Inspector page
    Null,       \* SQL's NULL
    Ticks       \* ticks of the clock in a second

ASSUME ActorsAssumption ==
    /\ Null \notin Requests \cup Replays
    /\ IsFiniteSet(Requests)
    /\ Ticks \in Nat \ {0}

VARIABLES
    exchange_record,    \* request -> its stored row
    replay_attempt      \* replay  -> its stored row

store == <<exchange_record, replay_attempt>>

-----------------------------------------------------------------------------
(* Rows.  "unread" is the body a row is inserted with: empty and marked    *)
(* neither truncated nor incomplete; "finished" stands for complete and    *)
(* application_error, which no step tells apart.                           *)

Body == {"unread", "whole", "partial"}

ExchangeRecord ==
    [created_at : Nat,
     state      : {"pending", "finished"},
     body       : Body,
     observed   : Replays \cup {Null},
     diagnostic : {"", "duplicate-correlation"}]

ReplayAttemptRecord ==
    [source  : Requests \cup {Null},
     state   : {"pending", "complete", "error"},
     claimed : BOOLEAN]

NewExchange(now) ==
    [created_at |-> now, state |-> "pending", body |-> "unread",
     observed |-> Null, diagnostic |-> ""]
\* Mutated form: a state the schema's CHECK does not know.
NewAttemptUnknownState(e) == [source |-> e, state |-> "sent", claimed |-> FALSE]

NewAttempt(e) == [source |-> e, state |-> "pending", claimed |-> FALSE]

StoreTypeOK ==
    /\ DOMAIN exchange_record \subseteq Requests
    /\ exchange_record \in [DOMAIN exchange_record -> ExchangeRecord]
    /\ DOMAIN replay_attempt \subseteq Replays
    /\ replay_attempt \in [DOMAIN replay_attempt -> ReplayAttemptRecord]

StoreInit ==
    /\ exchange_record = [r \in {} |-> NewExchange(0)]
    /\ replay_attempt  = [p \in {} |-> NewAttempt(Null)]

-----------------------------------------------------------------------------
(* SQL statements. *)

\* INSERT or UPDATE of one row: the table with row at key.
Put(table, key, row) ==
    [k \in DOMAIN table \cup {key} |-> IF k = key THEN row ELSE table[k]]
\* Mutated form: INSERT OR REPLACE instead of UPDATE.
UpdateOrInsert(table, key, row) == Put(table, key, row)

\* UPDATE ... WHERE id=?: no row, no change.
Update(table, key, row) ==
    [k \in DOMAIN table |-> IF k = key THEN row ELSE table[k]]
\* Mutated form: the claim is not tested.
ClaimableAgain(nonce) ==
    nonce \in DOMAIN replay_attempt /\ replay_attempt[nonce].state = "pending"

\* What "nonce=? AND state='pending' AND correlation_claimed=0" selects.
Claimable(nonce) ==
    /\ nonce \in DOMAIN replay_attempt
    /\ replay_attempt[nonce].state = "pending"
    /\ ~replay_attempt[nonce].claimed

\* Foreign key and UNIQUE checks of a row about to be written over r's row.
ExchangeAccepted(r, row) ==
    r \in DOMAIN exchange_record /\ row.observed # Null =>
        /\ row.observed \in DOMAIN replay_attempt
        /\ \A s \in DOMAIN exchange_record \ {r} :
               exchange_record[s].observed # row.observed

\* Foreign key check of a row written over p's row.
AttemptAccepted(p, row) ==
    p \in DOMAIN replay_attempt /\ row.source # Null =>
        row.source \in DOMAIN exchange_record

\* DELETE FROM exchange_record, with ON DELETE SET NULL in the attempts.
DeleteExchanges(gone) ==
    /\ exchange_record' = [r \in DOMAIN exchange_record \ gone |->
                             exchange_record[r]]
    /\ replay_attempt' = [p \in DOMAIN replay_attempt |->
                            IF replay_attempt[p].source \in gone
                            THEN [replay_attempt[p] EXCEPT !.source = Null]
                            ELSE replay_attempt[p]]

-----------------------------------------------------------------------------
(* Transactions. *)

\* The row that create_exchange leaves for a request that carries nonce.
Correlated(row, nonce) ==
    IF Claimable(nonce) THEN [row EXCEPT !.observed = nonce]
    ELSE IF /\ nonce \in DOMAIN replay_attempt
            /\ replay_attempt[nonce].claimed
         THEN [row EXCEPT !.diagnostic = "duplicate-correlation"]
         ELSE row
\* Mutated form: the link is stored, the claim is not.
CreateExchangeUnclaimed(r, row, nonce) ==
    /\ exchange_record' = Put(exchange_record, r, Correlated(row, nonce))
    /\ UNCHANGED replay_attempt

\* create_exchange: insert, claim the nonce and link, in one transaction.
CreateExchange(r, row, nonce) ==
    /\ exchange_record' = Put(exchange_record, r, Correlated(row, nonce))
    /\ replay_attempt' =
         IF Claimable(nonce)
         THEN [replay_attempt EXCEPT ![nonce].claimed = TRUE]
         ELSE replay_attempt

\* update_exchange writes every column from the record held in memory.
UpdateExchange(r, row) ==
    /\ ExchangeAccepted(r, row)
    /\ exchange_record' = Update(exchange_record, r, row)
    /\ UNCHANGED replay_attempt

\* _dump_time: created_at is stored as text, where isoformat leaves out a
\* fraction of zero, and "12:00:00Z" sorts after "12:00:00.5Z".
TextOrder(time) == IF time % Ticks = 0 THEN time + Ticks ELSE time
\* Mutated form: ORDER BY ... ASC.
Older(s, r) ==
    TextOrder(exchange_record[s].created_at) < TextOrder(exchange_record[r].created_at)

\* ORDER BY created_at DESC: s stands before r.
Newer(s, r) ==
    TextOrder(exchange_record[s].created_at) > TextOrder(exchange_record[r].created_at)

\* The rows past OFFSET maximum.
Surplus(maximum) ==
    {r \in DOMAIN exchange_record :
        Cardinality({s \in DOMAIN exchange_record : Newer(s, r)}) >= maximum}
\* Mutated form: OFFSET is off by one.
PruneOneLess(maximum) == DeleteExchanges(Surplus(maximum + 1))

PruneExchanges(maximum) == DeleteExchanges(Surplus(maximum))
\* Mutated form: only the replay history is cleared.
ClearAttempts ==
    /\ exchange_record' = [r \in DOMAIN exchange_record |->
                             [exchange_record[r] EXCEPT !.observed = Null]]
    /\ replay_attempt' = [p \in {} |-> NewAttempt(Null)]

ClearTables ==
    /\ exchange_record' = [r \in {} |-> NewExchange(0)]
    /\ replay_attempt'  = [p \in {} |-> NewAttempt(Null)]

\* create_attempt: the source row must still be there (foreign key).
CreateAttempt(p, row) ==
    /\ row.source \in DOMAIN exchange_record
    /\ replay_attempt' = Put(replay_attempt, p, row)
    /\ UNCHANGED exchange_record

\* update_attempt writes every column, source and claim included, from the
\* record held in memory since create_attempt.
UpdateAttempt(p, row) ==
    /\ AttemptAccepted(p, row)
    /\ replay_attempt' = Update(replay_attempt, p, row)
    /\ UNCHANGED exchange_record
=============================================================================
