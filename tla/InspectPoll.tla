----------------------------- MODULE InspectPoll -----------------------------
(***************************************************************************)
(* The live list of the Inspector page: inspector/app.py renders the page  *)
(* and answers polls from several separate reads of the table, inspect.js  *)
(* polls on a timer, backs off, pauses while the document is hidden, and   *)
(* replaces the list only when the cursor changed.  Captures, prunes and   *)
(* clears go on meanwhile.  The cursor is a SHA-256 of the rows shown and  *)
(* the total: here that pair itself.                                       *)
(***************************************************************************)
EXTENDS Integers, Sequences

CONSTANTS
    Latest,         \* rows in a snapshot (limit=200)
    MaxRecords,     \* MAX_RECORDS
    MaxId,          \* bound: exchanges ever captured
    Null

ASSUME PollAssumption ==
    /\ {Latest, MaxRecords, MaxId} \subseteq Nat \ {0}
    /\ Null \notin Nat

VARIABLES
    table,          \* exchange_record, newest first
    nextId,
    page,           \* "rows", "snapshot", "total": being rendered; "ready"
    selected,       \* the exchange in the right pane, or Null
    shown,          \* rows in the left pane
    cursor,
    count,          \* the number above the list
    applied,        \* history: has a poll replaced the list?
    fetch,          \* "none", "sent", "rows", "answered"
    payload,        \* what the server has put together for the poll
    timer,          \* is a poll scheduled?
    hidden,         \* document.hidden
    retryDelay,     \* seconds
    liveState,
    removed         \* removed warning shown, actions disabled

storeVars  == <<table, nextId>>
listVars   == <<shown, cursor, count, applied, removed>>
fetchVars  == <<fetch, payload>>
timingVars == <<timer, hidden, retryDelay, liveState>>
vars == <<storeVars, page, selected, listVars, fetchVars, timingVars>>

polling == fetch # "none"

Row == [id : 1..MaxId, done : BOOLEAN]
Snapshot == [rows : Seq(Row), total : Nat]

Snap(rows, total) == [rows |-> rows, total |-> total]

IdsOf(rows) == {rows[i].id : i \in DOMAIN rows}

Shortened(rows, n) == SubSeq(rows, 1, IF Len(rows) < n THEN Len(rows) ELSE n)

\* list_exchanges(limit=200)
Listed == Shortened(table, Latest)

TypeOK ==
    /\ table \in Seq(Row)
    /\ nextId \in 1..(MaxId + 1)
    /\ page \in {"rows", "snapshot", "total", "ready"}
    /\ selected \in 1..MaxId \cup {Null}
    /\ shown \in Seq(Row)
    /\ {cursor, payload} \subseteq Snapshot
    /\ count \in Nat
    /\ fetch \in {"none", "sent", "rows", "answered"}
    /\ {applied, timer, hidden, removed} \subseteq BOOLEAN
    /\ retryDelay \in {2, 4, 8, 16, 30}
    /\ liveState \in {"live", "syncing", "offline", "paused"}

\* The page was asked for when the table held at most one row, which was read
\* as the selected exchange or not.
Init ==
    /\ table \in {<<>>} \cup {<<[id |-> 1, done |-> d]>> : d \in BOOLEAN}
    /\ nextId = Len(table) + 1
    /\ selected \in IdsOf(table) \cup {Null}
    /\ page = "rows"
    /\ shown = <<>>
    /\ cursor = Snap(<<>>, 0)
    /\ count = 0
    /\ applied = FALSE
    /\ fetch = "none"
    /\ payload = Snap(<<>>, 0)
    /\ timer = FALSE
    /\ hidden \in BOOLEAN
    /\ retryDelay = 2
    /\ liveState = "live"
    /\ removed = FALSE

-----------------------------------------------------------------------------
(* Storage, as captures and clear change it. *)

Capture ==
    /\ nextId <= MaxId
    /\ table' = <<[id |-> nextId, done |-> FALSE]>> \o table
    /\ nextId' = nextId + 1

Complete ==
    /\ \E i \in DOMAIN table :
        /\ ~table[i].done
        /\ table' = [table EXCEPT ![i].done = TRUE]
    /\ UNCHANGED nextId

Prune ==
    /\ Len(table) > MaxRecords
    /\ table' = Shortened(table, MaxRecords)
    /\ UNCHANGED nextId

Clear ==
    /\ table # <<>>
    /\ table' = <<>>
    /\ UNCHANGED nextId

StorageChanges ==
    /\ Capture \/ Complete \/ Prune \/ Clear
    /\ UNCHANGED <<page, selected, listVars, fetchVars, timingVars>>

-----------------------------------------------------------------------------
(* Rendering: context() lists the rows, then takes a snapshot for the      *)
(* cursor, whose rows and total are two reads themselves.                  *)

RenderRows ==
    /\ page = "rows"
    /\ shown' = Listed
    /\ page' = "snapshot"
    /\ UNCHANGED <<storeVars, selected, cursor, count, applied, removed,
                   fetchVars, timingVars>>

RenderSnapshot ==
    /\ page = "snapshot"
    /\ cursor' = Snap(Listed, 0)
    /\ page' = "total"
    /\ UNCHANGED <<storeVars, selected, shown, count, applied, removed,
                   fetchVars, timingVars>>

\* The script ends with schedulePoll(2000), which sets no timer when hidden.
RenderTotal ==
    /\ page = "total"
    /\ cursor' = [cursor EXCEPT !.total = Len(table)]
    /\ count' = Len(table)
    /\ page' = "ready"
    /\ timer' = ~hidden
    /\ UNCHANGED <<storeVars, selected, shown, applied, removed, fetchVars,
                   hidden, retryDelay, liveState>>

-----------------------------------------------------------------------------
(* inspect.js *)

\* poll(), when no poll is under way and the document is visible.
StartFetch ==
    /\ fetch' = "sent"
    /\ liveState' = "syncing"
    /\ UNCHANGED payload

TimerFires ==
    /\ timer
    /\ timer' = FALSE
    /\ IF polling \/ hidden
       THEN UNCHANGED <<fetchVars, liveState>>
       ELSE StartFetch
    /\ UNCHANGED <<storeVars, page, selected, listVars, hidden, retryDelay>>

\* lightweight_snapshot: the rows, then the total.
ServerReadsRows ==
    /\ fetch = "sent"
    /\ fetch' = "rows"
    /\ payload' = Snap(Listed, 0)
    /\ UNCHANGED <<storeVars, page, selected, listVars, timingVars>>

ServerReadsTotal ==
    /\ fetch = "rows"
    /\ fetch' = "answered"
    /\ payload' = [payload EXCEPT !.total = Len(table)]
    /\ UNCHANGED <<storeVars, page, selected, listVars, timingVars>>
\* Mutated form: only a new total is taken for a change.
RenderListOnTotal ==
    IF payload.total # cursor.total
    THEN /\ shown' = payload.rows
         /\ applied' = TRUE
         /\ removed' = (removed \/ (selected # Null
                                    /\ selected \notin IdsOf(payload.rows)))
    ELSE UNCHANGED <<shown, applied, removed>>

\* Mutated form: ids are compared as number and string, and never match.
RenderListMistyped ==
    IF payload # cursor
    THEN /\ shown' = payload.rows
         /\ applied' = TRUE
         /\ removed' = (removed \/ selected # Null)
    ELSE UNCHANGED <<shown, applied, removed>>

\* renderList, only for a cursor that changed.
RenderList ==
    IF payload # cursor
    THEN /\ shown' = payload.rows
         /\ applied' = TRUE
         /\ removed' = (removed \/ (selected # Null
                                    /\ selected \notin IdsOf(payload.rows)))
    ELSE UNCHANGED <<shown, applied, removed>>
\* Mutated form: the next poll is scheduled on a hidden page too.
EndPollAnyway ==
    /\ fetch' = "none"
    /\ timer' = TRUE
    /\ UNCHANGED <<payload, hidden, storeVars, page, selected>>

\* finally: schedulePoll() sets the timer unless the document is hidden.
EndPoll ==
    /\ fetch' = "none"
    /\ timer' = ~hidden
    /\ UNCHANGED <<payload, hidden, storeVars, page, selected>>

Answered ==
    /\ fetch = "answered"
    /\ RenderList
    /\ cursor' = payload
    /\ count' = payload.total
    /\ retryDelay' = 2
    /\ liveState' = "live"
    /\ EndPoll
\* Mutated form: the delay doubles without end.
FetchFailsUncapped ==
    /\ polling
    /\ retryDelay' = retryDelay * 2
    /\ liveState' = "offline"
    /\ EndPoll
    /\ UNCHANGED listVars

\* No connection, an HTTP error, a body that is not JSON.
FetchFails ==
    /\ polling
    /\ retryDelay' = IF retryDelay * 2 < 30 THEN retryDelay * 2 ELSE 30
    /\ liveState' = "offline"
    /\ EndPoll
    /\ UNCHANGED listVars

Hide ==
    /\ ~hidden
    /\ hidden' = TRUE
    /\ IF page = "ready"
       THEN timer' = FALSE /\ liveState' = "paused"
       ELSE UNCHANGED <<timer, liveState>>
    /\ UNCHANGED <<storeVars, page, selected, listVars, fetchVars, retryDelay>>
\* Mutated form: the page does not poll when it becomes visible.
ShowWithoutPoll ==
    /\ hidden
    /\ hidden' = FALSE
    /\ retryDelay' = IF page = "ready" THEN 2 ELSE retryDelay
    /\ UNCHANGED <<storeVars, page, selected, listVars, fetchVars, timer,
                   liveState>>

\* Visible again: poll at once, unless the old fetch has not come back.
Show ==
    /\ hidden
    /\ hidden' = FALSE
    /\ IF page = "ready"
       THEN /\ retryDelay' = 2
            /\ IF polling THEN UNCHANGED <<fetchVars, liveState>> ELSE StartFetch
       ELSE UNCHANGED <<retryDelay, fetchVars, liveState>>
    /\ UNCHANGED <<storeVars, page, selected, listVars, timer>>

-----------------------------------------------------------------------------

Next ==
    \/ StorageChanges
    \/ RenderRows \/ RenderSnapshot \/ RenderTotal
    \/ TimerFires \/ ServerReadsRows \/ ServerReadsTotal
    \/ Answered \/ FetchFails
    \/ Hide \/ Show

Spec == Init /\ [][Next]_vars

\* Timers fire, and of the polls made again and again not all are lost on the
\* way to the server, in it or back: the Inspector can be reached.
FairSpec ==
    /\ Spec
    /\ WF_vars(RenderRows) /\ WF_vars(RenderSnapshot) /\ WF_vars(RenderTotal)
    /\ WF_vars(TimerFires)
    /\ SF_vars(ServerReadsRows) /\ SF_vars(ServerReadsTotal) /\ SF_vars(Answered)

-----------------------------------------------------------------------------

\* Whatever the order of timers, hiding, showing and slow answers: a visible
\* page always has a poll under way or scheduled, never both, a hidden page
\* schedules none, and "Syncing" is shown only while a poll is under way.
NeverStalls ==
    page = "ready" =>
        /\ ~hidden => (polling # timer)
        /\ hidden => ~timer
        /\ liveState = "syncing" => polling

\* Once a poll has replaced the list, the rows on the page are those of the
\* cursor it sends, so a difference cannot go unnoticed by the next poll.
ListMatchesCursor == applied => shown = cursor.rows

\* The removed warning is given for an exchange that is gone or that at least
\* Latest newer exchanges have pushed out of the snapshot.
RemovedIsOutOfSight ==
    removed => selected \notin IdsOf(Listed)

\* When the storage comes to rest and the page stays visible, the list that
\* polls maintain becomes, and stays, the latest rows, with the right total.
Converges ==
    <>[]~hidden => <>[](applied => shown = Listed /\ count = Len(table))

=============================================================================
