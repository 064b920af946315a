-------------------------- MODULE InspectPoll_proofs --------------------------
(***************************************************************************)
(* Proofs about InspectPoll, for a snapshot and a table of any size: the   *)
(* page polls exactly while it is visible, its list belongs to the cursor  *)
(* it sends, and it calls an exchange removed only when it is out of sight.*)
(***************************************************************************)
EXTENDS InspectPoll, SequenceTheorems, TLAPS

\* The flags of the page, and what holds before its script runs.
PageInv ==
    /\ {timer, hidden} \subseteq BOOLEAN
    /\ page \in {"rows", "snapshot", "total", "ready"}
    /\ page # "ready" =>
           /\ fetch = "none"
           /\ ~timer
           /\ ~applied
           /\ liveState # "syncing"
    /\ NeverStalls
    /\ ListMatchesCursor

\* PageInv is inductive: one case for each step of the page, one for the
\* storage, which it does not mention.
LEMMA PageInvInductive == Spec => []PageInv
<1>1. Init => PageInv
  BY DEF Init, PageInv, NeverStalls, ListMatchesCursor
<1>2. PageInv /\ [Next]_vars => PageInv'
  <2> SUFFICES ASSUME PageInv, [Next]_vars PROVE PageInv'
    OBVIOUS
  <2> USE DEF PageInv, NeverStalls, ListMatchesCursor, polling, listVars, fetchVars,
              timingVars
  <2>1. CASE StorageChanges
    BY <2>1 DEF StorageChanges
  <2>2. CASE RenderRows
    BY <2>2 DEF RenderRows
  <2>3. CASE RenderSnapshot
    BY <2>3 DEF RenderSnapshot
  <2>4. CASE RenderTotal
    BY <2>4 DEF RenderTotal
  <2>5. CASE TimerFires
    BY <2>5 DEF TimerFires, StartFetch
  <2>6. CASE ServerReadsRows
    BY <2>6 DEF ServerReadsRows
  <2>7. CASE ServerReadsTotal
    BY <2>7 DEF ServerReadsTotal
  <2>8. CASE Answered
    <3>1. page = "ready" /\ page' = "ready"
      BY <2>8 DEF Answered, EndPoll
    <3>2. applied' => shown' = cursor'.rows
      BY <2>8 DEF Answered, RenderList
    <3>3. /\ fetch' = "none" /\ liveState' = "live"
          /\ hidden' = hidden /\ timer' = ~hidden
      BY <2>8 DEF Answered, EndPoll
    <3>4. QED
      BY <3>1, <3>2, <3>3
  <2>9. CASE FetchFails
    <3>1. page = "ready" /\ page' = "ready"
      BY <2>9 DEF FetchFails, EndPoll
    <3>2. /\ fetch' = "none" /\ liveState' = "offline"
          /\ hidden' = hidden /\ timer' = ~hidden
          /\ UNCHANGED <<applied, shown, cursor>>
      BY <2>9 DEF FetchFails, EndPoll
    <3>3. QED
      BY <3>1, <3>2
  <2>10. CASE Hide
    BY <2>10 DEF Hide
  <2>11. CASE Show
    BY <2>11 DEF Show, StartFetch
  <2>12. CASE UNCHANGED vars
    BY <2>12 DEF vars
  <2>13. QED
    BY <2>1, <2>2, <2>3, <2>4, <2>5, <2>6, <2>7, <2>8, <2>9, <2>10, <2>11, <2>12 DEF Next
<1>3. QED
  BY <1>1, <1>2, PTL DEF Spec

\* A visible page has one poll scheduled or under way, a hidden one schedules
\* none, in whatever order timers, answers and visibility changes come.
THEOREM PollingNeverStalls == Spec => []NeverStalls
<1>1. PageInv => NeverStalls
  BY DEF PageInv
<1>2. QED
  BY <1>1, PageInvInductive, PTL

\* A list that a poll has rendered is that of the cursor the next poll sends.
THEOREM ListFollowsCursor == Spec => []ListMatchesCursor
<1>1. PageInv => ListMatchesCursor
  BY DEF PageInv
<1>2. QED
  BY <1>1, PageInvInductive, PTL

-----------------------------------------------------------------------------

\* What is out of the first rows of the table never comes back: the poll that
\* missed it may be late.
SightInv ==
    /\ table \in Seq(Row)
    /\ nextId \in Nat \ {0}
    /\ payload = Snap(payload.rows, payload.total)
    /\ selected \in Nat \cup {Null}
    /\ selected # Null => selected < nextId
    /\ fetch \in {"rows", "answered"} /\ selected # Null =>
           \/ selected \in IdsOf(payload.rows)
           \/ selected \notin IdsOf(Listed)
    /\ removed => selected # Null
    /\ RemovedIsOutOfSight

\* The ids of a shortened list are those of its first rows.
LEMMA ShortenedIds ==
    ASSUME NEW rows \in Seq(Row), NEW n \in Nat, NEW id
    PROVE  id \in IdsOf(Shortened(rows, n)) <=>
               \E i \in 1..Len(rows) : i <= n /\ id = rows[i].id
<1> DEFINE m     == IF Len(rows) < n THEN Len(rows) ELSE n
           short == SubSeq(rows, 1, m)
<1>1. m \in Nat /\ \A i : i \in 1..m <=> i \in 1..Len(rows) /\ i <= n
  OBVIOUS
<1>2. /\ short \in Seq(Row) /\ Len(short) = m
      /\ \A i \in 1..m : short[i] = rows[i]
  BY <1>1
<1>3. Shortened(rows, n) = short
  BY Zenon DEF Shortened
<1> HIDE DEF m, short
<1>4. DOMAIN short = 1..m
  BY <1>1, <1>2
<1>5. id \in IdsOf(short) <=> \E i \in 1..m : id = short[i].id
  BY <1>4, Zenon DEF IdsOf
<1>6. QED
  BY <1>1, <1>2, <1>3, <1>5, Zenon

\* Nothing that happens to the storage brings a row back into the first rows
\* of the table.
LEMMA OutOfSightStays ==
    ASSUME SightInv, StorageChanges, NEW id \in Int, id < nextId,
           id \notin IdsOf(Listed)
    PROVE  /\ table' \in Seq(Row) /\ nextId' \in Nat \ {0} /\ nextId <= nextId'
           /\ id \notin IdsOf(Listed)'
<1>1. Latest \in Nat \ {0} /\ MaxRecords \in Nat
  BY PollAssumption
<1>2. table \in Seq(Row) /\ nextId \in Nat \ {0}
  BY DEF SightInv
<1>3. \A i \in 1..Len(table) : i <= Latest => table[i].id # id
  BY <1>1, <1>2, ShortenedIds, Zenon DEF Listed
<1>4. ASSUME table' \in Seq(Row),
             \A i \in 1..Len(table') : i <= Latest => table'[i].id # id
      PROVE  id \notin IdsOf(Listed)'
  <2>1. IdsOf(Listed)' = IdsOf(Shortened(table', Latest))
    BY DEF Listed, Shortened, IdsOf
  <2>2. ASSUME NEW rows \in Seq(Row)
        PROVE  id \in IdsOf(Shortened(rows, Latest)) <=>
                   \E i \in 1..Len(rows) : i <= Latest /\ id = rows[i].id
    <3>1. Latest \in Nat
      BY <1>1
    <3>2. QED
      BY <3>1, ShortenedIds
  <2>3. table' \in Seq(Row)
    BY <1>4
  <2>4. id \in IdsOf(Shortened(table', Latest)) <=>
            \E i \in 1..Len(table') : i <= Latest /\ id = table'[i].id
    BY <2>2, <2>3, Zenon
  <2>5. QED
    BY <1>4, <2>1, <2>4
<1>5. CASE Capture
  <2>1. /\ <<[id |-> nextId, done |-> FALSE]>> \in Seq(Row)
        /\ table' = <<[id |-> nextId, done |-> FALSE]>> \o table
        /\ nextId' = nextId + 1
    BY <1>2, <1>5 DEF Capture, Row
  <2>2. /\ table' \in Seq(Row) /\ Len(table') = Len(table) + 1
        /\ table'[1] = [id |-> nextId, done |-> FALSE]
        /\ \A i \in 1..Len(table) : table'[i + 1] = table[i]
    BY <1>2, <2>1
  <2>3. ASSUME NEW i \in 1..Len(table'), i <= Latest PROVE table'[i].id # id
    <3>1. CASE i = 1
      BY <2>2, <3>1
    <3>2. CASE i # 1
      <4>1. i - 1 \in 1..Len(table) /\ i - 1 <= Latest /\ (i - 1) + 1 = i
        BY <1>1, <1>2, <2>2, <2>3, <3>2
      <4>2. table'[i] = table[i - 1]
        BY <2>2, <4>1
      <4>3. QED
        BY <1>3, <4>1, <4>2, Zenon
    <3>3. QED
      BY <3>1, <3>2
  <2>4. QED
    BY <1>2, <1>4, <2>1, <2>2, <2>3
<1>6. CASE Complete
  <2>1. PICK i \in DOMAIN table : table' = [table EXCEPT ![i].done = TRUE]
    BY <1>6 DEF Complete
  <2>2. /\ table' \in Seq(Row) /\ Len(table') = Len(table)
        /\ \A j \in 1..Len(table) : table'[j].id = table[j].id
    <3>1. i \in 1..Len(table) /\ table[i] \in Row
      BY <1>2
    <3>2. ASSUME NEW r \in Row
          PROVE  [r EXCEPT !.done = TRUE] \in Row /\ [r EXCEPT !.done = TRUE].id = r.id
      BY DEF Row
    <3>3. /\ [table[i] EXCEPT !.done = TRUE] \in Row
          /\ [table[i] EXCEPT !.done = TRUE].id = table[i].id
      BY <3>1, <3>2
    <3> DEFINE row == [table[i] EXCEPT !.done = TRUE]
    <3>4. table' = [table EXCEPT ![i] = row]
      BY <2>1
    <3>5. row \in Row /\ row.id = table[i].id
      BY <3>3
    <3> HIDE DEF row
    <3>6. QED
      BY <1>2, <3>1, <3>4, <3>5
  <2>3. QED
    BY <1>2, <1>3, <1>4, <1>6, <2>2 DEF Complete
<1>7. CASE Prune
  <2>1. /\ table' \in Seq(Row) /\ Len(table') <= Len(table)
        /\ \A i \in 1..Len(table') : table'[i] = table[i]
    BY <1>1, <1>2, <1>7 DEF Prune, Shortened
  <2>2. QED
    BY <1>2, <1>3, <1>4, <1>7, <2>1 DEF Prune
<1>8. CASE Clear
  BY <1>2, <1>4, <1>8 DEF Clear
<1>9. QED
  BY <1>5, <1>6, <1>7, <1>8 DEF StorageChanges

\* SightInv is inductive.
LEMMA SightInvInductive == Spec => []SightInv
<1>1. Init => SightInv
  <2> SUFFICES ASSUME Init PROVE SightInv
    OBVIOUS
  <2>1. CASE table = <<>>
    <3>1. Len(table) = 0 /\ IdsOf(table) = {}
      BY <2>1 DEF IdsOf
    <3>2. table \in Seq(Row) /\ nextId = 1 /\ selected = Null
      BY <2>1, <3>1 DEF Init
    <3>3. QED
      BY <3>2 DEF Init, SightInv, RemovedIsOutOfSight, Snap
  <2>2. CASE \E d \in BOOLEAN : table = <<[id |-> 1, done |-> d]>>
    <3>1. PICK d \in BOOLEAN : table = <<[id |-> 1, done |-> d]>>
      BY <2>2
    <3>2. 1 \in 1..MaxId /\ [id |-> 1, done |-> d] \in Row
      BY PollAssumption DEF Row
    <3>3. table \in Seq(Row) /\ Len(table) = 1 /\ table[1].id = 1
      BY <3>1, <3>2
    <3>4. nextId = 2
      BY <3>3 DEF Init
    <3>5. IdsOf(table) = {1}
      BY <3>3 DEF IdsOf
    <3>6. selected # Null => selected = 1
      BY <3>5 DEF Init
    <3>7. QED
      BY <3>3, <3>4, <3>6 DEF Init, SightInv, RemovedIsOutOfSight, Snap
  <2>3. QED
    BY <2>1, <2>2 DEF Init
<1>2. SightInv /\ [Next]_vars => SightInv'
  <2> SUFFICES ASSUME SightInv, [Next]_vars PROVE SightInv'
    OBVIOUS
  <2> USE DEF listVars, fetchVars, timingVars, storeVars
  <2>1. CASE StorageChanges
    <3>1. UNCHANGED <<selected, payload, fetch, removed>>
      BY <2>1 DEF StorageChanges
    <3>2. table' \in Seq(Row) /\ nextId' \in Nat \ {0} /\ nextId <= nextId'
      <4>1. nextId \in Nat \ {0} /\ -1 < nextId
        BY DEF SightInv
      <4>2. -1 \notin IdsOf(Listed)
        <5>1. ASSUME NEW i \in 1..Len(table) PROVE table[i].id # -1
          <6>1. table[i] \in Row
            BY DEF SightInv
          <6>2. table[i].id \in 1..MaxId /\ MaxId \in Nat
            BY <6>1, PollAssumption DEF Row
          <6>3. QED
            BY <6>2
        <5>2. Latest \in Nat /\ table \in Seq(Row)
          BY PollAssumption DEF SightInv
        <5>3. -1 \in IdsOf(Shortened(table, Latest)) <=>
                  \E i \in 1..Len(table) : i <= Latest /\ -1 = table[i].id
          BY <5>2, ShortenedIds
        <5>4. QED
          BY <5>1, <5>3 DEF Listed
      <4>3. QED
        BY <2>1, <4>1, <4>2, OutOfSightStays
    <3>3. selected # Null /\ selected \notin IdsOf(Listed) =>
              selected \notin IdsOf(Listed)'
      BY <2>1, OutOfSightStays DEF SightInv
    <3>4. QED
      BY <3>1, <3>2, <3>3 DEF SightInv, RemovedIsOutOfSight
  <2>2. ASSUME UNCHANGED <<table, nextId, selected>>
        PROVE  /\ IdsOf(Listed)' = IdsOf(Listed)
               /\ table' \in Seq(Row) /\ nextId' \in Nat \ {0}
               /\ selected' \in Nat \cup {Null}
               /\ selected' # Null => selected' < nextId'
    BY <2>2 DEF SightInv, Listed, Shortened, IdsOf
  <2>3. ASSUME UNCHANGED <<table, nextId, selected, payload, removed>>,
               fetch' \in {fetch, "none", "sent"}
        PROVE  SightInv'
    BY <2>2, <2>3 DEF SightInv, RemovedIsOutOfSight
  <2>4. CASE RenderRows \/ RenderSnapshot \/ RenderTotal
    BY <2>3, <2>4 DEF RenderRows, RenderSnapshot, RenderTotal
  <2>5. CASE TimerFires \/ Hide \/ Show
    BY <2>3, <2>5 DEF TimerFires, Hide, Show, StartFetch
  <2>6. CASE ServerReadsRows
    <3>1. /\ UNCHANGED <<table, nextId, selected, removed>>
          /\ payload' = Snap(Listed, 0)
      BY <2>6 DEF ServerReadsRows
    <3>2. payload' = Snap(payload'.rows, payload'.total) /\ payload'.rows = Listed
      BY <3>1 DEF Snap
    <3>3. IdsOf(payload'.rows) = IdsOf(Listed)
      BY <3>2, Zenon
    <3>4. QED
      BY <2>2, <3>1, <3>2, <3>3 DEF SightInv, RemovedIsOutOfSight
  <2>7. CASE ServerReadsTotal
    <3>1. /\ UNCHANGED <<table, nextId, selected, removed>>
          /\ fetch = "rows"
          /\ payload' = [payload EXCEPT !.total = Len(table)]
      BY <2>7 DEF ServerReadsTotal
    <3>2. payload = Snap(payload.rows, payload.total)
      BY DEF SightInv
    <3>3. payload' = Snap(payload'.rows, payload'.total) /\ payload'.rows = payload.rows
      BY <3>1, <3>2 DEF Snap
    <3>4. IdsOf(payload'.rows) = IdsOf(payload.rows)
      BY <3>3, Zenon
    <3>5. QED
      BY <2>2, <3>1, <3>3, <3>4 DEF SightInv, RemovedIsOutOfSight
  <2>8. CASE Answered
    <3>1. /\ UNCHANGED <<table, nextId, selected, payload>>
          /\ fetch = "answered" /\ fetch' = "none"
      BY <2>8 DEF Answered, EndPoll
    <3>2. \/ removed' = removed
          \/ removed' = (removed \/ (selected # Null /\ selected \notin IdsOf(payload.rows)))
      BY <2>8 DEF Answered, RenderList
    <3>3. removed' => selected # Null /\ selected \notin IdsOf(Listed)
      BY <3>1, <3>2 DEF SightInv, RemovedIsOutOfSight
    <3>4. QED
      BY <2>2, <3>1, <3>3 DEF SightInv, RemovedIsOutOfSight
  <2>9. CASE FetchFails
    BY <2>3, <2>9 DEF FetchFails, EndPoll
  <2>10. CASE UNCHANGED vars
    BY <2>3, <2>10 DEF vars
  <2>11. QED
    BY <2>1, <2>4, <2>5, <2>6, <2>7, <2>8, <2>9, <2>10 DEF Next
<1>3. QED
  BY <1>1, <1>2, PTL DEF Spec

\* However late a poll is answered, and whatever is captured, pruned or cleared
\* meanwhile, an exchange that is called removed is out of the list for good.
THEOREM RemovedMeansOutOfSight == Spec => []RemovedIsOutOfSight
<1>1. SightInv => RemovedIsOutOfSight
  BY DEF SightInv
<1>2. QED
  BY <1>1, SightInvInductive, PTL

-----------------------------------------------------------------------------
(* Types: the rows of every list on the page were rows of the table once,   *)
(* an id is never handed out twice, and the delays are the five that the    *)
(* doubling and its cap can reach.                                          *)

LEMMA ShortenedType ==
    ASSUME NEW rows \in Seq(Row), NEW n \in Nat
    PROVE  Shortened(rows, n) \in Seq(Row)
BY DEF Shortened

\* What the storage does to the table keeps it a table of rows.
LEMMA StorageTypes ==
    ASSUME table \in Seq(Row), nextId \in 1..(MaxId + 1),
           Capture \/ Complete \/ Prune \/ Clear
    PROVE  table' \in Seq(Row) /\ nextId' \in 1..(MaxId + 1)
<1>1. MaxId \in Nat /\ MaxRecords \in Nat
  BY PollAssumption
<1>2. CASE Capture
  <2>1. nextId \in 1..MaxId
    BY <1>1, <1>2 DEF Capture
  <2>2. [id |-> nextId, done |-> FALSE] \in Row
    BY <2>1 DEF Row
  <2>3. <<[id |-> nextId, done |-> FALSE]>> \o table \in Seq(Row)
    BY <2>2
  <2>4. nextId + 1 \in 1..(MaxId + 1)
    BY <1>1, <2>1
  <2>5. /\ table' = <<[id |-> nextId, done |-> FALSE]>> \o table
        /\ nextId' = nextId + 1
    BY <1>2 DEF Capture
  <2>6. QED
    BY <2>3, <2>4, <2>5, Zenon
<1>3. CASE Complete
  <2>1. PICK i \in DOMAIN table : table' = [table EXCEPT ![i].done = TRUE]
    BY <1>3 DEF Complete
  <2> DEFINE row == [table[i] EXCEPT !.done = TRUE]
  <2>2. table[i] \in Row
    OBVIOUS
  <2>3. row \in Row
    BY <2>2 DEF Row
  <2>4. table' = [table EXCEPT ![i] = row]
    BY <2>1
  <2> HIDE DEF row
  <2>5. table' \in Seq(Row)
    BY <2>3, <2>4
  <2>6. nextId' = nextId
    BY <1>3 DEF Complete
  <2>7. QED
    BY <2>5, <2>6
<1>4. CASE Prune
  BY <1>1, <1>4, ShortenedType DEF Prune
<1>5. CASE Clear
  BY <1>5 DEF Clear
<1>6. QED
  BY <1>2, <1>3, <1>4, <1>5

\* Every list and every answer is typed, however the steps interleave.
THEOREM TypeCorrect == Spec => []TypeOK
<1>0. /\ <<>> \in Seq(Row) /\ Snap(<<>>, 0) \in Snapshot
      /\ \A rows \in Seq(Row), n \in Nat : Snap(rows, n) \in Snapshot
      /\ {Latest, MaxRecords, MaxId} \subseteq Nat \ {0}
  BY PollAssumption DEF Snap, Snapshot
<1>1. Init => TypeOK
  <2> SUFFICES ASSUME Init PROVE TypeOK
    OBVIOUS
  <2>1. 1 \in 1..MaxId /\ 1 \in 1..(MaxId + 1) /\ 2 \in 1..(MaxId + 1)
    BY <1>0
  <2>2. CASE table = <<>>
    <3>1. nextId = 1 /\ selected = Null
      BY <2>2 DEF Init, IdsOf
    <3>2. QED
      BY <1>0, <2>1, <2>2, <3>1 DEF Init, TypeOK
  <2>3. CASE \E d \in BOOLEAN : table = <<[id |-> 1, done |-> d]>>
    <3>1. PICK d \in BOOLEAN : table = <<[id |-> 1, done |-> d]>>
      BY <2>3
    <3>2. [id |-> 1, done |-> d] \in Row
      BY <2>1 DEF Row
    <3>3. table \in Seq(Row) /\ Len(table) = 1 /\ table[1].id = 1
      BY <3>1, <3>2
    <3>4. nextId = 2 /\ selected \in {1, Null}
      BY <3>3 DEF Init, IdsOf
    <3>5. QED
      BY <1>0, <2>1, <3>3, <3>4 DEF Init, TypeOK
  <2>4. QED
    BY <2>2, <2>3 DEF Init
<1>2. TypeOK /\ [Next]_vars => TypeOK'
  <2> SUFFICES ASSUME TypeOK, [Next]_vars PROVE TypeOK'
    OBVIOUS
  <2> USE DEF TypeOK, listVars, fetchVars, timingVars, storeVars
  <2>1. Listed \in Seq(Row) /\ Len(table) \in Nat
    BY <1>0, ShortenedType DEF Listed
  <2>2. CASE StorageChanges
    BY <2>2, StorageTypes DEF StorageChanges
  <2>3. CASE RenderRows
    BY <2>1, <2>3 DEF RenderRows
  <2>4. CASE RenderSnapshot
    BY <1>0, <2>1, <2>4 DEF RenderSnapshot
  <2>5. ASSUME NEW snapshot \in Snapshot
        PROVE  [snapshot EXCEPT !.total = Len(table)] \in Snapshot
    BY <2>1 DEF Snapshot
  <2>6. CASE RenderTotal
    BY <2>1, <2>5, <2>6 DEF RenderTotal
  <2>7. CASE TimerFires \/ Hide \/ Show
    BY <2>7 DEF TimerFires, Hide, Show, StartFetch
  <2>8. CASE ServerReadsRows
    BY <1>0, <2>1, <2>8 DEF ServerReadsRows
  <2>9. CASE ServerReadsTotal
    BY <2>5, <2>9 DEF ServerReadsTotal
  <2>10. CASE Answered
    <3>1. payload.rows \in Seq(Row) /\ payload.total \in Nat
      BY DEF Snapshot
    <3>2. shown' \in Seq(Row) /\ {applied', removed'} \subseteq BOOLEAN
      BY <2>10, <3>1 DEF Answered, RenderList
    <3>3. QED
      BY <2>10, <3>1, <3>2 DEF Answered, EndPoll
  <2>11. CASE FetchFails
    BY <2>11 DEF FetchFails, EndPoll
  <2>12. CASE UNCHANGED vars
    BY <2>12 DEF vars
  <2>13. QED
    BY <2>2, <2>3, <2>4, <2>6, <2>7, <2>8, <2>9, <2>10, <2>11, <2>12 DEF Next
<1>3. QED
  BY <1>1, <1>2, PTL DEF Spec
=============================================================================
