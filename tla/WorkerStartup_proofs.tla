------------------------- MODULE WorkerStartup_proofs -------------------------
(***************************************************************************)
(* For any number of wrappers, processes, statements, deaths and           *)
(* deletions: the file is whole or untouched, and wrappers serve or refuse *)
(* it rightly.  The induction needs to know who holds the write lock, and  *)
(* what the transaction under it sees at each of its steps.                *)
(***************************************************************************)
EXTENDS WorkerStartup, TLAPS

\* Whoever is in a transaction or a journal switch holds the write lock.
LockHolder ==
    \A w \in Workers :
        writer = w <=> pc[w] \in InTransaction \cup {"switching", "writing"}

\* What the transaction of _initialize sees, between two of its steps.
DraftIsRight ==
    \A w \in Workers :
        /\ pc[w] = "check" => draft = file /\ statement = 1
        /\ pc[w] = "create" =>
               /\ file = Empty
               /\ draft.version = 0
               /\ draft.tables = 1..(statement - 1)
        /\ pc[w] = "commit" =>
               \/ draft = Whole /\ file = Empty
               \/ draft = file /\ file.version # 0 /\ file.version <= SchemaVersion

\* A verdict is that of a wrapper whose repository is unavailable.
VerdictIsFinal == \A w \in Workers : verdict[w] # "none" => pc[w] = "unavailable"

SafeInv == /\ LockHolder /\ DraftIsRight /\ VerdictIsFinal
           /\ SchemaIsWhole /\ VerdictIsRight

USE StartupAssumption, FoundAssumption DEF SchemaVersion

Step == {"off", "unavailable"} \cup Starting \cup Serving
Verdict == {"none", "locked", "newer", "foreign", "exists", "io"}

\* The two files with a meaning here are files, and differ.
LEMMA Files ==
    /\ {Empty, Whole} \subseteq File
    /\ Empty # Whole
    /\ Empty.version = 0 /\ Empty.tables = {}
BY DEF File, Empty, Whole

\* A wrapper that fails is of the right type afterwards.
LEMMA FailType ==
    ASSUME TypeOK, NEW w \in Workers, NEW why \in Verdict, Fail(w, why)
    PROVE  TypeOK'
BY DEF TypeOK, Fail, Goto, Unlocked, Verdict, fileVars, txnVars, boundVars

-----------------------------------------------------------------------------

\* Every variable keeps its type: the schema, its version and the bounds among
\* them.
THEOREM TypeCorrect == Spec => []TypeOK
<1>1. Init => TypeOK
  <2> SUFFICES ASSUME Init PROVE TypeOK
    OBVIOUS
  <2>1. file \in File /\ draft \in File /\ given \in File
    BY Files DEF Init
  <2>2. /\ pc \in [Workers -> Step]
        /\ verdict \in [Workers -> Verdict]
        /\ initLock \in [Processes -> Workers \cup {Nobody}]
    BY DEF Init, Step, Verdict
  <2>3. statement \in 1..(Statements + 1) /\ kills \in 0..MaxKills /\ deletes \in 0..MaxDeletes
    BY DEF Init
  <2>4. QED
    BY <2>1, <2>2, <2>3 DEF Init, TypeOK, Step, Verdict
<1>2. TypeOK /\ [Next]_vars => TypeOK'
  <2> SUFFICES ASSUME TypeOK, [Next]_vars PROVE TypeOK'
    OBVIOUS
  <2> USE DEF fileVars, txnVars, boundVars
  <2>1. ASSUME NEW w \in Workers, Start(w) PROVE TypeOK'
    BY <2>1 DEF Start, Goto, TypeOK, Starting
  <2>2. ASSUME NEW w \in Workers, Acquire(w) PROVE TypeOK'
    BY <2>2 DEF Acquire, Goto, TypeOK, Starting, Initialising
  <2>3. ASSUME NEW w \in Workers, EnableWal(w) PROVE TypeOK'
    BY <2>3 DEF EnableWal, Goto, TypeOK, Starting, Initialising
  <2>4. ASSUME NEW w \in Workers, SwitchWal(w) PROVE TypeOK'
    BY <2>4 DEF SwitchWal, Goto, TypeOK, Starting, Initialising
  <2>5. ASSUME NEW w \in Workers, Begin(w) PROVE TypeOK'
    BY <2>5 DEF Begin, Goto, TypeOK, Starting, Initialising, InTransaction
  <2>6. ASSUME NEW w \in Workers, TimeOut(w) PROVE TypeOK'
    BY <2>6, FailType DEF TimeOut, Verdict
  <2>7. ASSUME NEW w \in Workers, Check(w) PROVE TypeOK'
    <3>1. CASE \E why \in {"newer", "foreign"} : Fail(w, why)
      BY <3>1, FailType DEF Verdict
    <3>2. CASE ~ \E why \in {"newer", "foreign"} : Fail(w, why)
      <4>1. /\ pc' = [pc EXCEPT ![w] = IF draft.version = 0 THEN "create" ELSE "commit"]
            /\ UNCHANGED <<verdict, initLock, writer, fileVars, txnVars, stale,
                           boundVars>>
        BY <2>7, <3>2 DEF Check, Goto
      <4>2. pc' \in [Workers -> Step]
        BY <4>1 DEF TypeOK, Step, Starting, Initialising, InTransaction
      <4>3. QED
        BY <4>1, <4>2 DEF TypeOK, Step
    <3>3. QED
      BY <3>1, <3>2
  <2>8. ASSUME NEW w \in Workers, Create(w) PROVE TypeOK'
    <3>1. CASE statement \in draft.tables
      BY <2>8, <3>1, FailType DEF Create, Verdict
    <3>2. CASE statement \notin draft.tables
      <4>1. draft' = [draft EXCEPT !.tables = draft.tables \cup {statement}]
        BY <2>8, <3>2 DEF Create
      <4>2. statement \in 1..Statements
        BY <2>8 DEF Create, TypeOK
      <4>3. draft' \in File
        BY <4>1, <4>2 DEF TypeOK, File
      <4>4. statement' = statement + 1
        BY <2>8, <3>2 DEF Create
      <4>5. QED
        BY <2>8, <3>2, <4>2, <4>3, <4>4 DEF Create, TypeOK
    <3>3. QED
      BY <3>1, <3>2
  <2>9. ASSUME NEW w \in Workers, SetVersion(w) PROVE TypeOK'
    <3>1. draft' \in File
      BY <2>9 DEF SetVersion, TypeOK, File
    <3>2. QED
      BY <2>9, <3>1 DEF SetVersion, Goto, TypeOK, Starting, Initialising, InTransaction
  <2>10. ASSUME NEW w \in Workers, Commit(w) PROVE TypeOK'
    BY <2>10 DEF Commit, Goto, TypeOK, Serving
  <2>11. ASSUME NEW w \in Workers, Write(w) PROVE TypeOK'
    BY <2>11 DEF Write, Goto, TypeOK, Serving
  <2>12. ASSUME NEW w \in Workers, Breaks(w) PROVE TypeOK'
    BY <2>12, FailType DEF Breaks, Verdict
  <2>13. ASSUME NEW p \in Processes, Kill(p) PROVE TypeOK'
    BY <2>13 DEF Kill, TypeOK
  <2>14. CASE Delete
    BY <2>14, Files DEF Delete, TypeOK
  <2>15. CASE UNCHANGED vars
    BY <2>15 DEF TypeOK, vars
  <2>16. QED
    BY <2>1, <2>2, <2>3, <2>4, <2>5, <2>6, <2>7, <2>8, <2>9, <2>10, <2>11,
       <2>12, <2>13, <2>14, <2>15 DEF Next, Proceed
<1>3. QED
  BY <1>1, <1>2, PTL DEF Spec

-----------------------------------------------------------------------------

\* A wrapper that fails for a good reason leaves everything in order.
LEMMA FailKeeps ==
    ASSUME TypeOK, SafeInv, NEW w \in Workers, NEW why, pc[w] \in Starting,
           Fail(w, why),
           why = "newer" => file.version > SchemaVersion,
           why = "foreign" => file.version = 0 /\ file.tables # {},
           why # "exists"
    PROVE  SafeInv'
<1> USE DEF TypeOK, SafeInv, Fail, Goto, Unlocked, fileVars, txnVars, boundVars,
            Starting, Initialising, InTransaction, Serving
<1>1. LockHolder'
  BY DEF LockHolder
<1>2. DraftIsRight'
  BY DEF DraftIsRight
<1>3. VerdictIsFinal'
  BY DEF VerdictIsFinal
<1>4. SchemaIsWhole'
  BY DEF SchemaIsWhole
<1>5. VerdictIsRight'
  BY DEF VerdictIsRight
<1>6. QED
  BY <1>1, <1>2, <1>3, <1>4, <1>5

\* SafeInv is inductive: one case for each step.
LEMMA SafeInvInductive == Spec => []SafeInv
<1>1. Init => SafeInv
  BY DEF Init, SafeInv, LockHolder, DraftIsRight, VerdictIsFinal,
         SchemaIsWhole, VerdictIsRight, InTransaction, Serving
<1>2. TypeOK /\ SafeInv /\ [Next]_vars => SafeInv'
  <2> SUFFICES ASSUME TypeOK, SafeInv, [Next]_vars PROVE SafeInv'
    OBVIOUS
  <2> USE DEF fileVars, txnVars, boundVars
  <2>a. pc \in [Workers -> Step] /\ verdict \in [Workers -> Verdict]
    BY DEF TypeOK, Step, Verdict
  <2> DEFINE Parts == /\ LockHolder /\ DraftIsRight
                      /\ VerdictIsFinal /\ SchemaIsWhole /\ VerdictIsRight
  <2>b. Parts
    BY DEF SafeInv
  <2>c. Parts' => SafeInv'
    BY DEF SafeInv
  <2> USE DEF LockHolder, DraftIsRight, VerdictIsFinal, SchemaIsWhole,
              VerdictIsRight, Goto, Starting, Initialising, InTransaction, Serving
  <2>1. ASSUME NEW w \in Workers, Start(w) PROVE SafeInv'
    BY <2>1, <2>a, <2>b, <2>c DEF Start, Step, Verdict
  <2>2. ASSUME NEW w \in Workers, Acquire(w) PROVE SafeInv'
    BY <2>2, <2>a, <2>b, <2>c DEF Acquire, Step
  <2>3. ASSUME NEW w \in Workers, EnableWal(w) PROVE SafeInv'
    BY <2>3, <2>a, <2>b, <2>c DEF EnableWal, Step
  <2>4. ASSUME NEW w \in Workers, SwitchWal(w) PROVE SafeInv'
    BY <2>4, <2>a, <2>b, <2>c DEF SwitchWal, Step
  <2>5. ASSUME NEW w \in Workers, Begin(w) PROVE SafeInv'
    BY <2>5, <2>a, <2>b, <2>c DEF Begin, Step
  <2>6. ASSUME NEW w \in Workers, TimeOut(w) PROVE SafeInv'
    BY <2>6, FailKeeps DEF TimeOut
  <2>7. ASSUME NEW w \in Workers, Check(w) PROVE SafeInv'
    <3>1. draft = file
      BY <2>7, <2>b DEF Check
    <3>2. CASE draft.version > SchemaVersion
      BY <2>7, <3>1, <3>2, FailKeeps DEF Check
    <3>3. CASE ~(draft.version > SchemaVersion) /\ draft.version = 0 /\ draft.tables # {}
      BY <2>7, <3>1, <3>3, FailKeeps DEF Check
    <3>4. CASE ~(draft.version > SchemaVersion) /\ ~(draft.version = 0 /\ draft.tables # {})
      <4>1. file \in File /\ statement = 1
        BY <2>7, <2>b DEF Check, TypeOK
      <4>2. draft.version = 0 => file = Empty
        BY <3>1, <3>4, <4>1 DEF File, Empty
      <4>3. draft.version = 0 => draft.tables = 1..(statement - 1)
        BY <3>4, <4>1
      <4>4. draft.version # 0 => file.version # 0 /\ file.version <= SchemaVersion
        BY <3>1, <3>4, <4>1 DEF File
      <4>5. /\ pc' = [pc EXCEPT ![w] = IF draft.version = 0 THEN "create" ELSE "commit"]
            /\ UNCHANGED <<verdict, initLock, writer, fileVars, txnVars, stale,
                           boundVars>>
        BY <2>7, <3>4 DEF Check
      <4>6. \A v \in Workers : pc[v] = "check" => v = w
        BY <2>7, <2>b DEF Check
      <4>7. QED
        BY <2>7, <2>a, <2>b, <2>c, <3>1, <4>2, <4>3, <4>4, <4>5, <4>6 DEF Check, Step
    <3>5. QED
      BY <3>2, <3>3, <3>4
  <2>8. ASSUME NEW w \in Workers, Create(w) PROVE SafeInv'
    <3>1. /\ file = Empty /\ draft.version = 0
          /\ draft.tables = 1..(statement - 1)
          /\ statement \in Int /\ statement >= 1
      BY <2>8, <2>b DEF Create, TypeOK
    <3>2. statement \notin draft.tables
      BY <3>1
    <3>3. /\ draft' = [draft EXCEPT !.tables = draft.tables \cup {statement}]
          /\ statement' = statement + 1
          /\ UNCHANGED <<pc, verdict, initLock, writer, fileVars, stale, boundVars>>
      BY <2>8, <3>2 DEF Create
    <3>4. draft'.version = 0 /\ draft'.tables = 1..(statement' - 1)
      BY <3>1, <3>3 DEF TypeOK, File
    <3>5. \A v \in Workers : pc[v] \in InTransaction => v = w
      BY <2>8, <2>b DEF Create
    <3>6. QED
      BY <2>8, <2>b, <2>c, <3>1, <3>3, <3>4, <3>5 DEF Create
  <2>9. ASSUME NEW w \in Workers, SetVersion(w) PROVE SafeInv'
    <3>1. /\ draft \in File /\ statement = Statements + 1
          /\ file = Empty /\ draft.tables = 1..(statement - 1)
      BY <2>9, <2>b DEF SetVersion, TypeOK
    <3>2. draft' = Whole
      BY <2>9, <3>1 DEF SetVersion, File, Whole
    <3>3. \A v \in Workers : pc[v] \in InTransaction => v = w
      BY <2>9, <2>b DEF SetVersion
    <3>4. QED
      BY <2>9, <2>a, <2>b, <2>c, <3>1, <3>2, <3>3 DEF SetVersion, Step
  <2>10. ASSUME NEW w \in Workers, Commit(w) PROVE SafeInv'
    BY <2>10, <2>a, <2>b, <2>c, Files DEF Commit, Step, Empty, Whole
  <2>11. ASSUME NEW w \in Workers, Write(w) PROVE SafeInv'
    BY <2>11, <2>a, <2>b, <2>c DEF Write, Step
  <2>12. ASSUME NEW w \in Workers, Breaks(w) PROVE SafeInv'
    BY <2>12, FailKeeps DEF Breaks
  <2>13. ASSUME NEW p \in Processes, Kill(p) PROVE SafeInv'
    BY <2>13, <2>a, <2>b, <2>c DEF Kill, Step, Verdict
  <2>14. CASE Delete
    BY <2>14, <2>a, <2>b, <2>c DEF Delete, Step, Empty
  <2>15. CASE UNCHANGED vars
    BY <2>15, <2>b, <2>c DEF vars
  <2>16. QED
    BY <2>1, <2>2, <2>3, <2>4, <2>5, <2>6, <2>7, <2>8, <2>9, <2>10, <2>11,
       <2>12, <2>13, <2>14, <2>15 DEF Next, Proceed
<1>3. QED
  BY <1>1, <1>2, TypeCorrect, PTL DEF Spec

\* Whoever starts, stops, fails or dies at whatever point of _initialize: the
\* file is as it was found, or was empty and has the whole schema.
THEOREM SchemaStaysWhole == Spec => []SchemaIsWhole
<1>1. SafeInv => SchemaIsWhole
  BY DEF SafeInv
<1>2. QED
  BY <1>1, SafeInvInductive, PTL

\* Wrappers serve the whole schema, or a file that came with a version of its
\* own not newer than the code; they refuse others for what they are, and never
\* create a table twice.
THEOREM VerdictsAreRight == Spec => []VerdictIsRight
<1>1. SafeInv => VerdictIsRight
  BY DEF SafeInv
<1>2. QED
  BY <1>1, SafeInvInductive, PTL
=============================================================================
