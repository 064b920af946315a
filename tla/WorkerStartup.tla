---------------------------- MODULE WorkerStartup ----------------------------
(***************************************************************************)
(* Wrappers that start on one database file: InspectorWSGI.__init__        *)
(* (wrapper/wsgi.py) around InspectorRepository.__init__ and _initialize   *)
(* (storage/repository.py), over the statements of storage/schema.py.  A   *)
(* process may hold several wrappers, which share _initialization_lock;    *)
(* processes meet only in the file, under SQLite's write lock.  Processes  *)
(* die at any step, an I/O error ends any step, and the user may delete    *)
(* the file between two uses of it.                                        *)
(***************************************************************************)
EXTENDS Integers, FiniteSets

CONSTANTS
    Workers,        \* wrappers
    Processes,
    ProcessOf,      \* the process a wrapper lives in
    Statements,     \* statements in SCHEMA_V1
    Foreign,        \* a table that SCHEMA_V1 does not know
    Found,          \* files a first start may find, of whatever program
    Nobody,         \* no holder of a lock
    MaxKills,       \* bound: processes that die
    MaxDeletes      \* bound: times the user deletes the file

ASSUME StartupAssumption ==
    /\ ProcessOf \in [Workers -> Processes]
    /\ Nobody \notin Workers
    /\ Statements \in Nat \ {0}
    /\ Foreign \notin Nat
    /\ {MaxKills, MaxDeletes} \subseteq Nat

VARIABLES
    pc,             \* where each wrapper is
    verdict,        \* why its repository is an UnavailableRepository, or "none"
    initLock,       \* holder of each process's _initialization_lock
    writer,         \* holder of SQLite's write lock
    file,           \* what is committed
    journal,        \* the file's journal mode
    draft,          \* what the transaction under the write lock sees
    statement,      \* of SCHEMA_V1, the one that transaction executes next
    given,          \* history: the file as it was found
    stale,          \* history: wrappers that settled on a file since deleted
    kills, deletes

fileVars  == <<file, journal, given>>
txnVars   == <<draft, statement>>
boundVars == <<kills, deletes>>
vars == <<pc, verdict, initLock, writer, fileVars, txnVars, stale, boundVars>>

SchemaVersion == 1

\* user_version is a signed integer that any program may have set.  Views,
\* which _initialize does not look for either, are left out.
File == [version : Int, tables : SUBSET (1..Statements \cup {Foreign})]

ASSUME FoundAssumption == Found \subseteq File

Empty == [version |-> 0, tables |-> {}]
Whole == [version |-> SchemaVersion, tables |-> 1..Statements]

InTransaction == {"check", "create", "commit"}
Initialising  == {"wal", "switching", "begin"} \cup InTransaction
Starting      == {"waiting"} \cup Initialising
Serving       == {"up", "writing"}

TypeOK ==
    /\ pc \in [Workers -> {"off", "unavailable"} \cup Starting \cup Serving]
    /\ verdict \in [Workers -> {"none", "locked", "newer", "foreign", "exists", "io"}]
    /\ initLock \in [Processes -> Workers \cup {Nobody}]
    /\ writer \in Workers \cup {Nobody}
    /\ file \in File /\ draft \in File /\ given \in File
    /\ journal \in {"rollback", "wal", "fixed"}
    /\ statement \in 1..(Statements + 1)
    /\ stale \subseteq Workers
    /\ kills \in 0..MaxKills
    /\ deletes \in 0..MaxDeletes

\* "fixed": a file system on which SQLite answers PRAGMA journal_mode=WAL
\* with the mode the file has.
Init ==
    /\ pc = [w \in Workers |-> "off"]
    /\ verdict = [w \in Workers |-> "none"]
    /\ initLock = [p \in Processes |-> Nobody]
    /\ writer = Nobody
    /\ file \in Found
    /\ journal \in {"rollback", "wal", "fixed"}
    /\ draft = Empty
    /\ statement = 1
    /\ given = file
    /\ stale = {}
    /\ kills = 0
    /\ deletes = 0

-----------------------------------------------------------------------------
(* Steps of _initialize. *)

Goto(w, step) == pc' = [pc EXCEPT ![w] = step]

\* connection.close() gives up whatever lock the connection has.
Unlocked(w) == IF writer = w THEN Nobody ELSE writer
\* Mutated form: _initialization_lock is released on success only.
FailLocked(w, why) ==
    /\ Goto(w, "unavailable")
    /\ verdict' = [verdict EXCEPT ![w] = why]
    /\ writer' = Unlocked(w)
    /\ UNCHANGED <<initLock, fileVars, txnVars, stale, boundVars>>

\* The exception rolls back, closes the connection, leaves the with block and
\* becomes an UnavailableRepository.
Fail(w, why) ==
    /\ Goto(w, "unavailable")
    /\ verdict' = [verdict EXCEPT ![w] = why]
    /\ writer' = Unlocked(w)
    /\ initLock' = [p \in Processes |-> IF initLock[p] = w THEN Nobody
                                                           ELSE initLock[p]]
    /\ UNCHANGED <<fileVars, txnVars, stale, boundVars>>

\* InspectorWSGI(application)
Start(w) ==
    /\ pc[w] = "off"
    /\ Goto(w, "waiting")
    /\ verdict' = [verdict EXCEPT ![w] = "none"]
    /\ stale' = stale \ {w}
    /\ UNCHANGED <<initLock, writer, fileVars, txnVars, boundVars>>

\* with _initialization_lock: connection = self._connect()
Acquire(w) ==
    /\ pc[w] = "waiting"
    /\ initLock[ProcessOf[w]] = Nobody
    /\ initLock' = [initLock EXCEPT ![ProcessOf[w]] = w]
    /\ Goto(w, "wal")
    /\ UNCHANGED <<verdict, writer, fileVars, txnVars, stale, boundVars>>

\* PRAGMA journal_mode=WAL: nothing to switch, or the lock it takes to.
EnableWal(w) ==
    /\ pc[w] = "wal"
    /\ \/ /\ journal # "rollback"
          /\ Goto(w, "begin")
          /\ UNCHANGED writer
       \/ /\ journal = "rollback"
          /\ writer = Nobody
          /\ writer' = w
          /\ Goto(w, "switching")
    /\ UNCHANGED <<verdict, initLock, fileVars, txnVars, stale, boundVars>>

SwitchWal(w) ==
    /\ pc[w] = "switching"
    /\ journal' = "wal"
    /\ writer' = Nobody
    /\ Goto(w, "begin")
    /\ UNCHANGED <<verdict, initLock, file, given, txnVars, stale, boundVars>>

\* BEGIN IMMEDIATE
Begin(w) ==
    /\ pc[w] = "begin"
    /\ writer = Nobody
    /\ writer' = w
    /\ draft' = file
    /\ statement' = 1
    /\ Goto(w, "check")
    /\ UNCHANGED <<verdict, initLock, fileVars, stale, boundVars>>

\* "database is locked" a second later: _enable_wal gives up its retries, or
\* the busy timeout of BEGIN IMMEDIATE runs out.
TimeOut(w) ==
    /\ \/ pc[w] = "wal" /\ journal = "rollback"
       \/ pc[w] = "begin"
    /\ writer # Nobody
    /\ Fail(w, "locked")
\* Mutated form: the version is tested for 0 only.
CheckZeroOnly(w) ==
    /\ pc[w] = "check"
    /\ IF draft.version = 0 /\ draft.tables # {} THEN Fail(w, "foreign")
       ELSE /\ Goto(w, IF draft.version = 0 THEN "create" ELSE "commit")
            /\ UNCHANGED <<verdict, initLock, writer, fileVars, txnVars, stale,
                           boundVars>>

\* PRAGMA user_version and sqlite_master, read under the write lock.
Check(w) ==
    /\ pc[w] = "check"
    /\ IF draft.version > SchemaVersion THEN Fail(w, "newer")
       ELSE IF draft.version = 0 /\ draft.tables # {} THEN Fail(w, "foreign")
       ELSE /\ Goto(w, IF draft.version = 0 THEN "create" ELSE "commit")
            /\ UNCHANGED <<verdict, initLock, writer, fileVars, txnVars, stale,
                           boundVars>>

\* Mutated form: each statement commits.
CreateCommitted(w) ==
    /\ pc[w] = "create"
    /\ statement <= Statements
    /\ draft' = [draft EXCEPT !.tables = @ \cup {statement}]
    /\ file' = draft'
    /\ statement' = statement + 1
    /\ UNCHANGED <<pc, verdict, initLock, writer, journal, given, stale,
                   boundVars>>

\* for statement in SCHEMA_V1: a CREATE of what is there raises.
Create(w) ==
    /\ pc[w] = "create"
    /\ statement <= Statements
    /\ IF statement \in draft.tables THEN Fail(w, "exists")
       ELSE /\ draft' = [draft EXCEPT !.tables = @ \cup {statement}]
            /\ statement' = statement + 1
            /\ UNCHANGED <<pc, verdict, initLock, writer, fileVars, stale,
                           boundVars>>

\* PRAGMA user_version=1, inside the transaction.
SetVersion(w) ==
    /\ pc[w] = "create"
    /\ statement > Statements
    /\ draft' = [draft EXCEPT !.version = SchemaVersion]
    /\ Goto(w, "commit")
    /\ UNCHANGED <<verdict, initLock, writer, fileVars, statement, stale,
                   boundVars>>

\* COMMIT, close, leave the with block: the wrapper has its repository.
Commit(w) ==
    /\ pc[w] = "commit"
    /\ file' = draft
    /\ writer' = Nobody
    /\ initLock' = [initLock EXCEPT ![ProcessOf[w]] = Nobody]
    /\ Goto(w, "up")
    /\ UNCHANGED <<verdict, journal, given, txnVars, stale, boundVars>>

\* mkdir, connect or a statement fails: no permission, disk full.
Breaks(w) ==
    /\ pc[w] \in Starting
    /\ Fail(w, "io")

-----------------------------------------------------------------------------
(* What goes on beside it. *)

\* A wrapper in service holds the write lock for a transaction.
Write(w) ==
    /\ \/ /\ pc[w] = "up"
          /\ writer = Nobody
          /\ writer' = w
          /\ Goto(w, "writing")
       \/ /\ pc[w] = "writing"
          /\ writer' = Nobody
          /\ Goto(w, "up")
    /\ UNCHANGED <<verdict, initLock, fileVars, txnVars, stale, boundVars>>

\* A process dies; SQLite rolls back for it at the next use of the file.
Kill(p) ==
    /\ kills < MaxKills
    /\ kills' = kills + 1
    /\ pc' = [w \in Workers |-> IF ProcessOf[w] = p THEN "off" ELSE pc[w]]
    /\ verdict' = [w \in Workers |-> IF ProcessOf[w] = p THEN "none" ELSE verdict[w]]
    /\ initLock' = [initLock EXCEPT ![p] = Nobody]
    /\ writer' = IF writer \in Workers /\ ProcessOf[writer] = p
                 THEN Nobody ELSE writer
    /\ UNCHANGED <<fileVars, txnVars, stale, deletes>>

\* "The file can be deleted": with its sidecars, while no connection is open.
\* The next connection makes an empty file.
Delete ==
    /\ deletes < MaxDeletes
    /\ deletes' = deletes + 1
    /\ \A w \in Workers : pc[w] \notin Initialising \cup {"writing"}
    /\ file' = Empty
    /\ given' = Empty
    /\ journal' = IF journal = "fixed" THEN journal ELSE "rollback"
    /\ stale' = {w \in Workers : pc[w] \in {"up", "unavailable"}}
    /\ UNCHANGED <<pc, verdict, initLock, writer, txnVars, kills>>

-----------------------------------------------------------------------------

\* One step of a wrapper that is starting, or the end of a transaction.
Proceed(w) ==
    \/ Acquire(w) \/ EnableWal(w) \/ SwitchWal(w) \/ Begin(w) \/ TimeOut(w)
    \/ Check(w) \/ Create(w) \/ SetVersion(w) \/ Commit(w)
    \/ pc[w] = "writing" /\ Write(w)

Next ==
    \/ \E w \in Workers : Proceed(w) \/ Start(w) \/ Breaks(w) \/ Write(w)
    \/ \E p \in Processes : Kill(p)
    \/ Delete

Spec == Init /\ [][Next]_vars

\* Threads run, and no wait of _initialize is longer than its second.
FairSpec == Spec /\ \A w \in Workers : WF_vars(Proceed(w))

-----------------------------------------------------------------------------

\* Whoever starts, stops, fails or dies at whatever point: the file others
\* open is as it was found, or was empty and has the whole schema and its
\* version.  A file of another version or owner is never changed.
SchemaIsWhole ==
    \/ file = given
    \/ given = Empty /\ file = Whole

\* A wrapper that serves has the whole schema, or a file which came with a
\* version of its own, neither 0 nor newer than the code: the tables of such a
\* file nobody looks at, and it may hold none of the Inspector's.  A wrapper
\* that was refused for the file's content was refused rightly, as the file
\* still is; and no two wrappers ever create the same table.
VerdictIsRight ==
    \A w \in Workers \ stale :
        /\ pc[w] \in Serving =>
               \/ file = Whole
               \/ file = given /\ file.version # 0 /\ file.version <= SchemaVersion
        /\ verdict[w] = "newer" => file.version > SchemaVersion
        /\ verdict[w] = "foreign" => file.version = 0 /\ file.tables # {}
        /\ verdict[w] # "exists"

\* Every start ends: with a repository, with an UnavailableRepository, or
\* because the process dies.  No wrapper waits for ever for a lock.
StartSettles ==
    \A w \in Workers :
        pc[w] \in Starting ~> pc[w] \in {"up", "unavailable", "off"}
=============================================================================
