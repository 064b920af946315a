--------------------------- MODULE MCWorkerStartup ---------------------------
(***************************************************************************)
(* Two wrappers of one process and one of another, the four statements of  *)
(* SCHEMA_V1, one process that dies and one deletion of the file.  The     *)
(* file is new, the Inspector's, of a newer Inspector, or another          *)
(* program's: with no version, with version 1, with a negative one.        *)
(***************************************************************************)
EXTENDS WorkerStartup

CONSTANTS w1, w2, w3, p1, p2

MCWorkers == {w1, w2, w3}
MCProcesses == {p1, p2}
MCProcessOf == [w \in MCWorkers |-> IF w = w3 THEN p2 ELSE p1]
MCFound == {Empty, Whole} \cup [version : {-1, 0, 1, 2}, tables : {{Foreign}}]
=============================================================================
