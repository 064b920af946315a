--------------------------- MODULE MCInspectorCore ---------------------------
(* InspectorCore on a few requests and replays, for TLC. *)
EXTENDS InspectorCore, TLC

\* No action tells two requests, or two replays, apart.
Actors == Permutations(Requests) \cup Permutations(Replays)
=============================================================================
