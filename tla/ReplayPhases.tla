---------------------------- MODULE ReplayPhases ----------------------------
(***************************************************************************)
(* What one replay may do, as seen from outside: from its submission to    *)
(* the answer to the browser, and when its request may be on the network.  *)
(* InspectorCore is this for many replays over the store, ReplayTransport  *)
(* is the part from "evaluate" to "store" in detail.                       *)
(***************************************************************************)
VARIABLES
    phase,      \* as InspectorCore's replay[p]
    onWire      \* has any byte of the request left?

phaseVars == <<phase, onWire>>

PhaseInit ==
    /\ phase \in {"idle", "evaluate"}
    /\ onWire = FALSE

\* Nothing leaves before the attempt is committed, and without it nothing is
\* evaluated.
Prepare ==
    /\ \/ phase = "idle" /\ phase' = "create"
       \/ phase = "create" /\ phase' \in {"evaluate", "refused"}
    /\ UNCHANGED onWire

Decide ==
    /\ phase = "evaluate"
    /\ phase' \in {"send", "store", "refused"}
    /\ UNCHANGED onWire

\* The request leaves once, or a connection fails before.
Send ==
    /\ phase = "send"
    /\ \/ phase' = "wait" /\ onWire' = TRUE
       \/ phase' \in {"store", "refused"} /\ UNCHANGED onWire

\* What has been sent has an outcome: an exception never hides it.
Settle ==
    /\ phase = "wait"
    /\ phase' = "store"
    /\ UNCHANGED onWire

Finish ==
    /\ phase = "store"
    /\ phase' = "done"
    /\ UNCHANGED onWire

\* The worker dies.
Die ==
    /\ phase \in {"create", "evaluate", "send", "wait", "store"}
    /\ phase' = "killed"
    /\ UNCHANGED onWire

PhaseNext == Prepare \/ Decide \/ Send \/ Settle \/ Finish \/ Die

PhaseSpec == PhaseInit /\ [][PhaseNext]_phaseVars
=============================================================================
