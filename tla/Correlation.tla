----------------------------- MODULE Correlation -----------------------------
(***************************************************************************)
(* What the nonce header promises (docs/replay-semantics.md, "Correlation")*)
(* whatever the tables look like: a replay issues its nonce once, one      *)
(* business request at most is ever taken for that replay, and only while  *)
(* the nonce is open.  Nothing is said of when a nonce is closed: by its   *)
(* claim, by the end of its replay or by a clear.                          *)
(***************************************************************************)
EXTENDS TLAPS

CONSTANTS Requests, Replays, Null

VARIABLES
    issued,     \* replays whose nonce was handed out
    open,       \* nonces that a request may still claim
    observed    \* request -> the replay it was taken for, or Null

abstractVars == <<issued, open, observed>>

AbstractTypeOK ==
    /\ issued \subseteq Replays
    /\ open \subseteq Replays
    /\ observed \in [Requests -> Replays \cup {Null}]

AbstractInit ==
    /\ issued = {}
    /\ open = {}
    /\ observed = [r \in Requests |-> Null]

Issue(p) ==
    /\ p \notin issued
    /\ issued' = issued \cup {p}
    /\ open' = open \cup {p}
    /\ UNCHANGED observed

Claim(r, p) ==
    /\ p \in open
    /\ observed[r] = Null
    /\ observed' = [observed EXCEPT ![r] = p]
    /\ open' = open \ {p}
    /\ UNCHANGED issued

Close(gone) ==
    /\ open' = open \ gone
    /\ UNCHANGED <<issued, observed>>

AbstractNext ==
    \/ \E p \in Replays : Issue(p)
    \/ \E r \in Requests, p \in Replays : Claim(r, p)
    \/ \E gone \in SUBSET Replays : Close(gone)

AbstractSpec == AbstractInit /\ [][AbstractNext]_abstractVars

\* No two requests are ever taken for the same replay.
ClaimedOnce ==
    \A r, s \in Requests :
        observed[r] = observed[s] /\ observed[r] # Null => r = s

-----------------------------------------------------------------------------
(* Proof. *)

\* A nonce that some request was taken for was issued and is closed for good.
ClaimedIsClosed ==
    \A r \in Requests :
        observed[r] # Null => observed[r] \in issued \ open

AbstractInv == AbstractTypeOK /\ open \subseteq issued /\ ClaimedIsClosed /\ ClaimedOnce

\* The promise of the correlation nonce: whatever is issued, claimed and
\* closed, and in whatever order, one request at most is taken for a replay.
THEOREM AbstractlyClaimedOnce == AbstractSpec => [](AbstractTypeOK /\ ClaimedOnce)
<1>1. AbstractInit => AbstractInv
  BY DEF AbstractInit, AbstractInv, AbstractTypeOK, ClaimedIsClosed, ClaimedOnce
<1>2. AbstractInv /\ [AbstractNext]_abstractVars => AbstractInv'
  <2> SUFFICES ASSUME AbstractInv, [AbstractNext]_abstractVars
               PROVE  AbstractInv'
    OBVIOUS
  <2> USE DEF AbstractInv, AbstractTypeOK, ClaimedIsClosed, ClaimedOnce
  <2>1. ASSUME NEW p \in Replays, Issue(p) PROVE AbstractInv'
    BY <2>1 DEF Issue
  <2>2. ASSUME NEW r \in Requests, NEW p \in Replays, Claim(r, p)
        PROVE  AbstractInv'
    BY <2>2 DEF Claim
  <2>3. ASSUME NEW gone \in SUBSET Replays, Close(gone) PROVE AbstractInv'
    BY <2>3 DEF Close
  <2>4. CASE UNCHANGED abstractVars
    BY <2>4 DEF abstractVars
  <2>5. QED
    BY <2>1, <2>2, <2>3, <2>4 DEF AbstractNext
<1>3. AbstractInv => AbstractTypeOK /\ ClaimedOnce
  BY DEF AbstractInv
<1>4. QED
  BY <1>1, <1>2, <1>3, PTL DEF AbstractSpec
=============================================================================
