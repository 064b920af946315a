--------------------------- MODULE ReplayTransport ---------------------------
(***************************************************************************)
(* The network half of one replay: the try block of replay_exchange in     *)
(* replay/service.py with resolve_target (replay/target.py) and            *)
(* send_request (replay/transport.py).  Resolver, sockets and peer are     *)
(* external: each socket operation works, takes REPLAY_TIMEOUT and raises, *)
(* or raises something else.  The bytes of the response are numbered, so   *)
(* the first n of them are 1..n.                                           *)
(***************************************************************************)
EXTENDS Integers, Sequences, FiniteSets

CONSTANTS
    Addresses,      \* addresses a name may resolve to
    Risky,          \* those address_is_risky is true of
    Limit,          \* CAPTURE_MAX_BYTES
    MaxResponse,    \* bound: bytes of response
    Timeout,        \* REPLAY_TIMEOUT, in ticks
    Null

ASSUME TransportAssumption ==
    /\ Risky \subseteq Addresses
    /\ IsFiniteSet(Addresses)
    /\ Null \notin Addresses
    /\ {Limit, MaxResponse} \subseteq Nat
    /\ Timeout \in Nat \ {0}

VARIABLES
    step,               \* where the thread is
    secure,             \* https?
    allow_risky,
    addresses,          \* ReplayTarget.addresses
    network_attempted,
    peer,               \* getpeername
    sent,               \* "none" of the request has left, "part" may have, "all"
    total,
    captured,
    state,              \* of the attempt
    error_stage,
    response,           \* what the attempt says of the response, or Null
    elapsed             \* time spent in socket operations

attemptVars == <<network_attempted, state, error_stage, response>>
socketVars  == <<peer, sent, total, captured>>
givenVars   == <<secure, allow_risky>>
vars == <<step, givenVars, addresses, attemptVars, socketVars, elapsed>>

Step == {"resolve", "connect", "handshake", "check", "request", "sending",
         "respond", "read", "over", "escaped"}
Stage == {"", "validation", "connect", "tls", "timeout", "read"}

\* getaddrinfo's answer, each address once.
Answers == {s \in UNION {[1..n -> Addresses] : n \in 1..Cardinality(Addresses)} :
               \A i, j \in DOMAIN s : s[i] = s[j] => i = j}

TypeOK ==
    /\ step \in Step
    /\ {secure, allow_risky, network_attempted} \subseteq BOOLEAN
    /\ addresses \in Answers \cup {<<>>}
    /\ peer \in Addresses \cup {Null}
    /\ sent \in {"none", "part", "all"}
    /\ total \in 0..MaxResponse
    /\ captured \in Seq(Nat) /\ Len(captured) <= Limit
    /\ state \in {"pending", "complete", "error"}
    /\ error_stage \in Stage
    /\ (state = "error") <=> (error_stage # "")
    /\ elapsed \in Nat

Init ==
    /\ step = "resolve"
    /\ secure \in BOOLEAN
    /\ allow_risky \in BOOLEAN
    /\ addresses = <<>>
    /\ network_attempted = FALSE
    /\ peer = Null
    /\ sent = "none"
    /\ total = 0
    /\ captured = <<>>
    /\ state = "pending"
    /\ error_stage = ""
    /\ response = Null
    /\ elapsed = 0

-----------------------------------------------------------------------------
(* Outcomes. *)
\* TargetError (stage "validation") or ReplayTransportError is caught.
Fail(stage) ==
    /\ step' = "over"
    /\ state' = "error"
    /\ error_stage' = stage
    /\ UNCHANGED response

GoOn(next) ==
    /\ step' = next
    /\ UNCHANGED <<state, error_stage, response>>

\* A socket operation that works takes less than the time-out.
Works == elapsed' \in elapsed..(elapsed + Timeout - 1)

RiskyTarget == \E i \in DOMAIN addresses : addresses[i] \in Risky

-----------------------------------------------------------------------------
(* resolve_target *)

\* can_replay is false, the URL is not acceptable, or the lookup fails.
Refuse ==
    /\ step = "resolve"
    /\ Fail("validation")
    /\ UNCHANGED <<givenVars, addresses, network_attempted, socketVars, elapsed>>
\* Mutated form: the answer is not looked at.
ResolveUnvetted ==
    /\ step = "resolve"
    /\ addresses' \in Answers
    /\ GoOn("connect") /\ network_attempted' = TRUE
    /\ UNCHANGED <<givenVars, socketVars, elapsed>>

\* Mutated form: network_attempted is set when the response is there.
ResolveUnannounced ==
    /\ step = "resolve"
    /\ addresses' \in Answers
    /\ GoOn("connect")
    /\ UNCHANGED <<givenVars, network_attempted, socketVars, elapsed>>

\* The lookup, and the confirmation a risky target needs.
Resolve ==
    /\ step = "resolve"
    /\ addresses' \in Answers
    /\ IF RiskyTarget' /\ ~allow_risky
       THEN Fail("validation") /\ UNCHANGED network_attempted
       ELSE GoOn("connect") /\ network_attempted' = TRUE
    /\ UNCHANGED <<givenVars, socketVars, elapsed>>

\* ValueError or UnicodeError, of urlsplit, the lookup or putheader: caught by
\* neither try.
Escape ==
    /\ step \in {"resolve", "request"}
    /\ GoOn("escaped")
    /\ UNCHANGED <<givenVars, addresses, network_attempted, socketVars, elapsed>>

-----------------------------------------------------------------------------
(* send_request *)

\* Connects to the first address; the peer is what the socket then reports.
Connect ==
    /\ step = "connect"
    /\ peer' \in Addresses
    /\ GoOn(IF secure THEN "handshake" ELSE "check")
    /\ Works
    /\ UNCHANGED <<givenVars, addresses, network_attempted, sent, total, captured>>

Handshake ==
    /\ step = "handshake"
    /\ GoOn("check")
    /\ Works
    /\ UNCHANGED <<givenVars, addresses, network_attempted, socketVars>>
\* Mutated form: the peer is only looked at afterwards.
CheckNoPeer ==
    /\ step = "check"
    /\ GoOn("request")
    /\ UNCHANGED <<givenVars, addresses, network_attempted, socketVars, elapsed>>

CheckPeer ==
    /\ step = "check"
    /\ IF peer # addresses[1] THEN Fail("validation") ELSE GoOn("request")
    /\ UNCHANGED <<givenVars, addresses, network_attempted, socketVars, elapsed>>

\* endheaders sends the head, then the body.
SendHead ==
    /\ step = "request"
    /\ sent' = "part"
    /\ GoOn("sending")
    /\ Works
    /\ UNCHANGED <<givenVars, addresses, network_attempted, peer, total, captured>>

SendBody ==
    /\ step = "sending"
    /\ sent' = "all"
    /\ GoOn("respond")
    /\ Works
    /\ UNCHANGED <<givenVars, addresses, network_attempted, peer, total, captured>>

GetResponse ==
    /\ step = "respond"
    /\ GoOn("read")
    /\ Works
    /\ UNCHANGED <<givenVars, addresses, network_attempted, socketVars>>
\* Mutated form: a chunk is kept whole while there is any room.
ReadChunkWhole ==
    /\ step = "read"
    /\ \E size \in 1..(MaxResponse - total) :
        /\ total' = total + size
        /\ captured' = IF Limit > Len(captured)
                       THEN captured \o [i \in 1..size |-> total + i]
                       ELSE captured
    /\ GoOn("read")
    /\ Works
    /\ UNCHANGED <<givenVars, addresses, network_attempted, peer, sent>>

ReadChunk ==
    /\ step = "read"
    /\ \E size \in 1..(MaxResponse - total) :
        LET room == Limit - Len(captured)
        IN  /\ total' = total + size
            /\ captured' = IF room > 0
                           THEN captured \o [i \in 1..(IF size < room THEN size ELSE room)
                                                |-> total + i]
                           ELSE captured
    /\ GoOn("read")
    /\ Works
    /\ UNCHANGED <<givenVars, addresses, network_attempted, peer, sent>>

\* An empty read ends the loop; the attempt is complete unless the peer turns
\* out to be risky after all.
ReadEnd ==
    /\ step = "read"
    /\ IF peer \in Risky /\ ~RiskyTarget
       THEN Fail("validation")
       ELSE /\ step' = "over"
            /\ state' = "complete"
            /\ response' = [body |-> captured, size |-> total,
                            truncated |-> total > Limit]
            /\ UNCHANGED error_stage
    /\ Works
    /\ UNCHANGED <<givenVars, addresses, network_attempted, socketVars>>
\* Mutated form: the time-out is given to connect only.
TimesOutConnecting ==
    /\ step \in {"connect", "handshake"}
    /\ Fail("timeout")
    /\ elapsed' = elapsed + Timeout
    /\ UNCHANGED <<givenVars, addresses, network_attempted, socketVars>>

TimesOut ==
    /\ step \in {"connect", "handshake", "sending", "respond", "read"}
    /\ Fail("timeout")
    /\ elapsed' = elapsed + Timeout
    /\ UNCHANGED <<givenVars, addresses, network_attempted, socketVars>>

\* OSError is "connect" at every step, after the request was sent too, and
\* so is HTTPException "read", before it was sent too (an illegal path).
Stages ==
    LET exchanging == step \in {"sending", "respond", "read"}
    IN  {stage \in Stage :
            \/ stage = "connect" /\ (step \in {"connect", "handshake", "check"} \/ exchanging)
            \/ stage = "tls" /\ (step = "handshake" \/ (secure /\ exchanging))
            \/ stage = "read" /\ (step = "request" \/ exchanging)}
\* Mutated form: HTTPException is not caught.
BreaksUncaught ==
    /\ \E stage \in Stages : IF stage = "read" THEN GoOn("escaped") ELSE Fail(stage)
    /\ Works
    /\ UNCHANGED <<givenVars, addresses, network_attempted, socketVars>>

Breaks ==
    /\ \E stage \in Stages : Fail(stage)
    /\ Works
    /\ UNCHANGED <<givenVars, addresses, network_attempted, socketVars>>

-----------------------------------------------------------------------------

Next ==
    \/ Refuse \/ Resolve \/ Escape
    \/ Connect \/ Handshake \/ CheckPeer
    \/ SendHead \/ SendBody \/ GetResponse \/ ReadChunk \/ ReadEnd
    \/ TimesOut \/ Breaks

Spec == Init /\ [][Next]_vars

\* The thread itself goes on, the resolver answers, and a socket operation
\* that nothing else ends is ended by its time-out: connect gives it to the
\* socket.  Of the peer nothing is assumed but that its response is finite
\* (MaxResponse): the time-out is for each read, see EndsInTime.
FairSpec ==
    /\ Spec
    /\ WF_vars(Refuse \/ Resolve \/ CheckPeer)
    /\ WF_vars(step = "request" /\ (SendHead \/ Breaks \/ Escape))
    /\ WF_vars(TimesOut)

-----------------------------------------------------------------------------

\* Whenever a byte of the request may have left, network_attempted says so: it
\* decides between "may have been sent" and "was not sent" on the page.
SentIsAnnounced == sent # "none" => network_attempted

\* An outcome of stage "validation" is a refusal: nothing had left.  The check
\* of the peer after the response never fires, the one before covers it.
ValidationMeansUnsent == error_stage = "validation" => sent = "none"

\* Bytes go only to the address that was vetted: the first of the answer, and
\* with a risky address in the answer only after confirmation.
SentToVetted ==
    sent # "none" =>
        /\ peer = addresses[1]
        /\ peer \in Risky => allow_risky

\* A complete attempt keeps the beginning of the response, without gap or
\* excess, and its true size.
ResponseIsPrefix ==
    response # Null =>
        /\ response.size = total
        /\ response.body = [i \in 1..(IF total < Limit THEN total ELSE Limit) |-> i]
        /\ response.truncated <=> response.size # Len(response.body)

Phases ==
    INSTANCE ReplayPhases WITH
        phase <- IF step = "resolve" THEN "evaluate"
                 ELSE IF step \in {"connect", "handshake", "check", "request"} THEN "send"
                 ELSE IF step \in {"sending", "respond", "read"} THEN "wait"
                 ELSE IF step = "over" THEN "store" ELSE "refused",
        onWire <- sent # "none"

\* The transport keeps to the phases InspectorCore knows; above all, no
\* exception escapes once bytes have left.
ImplementsPhases == Phases!PhaseSpec

\* A peer that falls silent, at whatever step, does not hold the replay (and
\* the worker that runs it) for ever.
Settles == <>(step \in {"over", "escaped"})

\* "A replay has a total time-out, and it must end the attempt."
EndsInTime == elapsed <= Timeout
=============================================================================
