----------------------- MODULE ReplayTransport_proofs -----------------------
(***************************************************************************)
(* Proofs about ReplayTransport, for any addresses, limits and time-outs.  *)
(***************************************************************************)
EXTENDS ReplayTransport, FiniteSetTheorems, SequenceTheorems, TLAPS

\* The steps at which the target was accepted, the peer was compared with it,
\* and bytes may be on the way.
Accepted == {"connect", "handshake", "check", "request", "sending", "respond", "read"}
Compared == {"request", "sending", "respond", "read"}
Sending  == {"sending", "respond", "read"}

\* What each step of the thread knows of the target and of the peer; "over"
\* and "escaped" know only what sent tells.
Vetted == RiskyTarget => allow_risky

TransportInv ==
    /\ step \in Step
    /\ step \in Accepted => network_attempted /\ Vetted /\ 1 \in DOMAIN addresses
    /\ step \in Compared => peer = addresses[1]
    /\ step \notin {"over", "escaped"} => (sent # "none" <=> step \in Sending)
    /\ step = "escaped" => sent = "none"
    /\ step # "over" => error_stage = ""
    /\ sent # "none" =>
          /\ network_attempted
          /\ Vetted
          /\ 1 \in DOMAIN addresses
          /\ peer = addresses[1]
          /\ error_stage # "validation"

\* An answer of the resolver has a first address.
LEMMA AnswerHasHead ==
    ASSUME NEW answer \in Answers
    PROVE  1 \in DOMAIN answer
<1>1. PICK n \in 1..Cardinality(Addresses) : answer \in [1..n -> Addresses]
  BY DEF Answers
<1>2. n \in Nat /\ n >= 1
  BY <1>1, TransportAssumption, FS_CardinalityType
<1>3. DOMAIN answer = 1..n
  BY <1>1
<1>4. QED
  BY <1>2, <1>3

\* TransportInv is inductive: one case for each step of the thread.
LEMMA TransportInvInductive == Spec => []TransportInv
<1>1. Init => TransportInv
  BY DEF Init, TransportInv, Step, Accepted, Compared, Sending
<1>2. TransportInv /\ [Next]_vars => TransportInv'
  <2> SUFFICES ASSUME TransportInv, [Next]_vars PROVE TransportInv'
    OBVIOUS
  <2> USE DEF TransportInv, Step, Accepted, Compared, Sending, Vetted, Fail, GoOn,
              RiskyTarget, givenVars, socketVars
  <2>1. CASE Refuse
    BY <2>1 DEF Refuse
  <2>2. CASE Resolve
    <3>1. 1 \in DOMAIN addresses'
      BY <2>2, AnswerHasHead DEF Resolve
    <3>2. QED
      BY <2>2, <3>1 DEF Resolve
  <2>3. CASE Escape
    BY <2>3 DEF Escape
  <2>4. CASE Connect
    BY <2>4 DEF Connect
  <2>5. CASE Handshake
    BY <2>5 DEF Handshake
  <2>6. CASE CheckPeer
    BY <2>6 DEF CheckPeer
  <2>7. CASE SendHead
    BY <2>7 DEF SendHead
  <2>8. CASE SendBody
    BY <2>8 DEF SendBody
  <2>9. CASE GetResponse
    BY <2>9 DEF GetResponse
  <2>10. CASE ReadChunk
    BY <2>10 DEF ReadChunk
  <2>11. CASE ReadEnd
    BY <2>11 DEF ReadEnd
  <2>12. CASE TimesOut
    BY <2>12 DEF TimesOut
  <2>13. CASE Breaks
    BY <2>13 DEF Breaks, Stages
  <2>14. CASE UNCHANGED vars
    BY <2>14 DEF vars, attemptVars
  <2>15. QED
    BY <2>1, <2>2, <2>3, <2>4, <2>5, <2>6, <2>7, <2>8, <2>9, <2>10, <2>11, <2>12,
       <2>13, <2>14 DEF Next
<1>3. QED
  BY <1>1, <1>2, PTL DEF Spec

-----------------------------------------------------------------------------

\* The page never says "was not sent" of a request that may have left.
THEOREM SentIsAlwaysAnnounced == Spec => []SentIsAnnounced
<1>1. TransportInv => SentIsAnnounced
  BY DEF TransportInv, SentIsAnnounced
<1>2. QED
  BY <1>1, TransportInvInductive, PTL

\* An outcome of stage "validation" always means that nothing was sent.
THEOREM ValidationIsBeforeSending == Spec => []ValidationMeansUnsent
<1>1. TransportInv => ValidationMeansUnsent
  BY DEF TransportInv, ValidationMeansUnsent
<1>2. QED
  BY <1>1, TransportInvInductive, PTL

\* Bytes go to the first address of the answer only, and only if no address in
\* the answer is risky or the risk was confirmed.
THEOREM OnlyVettedIsSentTo == Spec => []SentToVetted
<1>1. TransportInv => SentToVetted
  BY DEF TransportInv, SentToVetted, Vetted, RiskyTarget
<1>2. QED
  BY <1>1, TransportInvInductive, PTL

\* Every step of the transport is a step of ReplayPhases or stays in a phase.
THEOREM TransportImplementsPhases == Spec => ImplementsPhases
<1>1. Init => Phases!PhaseInit
  BY DEF Init, Phases!PhaseInit
<1>2. TransportInv /\ [Next]_vars => [Phases!PhaseNext]_(Phases!phaseVars)
  <2> SUFFICES ASSUME TransportInv, [Next]_vars
               PROVE  Phases!PhaseNext \/ UNCHANGED Phases!phaseVars
    OBVIOUS
  <2> USE DEF TransportInv, Sending, Fail, GoOn, givenVars, socketVars,
              Phases!phaseVars, Phases!PhaseNext
  <2>1. CASE Refuse
    BY <2>1 DEF Refuse, Phases!Decide
  <2>2. CASE Resolve
    BY <2>2 DEF Resolve, Phases!Decide
  <2>3. CASE Escape
    BY <2>3 DEF Escape, Phases!Decide, Phases!Send
  <2>4. CASE Connect
    BY <2>4 DEF Connect
  <2>5. CASE Handshake
    BY <2>5 DEF Handshake
  <2>6. CASE CheckPeer
    BY <2>6 DEF CheckPeer, Phases!Send
  <2>7. CASE SendHead
    BY <2>7 DEF SendHead, Phases!Send
  <2>8. CASE SendBody
    BY <2>8 DEF SendBody
  <2>9. CASE GetResponse
    BY <2>9 DEF GetResponse
  <2>10. CASE ReadChunk
    BY <2>10 DEF ReadChunk
  <2>11. CASE ReadEnd
    BY <2>11 DEF ReadEnd, Phases!Settle
  <2>12. CASE TimesOut
    BY <2>12 DEF TimesOut, Phases!Send, Phases!Settle
  <2>13. CASE Breaks
    BY <2>13 DEF Breaks, Stages, Phases!Send, Phases!Settle
  <2>14. CASE UNCHANGED vars
    BY <2>14 DEF vars, attemptVars
  <2>15. QED
    BY <2>1, <2>2, <2>3, <2>4, <2>5, <2>6, <2>7, <2>8, <2>9, <2>10, <2>11, <2>12,
       <2>13, <2>14 DEF Next
<1>3. QED
  BY <1>1, <1>2, TransportInvInductive, PTL
     DEF Spec, ImplementsPhases, Phases!PhaseSpec

-----------------------------------------------------------------------------

\* The kept bytes are the first ones at every turn of the read loop, and only
\* its end makes a response of them.
Kept(n) == IF n < Limit THEN n ELSE Limit

PrefixInv ==
    /\ total \in Nat
    /\ captured = [i \in 1..Kept(total) |-> i]
    /\ step # "over" => response = Null
    /\ ResponseIsPrefix

\* What a chunk adds to the copy is what comes next, up to the limit.
LEMMA ChunkExtends ==
    ASSUME NEW n \in Nat, NEW size \in Nat, NEW room \in Nat,
           room = Limit - Kept(n)
    PROVE  [i \in 1..Kept(n) |-> i]
               \o [i \in 1..(IF size < room THEN size ELSE room) |-> n + i]
           = [i \in 1..Kept(n + size) |-> i]
<1> DEFINE more == IF size < room THEN size ELSE room
           old  == [i \in 1..Kept(n) |-> i]
           new  == [i \in 1..more |-> n + i]
<1>1. Limit \in Nat
  BY TransportAssumption
<1>2. Kept(n) \in Nat /\ more \in Nat /\ Kept(n) + more = Kept(n + size)
  BY <1>1 DEF Kept
<1>3. more > 0 => Kept(n) = n
  BY <1>1 DEF Kept
<1>4. /\ old \in Seq(Nat) /\ Len(old) = Kept(n)
      /\ new \in Seq(Nat) /\ Len(new) = more
  BY <1>2
<1>5. /\ old \o new \in Seq(Nat) /\ Len(old \o new) = Kept(n + size)
      /\ \A i \in 1..Kept(n + size) :
             (old \o new)[i] = IF i <= Kept(n) THEN old[i] ELSE new[i - Kept(n)]
  <2> HIDE DEF old, new, more
  <2>1. /\ old \o new \in Seq(Nat) /\ Len(old \o new) = Len(old) + Len(new)
        /\ \A i \in 1..(Len(old) + Len(new)) :
               (old \o new)[i] = IF i <= Len(old) THEN old[i] ELSE new[i - Len(old)]
    BY <1>4, ConcatProperties, Zenon
  <2>2. QED
    BY <1>2, <1>4, <2>1
<1>6. \A i \in 1..Kept(n + size) : (old \o new)[i] = i
  <2> SUFFICES ASSUME NEW i \in 1..Kept(n + size)
               PROVE  (old \o new)[i] = i
    OBVIOUS
  <2>1. CASE i <= Kept(n)
    BY <1>2, <1>5, <2>1
  <2>2. CASE ~(i <= Kept(n))
    <3>1. more > 0 /\ i - Kept(n) \in 1..more
      BY <1>2, <2>2
    <3>2. new[i - Kept(n)] = n + (i - Kept(n)) /\ Kept(n) = n
      BY <1>3, <3>1
    <3>3. QED
      BY <1>5, <2>2, <3>2
  <2>3. QED
    BY <2>1, <2>2
<1>7. [i \in 1..Kept(n + size) |-> i] \in Seq(Nat)
      /\ Len([i \in 1..Kept(n + size) |-> i]) = Kept(n + size)
  <2>1. Kept(n + size) \in Nat
    BY <1>1 DEF Kept
  <2>2. QED
    BY <2>1
<1>8. QED
  BY <1>5, <1>6, <1>7, SeqEqual

\* PrefixInv is inductive.
LEMMA PrefixInvInductive == Spec => []PrefixInv
<1>1. Init => PrefixInv
  <2> SUFFICES ASSUME Init PROVE PrefixInv
    OBVIOUS
  <2>1. total = 0 /\ response = Null /\ captured = <<>>
    BY DEF Init
  <2>2. Kept(total) = 0
    BY <2>1, TransportAssumption DEF Kept
  <2>3. [i \in 1..Kept(total) |-> i] \in Seq(Nat) /\ Len([i \in 1..Kept(total) |-> i]) = 0
    BY <2>2
  <2>4. captured = [i \in 1..Kept(total) |-> i]
    BY <2>1, <2>3, EmptySeq
  <2>5. QED
    BY <2>1, <2>4 DEF PrefixInv, ResponseIsPrefix
<1>2. PrefixInv /\ [Next]_vars => PrefixInv'
  <2> SUFFICES ASSUME PrefixInv, [Next]_vars PROVE PrefixInv'
    OBVIOUS
  <2> USE DEF PrefixInv
  <2>2. CASE ReadChunk
    <3>1. PICK size \in 1..(MaxResponse - total) :
              LET room == Limit - Len(captured)
              IN  /\ total' = total + size
                  /\ captured' = IF room > 0
                                 THEN captured \o [i \in 1..(IF size < room THEN size ELSE room)
                                                      |-> total + i]
                                 ELSE captured
      BY <2>2 DEF ReadChunk
    <3>2. Limit \in Nat /\ MaxResponse \in Nat /\ size \in Nat
      BY <3>1, TransportAssumption
    <3>3. Kept(total) \in Nat /\ Len(captured) = Kept(total)
      BY <3>2 DEF Kept
    <3>4. CASE Limit - Len(captured) > 0
      <4>1. Limit - Kept(total) \in Nat
        BY <3>2, <3>3, <3>4
      <4>2. captured' = [i \in 1..Kept(total) |-> i]
                \o [i \in 1..(IF size < Limit - Kept(total) THEN size ELSE Limit - Kept(total))
                       |-> total + i]
        BY <3>1, <3>3, <3>4
      <4>3. captured' = [i \in 1..Kept(total') |-> i]
        BY <3>1, <3>2, <4>1, <4>2, ChunkExtends
      <4>4. total' \in Nat
        BY <3>1, <3>2
      <4>5. response' = Null /\ step' = "read"
        BY <2>2 DEF ReadChunk, GoOn
      <4>6. QED
        BY <4>3, <4>4, <4>5 DEF ResponseIsPrefix
    <3>5. CASE ~(Limit - Len(captured) > 0)
      <4>1. Kept(total) = Limit /\ Kept(total') = Limit
        <5>1. total \in Nat /\ total' = total + size /\ ~(total < Limit)
          BY <3>1, <3>2, <3>3, <3>5 DEF Kept
        <5>2. QED
          BY <3>2, <5>1 DEF Kept
      <4>2. captured' = captured /\ total' \in Nat
        <5>1. captured' = captured /\ total' = total + size
          BY <3>1, <3>5, Zenon
        <5>2. QED
          BY <3>2, <5>1
      <4>3. captured' = [i \in 1..Kept(total') |-> i]
        BY <4>1, <4>2
      <4>4. response' = Null /\ step' = "read"
        BY <2>2 DEF ReadChunk, GoOn
      <4>5. QED
        BY <4>2, <4>3, <4>4 DEF ResponseIsPrefix
    <3>6. QED
      BY <3>4, <3>5
  <2>3. CASE ReadEnd
    <3>1. CASE peer \in Risky /\ ~RiskyTarget
      BY <2>3, <3>1 DEF ReadEnd, Fail, socketVars, ResponseIsPrefix
    <3>2. CASE ~(peer \in Risky /\ ~RiskyTarget)
      <4>1. /\ total' = total /\ captured' = captured /\ step' = "over"
            /\ response' = [body |-> captured, size |-> total, truncated |-> total > Limit]
        BY <2>3, <3>2 DEF ReadEnd, socketVars
      <4>2. Len(captured) = Kept(total) /\ Limit \in Nat
        BY TransportAssumption DEF Kept
      <4>3. (total > Limit) <=> total # Len(captured)
        BY <4>2 DEF Kept
      <4>4. response'.truncated <=> response'.size # Len(response'.body)
        BY <4>1, <4>3, Zenon
      <4>5. response'.size = total' /\ response'.body = captured'
        BY <4>1
      <4>6. captured' = [i \in 1..(IF total' < Limit THEN total' ELSE Limit) |-> i]
        BY <4>1 DEF Kept
      <4>7. ResponseIsPrefix'
        BY <4>4, <4>5, <4>6 DEF ResponseIsPrefix
      <4>8. QED
        BY <4>1, <4>7
    <3>3. QED
      BY <3>1, <3>2
  <2>4. CASE Refuse \/ Resolve \/ Escape \/ Connect \/ Handshake \/ CheckPeer \/ SendHead
             \/ SendBody \/ GetResponse \/ TimesOut \/ Breaks \/ UNCHANGED vars
    <3>1. UNCHANGED <<total, captured, response>> /\ (step' = step \/ step # "over")
      BY <2>4 DEF Refuse, Resolve, Escape, Connect, Handshake, CheckPeer, SendHead, SendBody,
         GetResponse, TimesOut, Breaks, Stages, Fail, GoOn, socketVars, attemptVars, vars
    <3>2. QED
      BY <3>1 DEF ResponseIsPrefix
  <2>5. QED
    BY <2>2, <2>3, <2>4 DEF Next
<1>3. QED
  BY <1>1, <1>2, PTL DEF Spec

\* What a complete attempt says of the response is its beginning, up to the
\* limit, and its true size.
THEOREM ResponsesArePrefixes == Spec => []ResponseIsPrefix
<1>1. PrefixInv => ResponseIsPrefix
  BY DEF PrefixInv
<1>2. QED
  BY <1>1, PrefixInvInductive, PTL
-----------------------------------------------------------------------------

\* What a chunk adds to the copy stays within the limit.
LEMMA ChunkFits ==
    ASSUME TypeOK, ReadChunk
    PROVE  /\ total' \in 0..MaxResponse
           /\ captured' \in Seq(Nat) /\ Len(captured') <= Limit
<1>1. Limit \in Nat /\ MaxResponse \in Nat
  BY TransportAssumption
<1>2. total \in Nat /\ captured \in Seq(Nat) /\ Len(captured) \in Nat /\ Len(captured) <= Limit
  <2>1. total \in 0..MaxResponse /\ captured \in Seq(Nat) /\ Len(captured) <= Limit
    BY Zenon DEF TypeOK
  <2>2. QED
    BY <1>1, <2>1
<1> DEFINE room == Limit - Len(captured)
<1>3. PICK size \in 1..(MaxResponse - total) :
          /\ total' = total + size
          /\ captured' = IF room > 0
                         THEN captured \o [i \in 1..(IF size < room THEN size ELSE room)
                                              |-> total + i]
                         ELSE captured
  BY DEF ReadChunk
<1>4. total' \in 0..MaxResponse
  BY <1>1, <1>2, <1>3
<1>5. room \in Nat
  BY <1>1, <1>2
<1> DEFINE more == IF size < room THEN size ELSE room
           new  == [i \in 1..more |-> total + i]
<1>6. more \in Nat /\ more <= room
  BY <1>3, <1>5
<1>7. new \in Seq(Nat) /\ Len(new) = more
  <2> HIDE DEF more
  <2>1. \A i \in 1..more : total + i \in Nat
    BY <1>2, <1>6
  <2>2. QED
    BY <1>6, <2>1
<1>8. captured \o new \in Seq(Nat) /\ Len(captured \o new) = Len(captured) + more
  <2> HIDE DEF new, more
  <2>1. QED
    BY <1>2, <1>7
<1>9. Len(captured) + more <= Limit
  <2> HIDE DEF more
  <2>1. QED
    BY <1>1, <1>2, <1>6
<1>10. captured' = captured \o new \/ captured' = captured
  BY <1>3
<1> HIDE DEF new, more
<1>11. QED
  BY <1>2, <1>4, <1>8, <1>9, <1>10

\* Whatever the resolver, the sockets and the peer do: the thread is at one of
\* its steps, the copy within its limit, and an outcome is an error exactly
\* when it has a stage.
THEOREM TypeCorrect == Spec => []TypeOK
<1> DEFINE Outcome == /\ state \in {"pending", "complete", "error"}
                      /\ error_stage \in Stage
                      /\ (state = "error") <=> (error_stage # "")
<1>0. Timeout \in Nat \ {0} /\ Limit \in Nat /\ MaxResponse \in Nat
  BY TransportAssumption
<1>1. Init => TypeOK
  <2> SUFFICES ASSUME Init PROVE TypeOK
    OBVIOUS
  <2>1. {secure, allow_risky, network_attempted} \subseteq BOOLEAN
    BY Zenon DEF Init
  <2>2. captured \in Seq(Nat) /\ Len(captured) <= Limit
    <3>1. captured = <<>>
      BY Zenon DEF Init
    <3>2. QED
      BY <1>0, <3>1
  <2>3. /\ step = "resolve" /\ addresses = <<>> /\ peer = Null /\ sent = "none" /\ total = 0
        /\ state = "pending" /\ error_stage = "" /\ elapsed = 0
    BY Zenon DEF Init
  <2>4. total \in 0..MaxResponse /\ elapsed \in Nat
    <3>1. total = 0 /\ elapsed = 0
      BY <2>3
    <3>2. 0 \in 0..MaxResponse /\ 0 \in Nat
      BY <1>0
    <3>3. QED
      BY <3>1, <3>2, Zenon
  <2>5. /\ step \in Step /\ error_stage \in Stage
        /\ state \in {"pending", "complete", "error"} /\ sent \in {"none", "part", "all"}
    BY <2>3 DEF Step, Stage
  <2>6. state # "error" /\ ~(error_stage # "")
    BY <2>3
  <2>7. QED
    BY <2>1, <2>2, <2>3, <2>4, <2>5, <2>6, Zenon DEF TypeOK
<1>2. TypeOK /\ TransportInv /\ [Next]_vars => TypeOK'
  <2> SUFFICES ASSUME TypeOK, TransportInv, [Next]_vars PROVE TypeOK'
    OBVIOUS
  <2> USE DEF socketVars, givenVars
  <2>1. CASE UNCHANGED vars
    BY <2>1, Zenon DEF TypeOK, vars, attemptVars
  <2>2. CASE ReadChunk
    <3>1. /\ UNCHANGED <<step, givenVars, addresses, attemptVars, peer, sent>>
          /\ elapsed' \in elapsed..(elapsed + Timeout - 1)
      BY <2>2 DEF ReadChunk, GoOn, Works, attemptVars
    <3>2. elapsed' \in Nat
      <4>1. elapsed \in Nat
        BY Zenon DEF TypeOK
      <4>2. QED
        BY <1>0, <3>1, <4>1
    <3>3. QED
      BY <2>2, <3>1, <3>2, ChunkFits DEF TypeOK, attemptVars
  <2>3. CASE ~ReadChunk /\ Next
    <3>1. Outcome'
      <4>1. ASSUME NEW stage \in Stage \ {""}, Fail(stage) PROVE Outcome'
        BY <4>1 DEF Fail
      <4>2. ASSUME NEW next, GoOn(next) PROVE Outcome'
        BY <4>2 DEF GoOn, TypeOK
      <4>3. CASE ReadEnd
        <5>1. step = "read" /\ error_stage = ""
          BY <4>3 DEF ReadEnd, TransportInv
        <5>2. Fail("validation") \/ (state' = "complete" /\ error_stage' = error_stage)
          BY <4>3 DEF ReadEnd
        <5>3. QED
          BY <4>1, <5>1, <5>2 DEF Stage
      <4>4. CASE Breaks \/ TimesOut
        <5>1. \E stage \in Stage \ {""} : Fail(stage)
          BY <4>4 DEF Breaks, Stages, TimesOut, Stage
        <5>2. QED
          BY <4>1, <5>1
      <4>5. CASE \/ Refuse \/ Resolve \/ Escape \/ Connect \/ Handshake \/ CheckPeer
                 \/ SendHead \/ SendBody \/ GetResponse
        <5>1. Fail("validation") \/ \E next : GoOn(next)
          BY <4>5, Zenon DEF Refuse, Resolve, Escape, Connect, Handshake, CheckPeer,
             SendHead, SendBody, GetResponse
        <5>2. QED
          BY <4>1, <4>2, <5>1 DEF Stage
      <4>6. QED
        BY <2>3, <4>3, <4>4, <4>5 DEF Next
    <3>2. UNCHANGED <<total, captured, secure, allow_risky>>
      BY <2>3, Zenon DEF Next, Refuse, Resolve, Escape, Connect, Handshake, CheckPeer,
         SendHead, SendBody, GetResponse, ReadEnd, TimesOut, Breaks
    <3>3. elapsed' \in Nat
      <4>1. \/ elapsed' = elapsed \/ elapsed' = elapsed + Timeout
            \/ elapsed' \in elapsed..(elapsed + Timeout - 1)
        BY <2>3, Zenon DEF Next, Refuse, Resolve, Escape, Connect, Handshake, CheckPeer,
           SendHead, SendBody, GetResponse, ReadEnd, TimesOut, Breaks, Works
      <4>2. elapsed \in Nat
        BY Zenon DEF TypeOK
      <4>3. QED
        BY <1>0, <4>1, <4>2
    <3>4. step' \in Step
      BY <2>3 DEF Next, Refuse, Resolve, Escape, Connect, Handshake, CheckPeer, SendHead,
         SendBody, GetResponse, ReadEnd, TimesOut, Breaks, Fail, GoOn, Step
    <3>5. addresses' \in Answers \cup {<<>>} /\ network_attempted' \in BOOLEAN
      <4>1. \/ UNCHANGED <<addresses, network_attempted>>
            \/ addresses' \in Answers /\ network_attempted' \in {network_attempted, TRUE}
        BY <2>3, Zenon DEF Next, Refuse, Resolve, Escape, Connect, Handshake, CheckPeer,
           SendHead, SendBody, GetResponse, ReadEnd, TimesOut, Breaks
      <4>2. QED
        BY <4>1 DEF TypeOK
    <3>6. peer' \in Addresses \cup {Null} /\ sent' \in {"none", "part", "all"}
      BY <2>3 DEF Next, Refuse, Resolve, Escape, Connect, Handshake, CheckPeer, SendHead,
         SendBody, GetResponse, ReadEnd, TimesOut, Breaks, TypeOK
    <3>7. QED
      BY <3>1, <3>2, <3>3, <3>4, <3>5, <3>6 DEF TypeOK
  <2>4. QED
    BY <2>1, <2>2, <2>3
<1>3. QED
  BY <1>1, <1>2, TransportInvInductive, PTL DEF Spec
=============================================================================
