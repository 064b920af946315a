-------------------------- MODULE EditReplay_proofs --------------------------
(***************************************************************************)
(* Proofs about EditReplay, for any captures and texts and any number of   *)
(* submissions and workers: what the endpoint answers is so, what is sent  *)
(* is clean, what was not edited is sent as it was, and it is sent where   *)
(* the request had come.                                                   *)
(***************************************************************************)
EXTENDS EditReplay, SequenceTheorems, WellFoundedInduction, TLAPS

\* What each phase of edit_replay knows of the attempt, the wire and the answer.
HandlerInv ==
    /\ handler \in {"idle", "load", "create", "send", "wait", "store", "over", "dead"}
    /\ handler \notin {"over", "dead"} => answer = Null
    /\ handler \in {"idle", "load", "create"} => attempt = "none"
    /\ handler \in {"idle", "load", "create", "send"} => wire = {}
    /\ handler \in {"send", "wait", "store"} => attempt \in {"pending", "cleared"}
    /\ handler = "wait" => wire # {}
    /\ handler \in {"wait", "store"} => (wire # {} => attempted = TRUE)
    /\ handler = "store" => outcome \in {"complete", "error"}
    /\ handler = "store" /\ outcome = "complete" => wire # {}
    /\ AnswerIsTrue

\* HandlerInv is inductive: one case for each step that touches the server's
\* side, one for the others.
LEMMA HandlerInvInductive == Spec => []HandlerInv
<1>1. Init => HandlerInv
  BY DEF Init, HandlerInv, AnswerIsTrue
<1>2. HandlerInv /\ [Next]_vars => HandlerInv'
  <2> SUFFICES ASSUME HandlerInv, [Next]_vars PROVE HandlerInv'
    OBVIOUS
  <2> USE DEF HandlerInv, AnswerIsTrue, serverVars, attemptVars
  <2>1. CASE UNCHANGED serverVars
    BY <2>1
  <2>2. CASE Disappear
    BY <2>2 DEF Disappear
  <2>3. CASE Restart
    BY <2>3 DEF Restart
  <2>4. CASE Answered
    BY <2>4 DEF Answered
  <2>5. CASE Receive
    BY <2>5 DEF Receive, json_error, Reply, Answer
  <2>6. CASE Load
    BY <2>6 DEF Load, Parse, Raise, json_error, Reply, Answer
  <2>7. CASE Create
    BY <2>7 DEF Create, json_error, Reply, Answer
  <2>8. CASE Send
    BY <2>8, SMTT(60) DEF Send, json_error, Reply, Answer
  <2>9. CASE Wait
    BY <2>9 DEF Wait
  <2>10. CASE Store
    BY <2>10 DEF Store, Reply, Answer
  <2>11. CASE Complete \/ Render \/ Edit \/ Type \/ Cancel \/ Submit \/ PollNotices
    <3>1. UNCHANGED serverVars
      BY <2>11 DEF Complete, Render, Edit, Type, Cancel, Submit, PollNotices
    <3>2. QED
      BY <2>1, <3>1
  <2>12. CASE UNCHANGED vars
    BY <2>1, <2>12 DEF vars
  <2>13. QED
    BY <2>2, <2>3, <2>4, <2>5, <2>6, <2>7, <2>8, <2>9, <2>10, <2>11, <2>12 DEF Next
<1>3. QED
  BY <1>1, <1>2, PTL DEF Spec

\* An error of edit_replay that does not say "may have been sent" left nothing
\* on the network, a 4xx made no attempt, and a reported outcome is stored.
THEOREM AnswersAreTrue == Spec => []AnswerIsTrue
<1>1. HandlerInv => AnswerIsTrue
  BY DEF HandlerInv
<1>2. QED
  BY <1>1, HandlerInvInductive, PTL

-----------------------------------------------------------------------------
(* Subsequence, by induction on the length of the sequence. *)

\* A set of naturals with 0 and all successors has all naturals.
LEMMA Naturals ==
    ASSUME NEW T, 0 \in T, \A n \in Nat : n \in T => n + 1 \in T
    PROVE  Nat \subseteq T
<1> DEFINE S == Nat \ T
<1> SUFFICES ASSUME S # {} PROVE FALSE
  OBVIOUS
<1>1. \E x \in S : \A y \in S : ~(<<y, x>> \in OpToRel(<, Nat))
  <2>1. S \subseteq Nat
    OBVIOUS
  <2> HIDE DEF S
  <2>2. QED
    BY <2>1, NatLessThanWellFounded, WFMin, Zenon
<1>2. PICK x \in S : \A y \in S : ~(<<y, x>> \in OpToRel(<, Nat))
  BY <1>1
<1>3. \A y \in S : ~(y < x)
  BY <1>2, Zenon DEF OpToRel
<1>4. x # 0 /\ x \in Nat
  OBVIOUS
<1>5. x - 1 \in Nat /\ x - 1 < x /\ (x - 1) + 1 = x
  BY <1>4
<1>6. x - 1 \in T
  BY <1>3, <1>5
<1>7. QED
  BY <1>5, <1>6

\* A set of sequences with the empty one that is closed under Append has all.
LEMMA Sequences ==
    ASSUME NEW H, NEW T, <<>> \in T, \A s \in Seq(H), h \in H : s \in T => Append(s, h) \in T
    PROVE  Seq(H) \subseteq T
<1> DEFINE N == {n \in Nat : \A s \in Seq(H) : Len(s) = n => s \in T}
<1>1. 0 \in N
  <2>1. \A s \in Seq(H) : Len(s) = 0 => s = <<>>
    BY EmptySeq
  <2>2. QED
    BY <2>1
<1>2. ASSUME NEW n \in Nat, n \in N PROVE n + 1 \in N
  <2> SUFFICES ASSUME NEW s \in Seq(H), Len(s) = n + 1 PROVE s \in T
    BY <1>2
  <2> DEFINE front == [i \in 1..n |-> s[i]]
  <2>1. front \in Seq(H) /\ Len(front) = n /\ s[n + 1] \in H
    OBVIOUS
  <2>2. s = Append(front, s[n + 1])
    OBVIOUS
  <2> HIDE DEF front
  <2>3. front \in T
    BY <1>2, <2>1
  <2>4. QED
    BY <2>1, <2>2, <2>3
<1> HIDE DEF N
<1>3. Nat \subseteq N
  BY <1>1, <1>2, Naturals
<1>4. QED
  BY <1>3 DEF N

\* f[i] is what Subsequence takes of the first i items.
IsUpto(f, s, kept, n) ==
    f = [i \in 0..n |-> IF i = 0 THEN <<>>
            ELSE IF i \in kept THEN Append(f[i - 1], s[i]) ELSE f[i - 1]]

\* There is such a function, for every n.
LEMMA UptoExists ==
    ASSUME NEW s, NEW kept, NEW n \in Nat
    PROVE  \E f : IsUpto(f, s, kept, n)
<1> DEFINE T == {m \in Nat : \E f : IsUpto(f, s, kept, m)}
<1>1. 0 \in T
  <2>1. IsUpto([i \in 0..0 |-> <<>>], s, kept, 0)
    BY DEF IsUpto
  <2>2. QED
    BY <2>1
<1>2. ASSUME NEW m \in Nat, m \in T PROVE m + 1 \in T
  <2>1. PICK f : IsUpto(f, s, kept, m)
    BY <1>2
  <2> DEFINE last == IF m + 1 \in kept THEN Append(f[m], s[m + 1]) ELSE f[m]
             g    == [i \in 0..(m + 1) |-> IF i = m + 1 THEN last ELSE f[i]]
  <2>2. ASSUME NEW i \in 0..(m + 1)
        PROVE  g[i] = IF i = 0 THEN <<>>
                      ELSE IF i \in kept THEN Append(g[i - 1], s[i]) ELSE g[i - 1]
    <3>1. CASE i = m + 1
      <4>1. g[i] = last /\ g[i - 1] = f[m] /\ i # 0
        BY <3>1
      <4>2. QED
        BY <3>1, <4>1
    <3>2. CASE i # m + 1
      <4>1. i \in 0..m /\ g[i] = f[i]
        BY <3>2
      <4>2. i # 0 => g[i - 1] = f[i - 1]
        BY <4>1
      <4>3. f[i] = IF i = 0 THEN <<>>
                   ELSE IF i \in kept THEN Append(f[i - 1], s[i]) ELSE f[i - 1]
        BY <2>1, <4>1 DEF IsUpto
      <4> HIDE DEF g
      <4>4. QED
        BY <4>1, <4>2, <4>3
    <3>3. QED
      BY <3>1, <3>2
  <2>3. IsUpto(g, s, kept, m + 1)
    <3>1. g = [i \in 0..(m + 1) |-> g[i]]
      OBVIOUS
    <3> HIDE DEF g
    <3>2. QED
      BY <2>2, <3>1, Zenon DEF IsUpto
  <2>4. QED
    BY <2>3
<1> HIDE DEF T
<1>3. Nat \subseteq T
  BY <1>1, <1>2, Naturals
<1>4. QED
  BY <1>3 DEF T

\* What Subsequence computes, one item at a time.
LEMMA Upto ==
    ASSUME NEW s, NEW kept, Len(s) \in Nat
    PROVE  \E f : IsUpto(f, s, kept, Len(s)) /\ Subsequence(s, kept) = f[Len(s)]
<1>1. Subsequence(s, kept) = (CHOOSE f : IsUpto(f, s, kept, Len(s)))[Len(s)]
  BY Zenon DEF Subsequence, IsUpto
<1>2. \E f : IsUpto(f, s, kept, Len(s))
  BY UptoExists
<1>3. QED
  BY <1>1, <1>2, Zenon

\* Of nothing, nothing is taken.
LEMMA SubsequenceOfEmpty ==
    ASSUME NEW kept
    PROVE  Subsequence(<<>>, kept) = <<>>
<1>1. Len(<<>>) = 0
  OBVIOUS
<1>2. PICK f : IsUpto(f, <<>>, kept, 0) /\ Subsequence(<<>>, kept) = f[0]
  BY <1>1, Upto
<1>3. f[0] = <<>>
  BY <1>2 DEF IsUpto
<1>4. QED
  BY <1>2, <1>3

\* The last item comes last, if it is taken.
LEMMA SubsequenceOfAppend ==
    ASSUME NEW H, NEW s \in Seq(H), NEW h \in H, NEW kept, NEW before,
           \A i \in 1..Len(s) : i \in before <=> i \in kept
    PROVE  Subsequence(Append(s, h), kept) =
               IF Len(s) + 1 \in kept THEN Append(Subsequence(s, before), h)
                                      ELSE Subsequence(s, before)
<1> DEFINE n == Len(s)
           t == Append(s, h)
<1>1. /\ n \in Nat /\ Len(t) = n + 1 /\ t[n + 1] = h
      /\ \A i \in 1..n : t[i] = s[i]
  OBVIOUS
<1> HIDE DEF n, t
<1>2. PICK f : IsUpto(f, s, before, n) /\ Subsequence(s, before) = f[n]
  <2>1. Len(s) \in Nat /\ Len(s) = n
    BY DEF n
  <2>2. QED
    BY <2>1, Upto
<1>3. PICK g : IsUpto(g, t, kept, n + 1) /\ Subsequence(t, kept) = g[n + 1]
  <2>1. Len(t) \in Nat
    BY <1>1
  <2>2. QED
    BY <1>1, <2>1, Upto
<1>4. ASSUME NEW m \in Nat, NEW i \in 1..m, NEW p, NEW q, NEW k, IsUpto(p, q, k, m)
      PROVE  p[i] = IF i \in k THEN Append(p[i - 1], q[i]) ELSE p[i - 1]
  <2>1. i \in 0..m /\ i # 0
    OBVIOUS
  <2>2. QED
    BY <1>4, <2>1 DEF IsUpto
<1>5. n + 1 \in Nat
  BY <1>1
<1>6. f[0] = <<>> /\ g[0] = <<>>
  BY <1>1, <1>2, <1>3 DEF IsUpto
<1> DEFINE T == {i \in Nat : i <= n => g[i] = f[i]}
<1>7. 0 \in T
  BY <1>6
<1>8. ASSUME NEW i \in Nat, i \in T PROVE i + 1 \in T
  <2> SUFFICES ASSUME i + 1 <= n PROVE g[i + 1] = f[i + 1]
    OBVIOUS
  <2>1. i + 1 \in 1..n /\ i + 1 \in 1..(n + 1) /\ (i + 1) - 1 = i /\ g[i] = f[i]
    BY <1>1, <1>8
  <2>2. g[i + 1] = IF i + 1 \in kept THEN Append(g[i], t[i + 1]) ELSE g[i]
    BY <1>3, <1>4, <1>5, <2>1
  <2>3. f[i + 1] = IF i + 1 \in before THEN Append(f[i], s[i + 1]) ELSE f[i]
    BY <1>1, <1>2, <1>4, <2>1
  <2>4. (i + 1 \in before <=> i + 1 \in kept) /\ t[i + 1] = s[i + 1]
    BY <1>1, <2>1 DEF n
  <2>5. QED
    BY <2>1, <2>2, <2>3, <2>4
<1> HIDE DEF T
<1>9. Nat \subseteq T
  BY <1>7, <1>8, Naturals
<1>10. g[n] = f[n]
  BY <1>1, <1>9 DEF T
<1>11. g[n + 1] = IF n + 1 \in kept THEN Append(g[n], h) ELSE g[n]
  <2>1. n + 1 \in 1..(n + 1) /\ (n + 1) - 1 = n
    BY <1>1
  <2>2. QED
    BY <1>1, <1>3, <1>4, <1>5, <2>1
<1>12. QED
  BY <1>2, <1>3, <1>10, <1>11 DEF n, t

\* The items of s that are in P.
Among(s, P) == Subsequence(s, {i \in DOMAIN s : s[i] \in P})

\* Item by item.
LEMMA AmongAppend ==
    ASSUME NEW H, NEW s \in Seq(H), NEW h \in H, NEW P
    PROVE  Among(Append(s, h), P) = IF h \in P THEN Append(Among(s, P), h) ELSE Among(s, P)
<1> DEFINE t      == Append(s, h)
           kept   == {i \in DOMAIN t : t[i] \in P}
           before == {i \in DOMAIN s : s[i] \in P}
<1>1. /\ Len(s) \in Nat /\ DOMAIN s = 1..Len(s) /\ DOMAIN t = 1..(Len(s) + 1)
      /\ t[Len(s) + 1] = h /\ \A i \in 1..Len(s) : t[i] = s[i]
  OBVIOUS
<1> HIDE DEF t
<1>2. \A i \in 1..Len(s) : i \in before <=> i \in kept
  BY <1>1
<1>3. Len(s) + 1 \in kept <=> h \in P
  BY <1>1
<1> HIDE DEF kept, before
<1>4. Subsequence(t, kept) = IF Len(s) + 1 \in kept THEN Append(Subsequence(s, before), h)
                                                   ELSE Subsequence(s, before)
  BY <1>2, SubsequenceOfAppend DEF t
<1>5. QED
  BY <1>3, <1>4, Zenon DEF Among, t, kept, before

LEMMA AmongEmpty ==
    ASSUME NEW P
    PROVE  Among(<<>>, P) = <<>>
BY SubsequenceOfEmpty DEF Among

LEMMA AmongType ==
    ASSUME NEW H, NEW P, NEW r \in Seq(H)
    PROVE  Among(r, P) \in Seq(H)
<1> DEFINE T == {s \in Seq(H) : Among(s, P) \in Seq(H)}
<1>1. <<>> \in T
  <2>1. Among(<<>>, P) = <<>> /\ <<>> \in Seq(H)
    BY AmongEmpty
  <2>2. QED
    BY <2>1
<1>2. ASSUME NEW s \in Seq(H), NEW h \in H, s \in T PROVE Append(s, h) \in T
  <2>1. Among(Append(s, h), P) = IF h \in P THEN Append(Among(s, P), h) ELSE Among(s, P)
    BY AmongAppend
  <2>2. Append(s, h) \in Seq(H)
    OBVIOUS
  <2>3. QED
    BY <1>2, <2>1, <2>2
<1> HIDE DEF T
<1>3. Seq(H) \subseteq T
  BY <1>1, <1>2, Sequences
<1>4. QED
  BY <1>3 DEF T

\* To take twice is to take what is in both.
LEMMA AmongAmong ==
    ASSUME NEW H, NEW P, NEW Q, NEW r \in Seq(H)
    PROVE  Among(Among(r, P), Q) = Among(r, P \cap Q)
<1> DEFINE T == {s \in Seq(H) : Among(Among(s, P), Q) = Among(s, P \cap Q)}
<1>1. <<>> \in T
  BY AmongEmpty
<1>2. ASSUME NEW s \in Seq(H), NEW h \in H, s \in T PROVE Append(s, h) \in T
  <2>1. Among(s, P) \in Seq(H) /\ Append(s, h) \in Seq(H)
    BY AmongType
  <2>2. Among(Append(s, h), P) = IF h \in P THEN Append(Among(s, P), h) ELSE Among(s, P)
    BY AmongAppend
  <2>3. Among(Append(s, h), P \cap Q) =
            IF h \in P \cap Q THEN Append(Among(s, P \cap Q), h) ELSE Among(s, P \cap Q)
    BY AmongAppend
  <2>4. Among(Append(Among(s, P), h), Q) =
            IF h \in Q THEN Append(Among(Among(s, P), Q), h) ELSE Among(Among(s, P), Q)
    BY <2>1, AmongAppend
  <2>5. Among(Among(Append(s, h), P), Q) = Among(Append(s, h), P \cap Q)
    <3>1. Among(Among(s, P), Q) = Among(s, P \cap Q)
      BY <1>2
    <3>2. CASE h \in P
      <4>1. Among(Append(s, h), P) = Append(Among(s, P), h) /\ (h \in P \cap Q <=> h \in Q)
        BY <2>2, <3>2
      <4>2. QED
        BY <2>3, <2>4, <3>1, <4>1, Zenon
    <3>3. CASE h \notin P
      <4>1. Among(Append(s, h), P) = Among(s, P) /\ h \notin P \cap Q
        BY <2>2, <3>3
      <4>2. QED
        BY <2>3, <3>1, <4>1, Zenon
    <3>4. QED
      BY <3>2, <3>3
  <2>6. QED
    BY <2>1, <2>5
<1> HIDE DEF T
<1>3. Seq(H) \subseteq T
  BY <1>1, <1>2, Sequences
<1>4. QED
  BY <1>3 DEF T

\* The first item comes first.
LEMMA AmongFirst ==
    ASSUME NEW H, NEW P, NEW x \in H, NEW r \in Seq(H)
    PROVE  Among(<<x>> \o r, P) = Among(<<x>>, P) \o Among(r, P)
<1> DEFINE T == {s \in Seq(H) : Among(<<x>> \o s, P) = Among(<<x>>, P) \o Among(s, P)}
<1>0. <<x>> \in Seq(H) /\ Among(<<x>>, P) \in Seq(H)
  <2>1. <<x>> \in Seq(H)
    OBVIOUS
  <2>2. QED
    BY <2>1, AmongType
<1>1. <<>> \in T
  BY <1>0, AmongEmpty
<1>2. ASSUME NEW s \in Seq(H), NEW h \in H, s \in T PROVE Append(s, h) \in T
  <2>1. /\ Among(s, P) \in Seq(H) /\ <<x>> \o s \in Seq(H)
        /\ <<x>> \o Append(s, h) = Append(<<x>> \o s, h)
    BY AmongType
  <2>2. Among(Append(s, h), P) = IF h \in P THEN Append(Among(s, P), h) ELSE Among(s, P)
    BY AmongAppend
  <2>3. Among(Append(<<x>> \o s, h), P) =
            IF h \in P THEN Append(Among(<<x>> \o s, P), h) ELSE Among(<<x>> \o s, P)
    BY <2>1, AmongAppend
  <2>4. Among(<<x>>, P) \o Append(Among(s, P), h) = Append(Among(<<x>>, P) \o Among(s, P), h)
    BY <1>0, <2>1
  <2>5. Append(s, h) \in Seq(H)
    OBVIOUS
  <2>6. Among(<<x>> \o s, P) = Among(<<x>>, P) \o Among(s, P)
    BY <1>2
  <2>7. Among(<<x>> \o Append(s, h), P) = Among(<<x>>, P) \o Among(Append(s, h), P)
    <3>1. CASE h \in P
      BY <2>1, <2>2, <2>3, <2>4, <2>6, <3>1
    <3>2. CASE h \notin P
      BY <2>1, <2>2, <2>3, <2>6, <3>2
    <3>3. QED
      BY <3>1, <3>2
  <2>8. QED
    BY <2>5, <2>7
<1> HIDE DEF T
<1>3. Seq(H) \subseteq T
  BY <1>1, <1>2, Sequences
<1>4. QED
  BY <1>3 DEF T

\* If all are in P, all are taken, and if none is, none.
LEMMA AmongAll ==
    ASSUME NEW H, NEW r \in Seq(H)
    PROVE  Among(r, H) = r /\ Among(r, {}) = <<>>
<1> DEFINE T == {s \in Seq(H) : Among(s, H) = s /\ Among(s, {}) = <<>>}
<1>1. <<>> \in T
  BY AmongEmpty
<1>2. ASSUME NEW s \in Seq(H), NEW h \in H, s \in T PROVE Append(s, h) \in T
  BY <1>2, AmongAppend
<1> HIDE DEF T
<1>3. Seq(H) \subseteq T
  BY <1>1, <1>2, Sequences
<1>4. QED
  BY <1>3 DEF T

-----------------------------------------------------------------------------
(* What send_request makes of the headers it is given. *)

\* The headers of a name, and those that are not dropped or rebuilt.
NamedIn(H, name) == {h \in H : Lower[h.name] = name}
EndToEnd(H)      == {h \in H : Lower[h.name] \notin HOP_BY_HOP_HEADERS \cup Rebuilt}

\* Named and replay_headers as parts of a sequence.
LEMMA NamedIsAmong ==
    ASSUME NEW H, NEW headers \in Seq(H), NEW name
    PROVE  /\ Named(headers, name) = Among(headers, NamedIn(H, name))
           /\ replay_headers(headers) = Among(headers, EndToEnd(H))
<1>1. \A i \in DOMAIN headers : headers[i] \in H
  OBVIOUS
<1>2. {i \in DOMAIN headers : Lower[headers[i].name] = name}
          = {i \in DOMAIN headers : headers[i] \in NamedIn(H, name)}
  BY <1>1 DEF NamedIn
<1>3. {i \in DOMAIN headers : Lower[headers[i].name] \notin HOP_BY_HOP_HEADERS \cup Rebuilt}
          = {i \in DOMAIN headers : headers[i] \in EndToEnd(H)}
  BY <1>1 DEF EndToEnd
<1>4. QED
  BY <1>2, <1>3, Zenon DEF Named, replay_headers, Among

\* What is left for the wire has no header of a name that is dropped or
\* rebuilt, and all those of any other name.
LEMMA ReplayHeadersNamed ==
    ASSUME NEW H, NEW headers \in Seq(H), NEW name
    PROVE  /\ replay_headers(headers) \in Seq(H)
           /\ Named(replay_headers(headers), name) =
                  IF name \in HOP_BY_HOP_HEADERS \cup Rebuilt THEN <<>>
                                                             ELSE Named(headers, name)
<1> DEFINE N == NamedIn(H, name)
           E == EndToEnd(H)
<1>1. replay_headers(headers) = Among(headers, E) /\ Named(headers, name) = Among(headers, N)
  BY NamedIsAmong
<1>2. replay_headers(headers) \in Seq(H)
  BY <1>1, AmongType
<1>3. Named(replay_headers(headers), name) = Among(replay_headers(headers), N)
  BY <1>2, NamedIsAmong
<1>4. E \cap N = IF name \in HOP_BY_HOP_HEADERS \cup Rebuilt THEN {} ELSE N
  BY DEF NamedIn, EndToEnd
<1> HIDE DEF N, E
<1>5. Among(Among(headers, E), N) = Among(headers, E \cap N)
  BY AmongAmong
<1>6. Among(headers, {}) = <<>>
  BY AmongAll
<1>7. QED
  BY <1>1, <1>2, <1>3, <1>4, <1>5, <1>6

\* A line of the form: the provers do not know that "SP" is in STRING.
TextLine == [name : STRING, value : Seq(STRING \cup {"SP"})]

\* The one header of its name, with one item for a value.
Only(name, item) == <<Header(name, <<item>>)>>

\* The headers on the wire, name by name: those that are rebuilt once each,
\* those that are dropped not at all, all others as they were.
LEMMA WireNamed ==
    ASSUME NEW headers \in Seq(TextLine), NEW target, NEW host, NEW body, NEW name,
           NEW sent, sent = OnWire(target, host, headers, body).headers
    PROVE  /\ name = "host" => Named(sent, name) = Only("host", host)
           /\ name = Nonce => Named(sent, name) = Only(Nonce, Fresh)
           /\ name = "content-length" =>
                  Named(sent, name) = Only("content-length", Len(body))
           /\ name \in HOP_BY_HOP_HEADERS => Named(sent, name) = <<>>
           /\ name \notin HOP_BY_HOP_HEADERS \cup Rebuilt =>
                  Named(sent, name) = Named(headers, name)
<1> DEFINE h1 == Header("host", <<host>>)
           h2 == Header(Nonce, <<Fresh>>)
           h3 == Header("content-length", <<Len(body)>>)
           G  == TextLine \cup {h1, h2, h3}
           N  == NamedIn(G, name)
           R  == replay_headers(headers)
           front == <<h1>> \o R
<1>1. /\ Lower[h1.name] = "host" /\ Lower[h2.name] = Nonce
      /\ Lower[h3.name] = "content-length"
  BY EditAssumption DEF Header, Nonce
<1>2. headers \in Seq(G) /\ h1 \in G /\ h2 \in G /\ h3 \in G
  OBVIOUS
<1>3. /\ h1 \in N <=> name = "host"
      /\ h2 \in N <=> name = Nonce
      /\ h3 \in N <=> name = "content-length"
  BY <1>1, <1>2 DEF NamedIn
<1>4. sent = <<h1>> \o R \o <<h2, h3>>
  BY DEF OnWire
<1> HIDE DEF h1, h2, h3, G
<1>5. /\ R \in Seq(G)
      /\ Named(R, name) = IF name \in HOP_BY_HOP_HEADERS \cup Rebuilt THEN <<>>
                                                             ELSE Named(headers, name)
  BY <1>2, ReplayHeadersNamed
<1> HIDE DEF R
<1>6. sent = Append(Append(front, h2), h3) /\ front \in Seq(G) /\ Append(front, h2) \in Seq(G)
  BY <1>2, <1>4, <1>5
<1>7. Named(sent, name) = Among(sent, N) /\ Named(R, name) = Among(R, N)
  <2>1. sent \in Seq(G)
    BY <1>2, <1>6
  <2>2. QED
    BY <1>5, <2>1, NamedIsAmong
<1> HIDE DEF N, front
<1>8. Among(sent, N) = IF h3 \in N THEN Append(Among(Append(front, h2), N), h3)
                                   ELSE Among(Append(front, h2), N)
  <2> DEFINE most == Append(front, h2)
  <2>1. most \in Seq(G) /\ sent = Append(most, h3)
    BY <1>6
  <2> HIDE DEF most
  <2>2. Among(Append(most, h3), N) = IF h3 \in N THEN Append(Among(most, N), h3)
                                                 ELSE Among(most, N)
    BY <1>2, <2>1, AmongAppend
  <2>3. QED
    BY <2>1, <2>2, Zenon DEF most
<1>9. Among(Append(front, h2), N) = IF h2 \in N THEN Append(Among(front, N), h2)
                                                ELSE Among(front, N)
  BY <1>2, <1>6, AmongAppend
<1>10. Among(front, N) = Among(<<h1>>, N) \o Among(R, N)
  BY <1>2, <1>5, AmongFirst DEF front
<1>11. Among(<<h1>>, N) = IF h1 \in N THEN <<h1>> ELSE <<>>
  <2>1. Append(<<>>, h1) = <<h1>> /\ <<>> \in Seq(G)
    OBVIOUS
  <2>2. Among(Append(<<>>, h1), N) = IF h1 \in N THEN Append(Among(<<>>, N), h1)
                                                 ELSE Among(<<>>, N)
    BY <1>2, <2>1, AmongAppend
  <2>3. QED
    BY <2>1, <2>2, AmongEmpty
<1>12. Among(R, N) \in Seq(G) /\ Among(R, N) = Named(R, name)
  BY <1>5, <1>7, AmongType
<1>13. /\ "host" \in Rebuilt /\ Nonce \in Rebuilt /\ "content-length" \in Rebuilt
       /\ "host" # Nonce /\ "content-length" # Nonce /\ "host" # "content-length"
       /\ HOP_BY_HOP_HEADERS \cap Rebuilt = {}
       /\ Rebuilt = {"host", Nonce, "content-length"}
  BY DEF Rebuilt, Nonce, HOP_BY_HOP_HEADERS
<1> HIDE DEF front
<1>14. CASE name \in Rebuilt
  <2>1. Among(R, N) = <<>>
    BY <1>5, <1>12, <1>14
  <2>2. CASE name = "host"
    <3>1. Among(sent, N) = Among(front, N) /\ Among(front, N) = <<h1>> \o <<>>
      BY <1>3, <1>8, <1>9, <1>10, <1>11, <1>13, <2>1, <2>2
    <3>2. Among(sent, N) = <<h1>>
      BY <3>1
    <3>3. QED
      BY <1>7, <1>13, <2>2, <3>2 DEF h1, Only
  <2>3. CASE name = Nonce
    <3>1. Among(front, N) = <<>> \o <<>> /\ Among(sent, N) = Append(Among(front, N), h2)
      BY <1>3, <1>8, <1>9, <1>10, <1>11, <1>13, <2>1, <2>3
    <3>2. Among(sent, N) = <<h2>>
      BY <3>1
    <3>3. QED
      BY <1>7, <1>13, <2>3, <3>2 DEF h2, Only
  <2>4. CASE name = "content-length"
    <3>1. /\ Among(front, N) = <<>> \o <<>>
          /\ Among(sent, N) = Append(Among(front, N), h3)
      BY <1>3, <1>8, <1>9, <1>10, <1>11, <1>13, <2>1, <2>4
    <3>2. Among(sent, N) = <<h3>>
      BY <3>1
    <3>3. QED
      BY <1>7, <1>13, <2>4, <3>2 DEF h3, Only
  <2>5. QED
    BY <1>13, <1>14, <2>2, <2>3, <2>4
<1>15. CASE name \notin Rebuilt
  <2>1. Among(sent, N) = <<>> \o Among(R, N)
    BY <1>3, <1>8, <1>9, <1>10, <1>11, <1>13, <1>15
  <2>2. Among(sent, N) = Named(R, name)
    BY <1>12, <2>1
  <2>3. QED
    BY <1>5, <1>7, <1>13, <1>15, <2>2
<1>16. QED
  BY <1>14, <1>15

-----------------------------------------------------------------------------
(* What was submitted and what has left. *)

\* The texts of the form have such lines.
LEMMA FormLinesAreTextLines == Seq(FormLine) \subseteq Seq(TextLine)
<1>1. Seq(STRING) \subseteq Seq(STRING \cup {"SP"})
  OBVIOUS
<1>2. FormLine \subseteq TextLine
  BY <1>1 DEF FormLine, TextLine
<1>3. QED
  BY <1>2

\* The texts of a form.
FormText(t) == t = Text(t.headers, t.body) /\ t.headers \in Seq(TextLine)

\* The form stands for the row that the page was rendered from, whose headers
\* are the captured ones; there is no submission without a form.
FormInv ==
    /\ captured \in Captures
    /\ page = "closed" => shown = Null /\ ~editMode /\ ~posted
    /\ shown # Null => /\ shown \in CapturedRow
                       /\ shown.headers = captured.headers /\ shown.type = captured.type
    /\ originalDraft # Null => FormText(draft)
    /\ editMode => originalDraft # Null
    /\ posted => originalDraft # Null /\ FormText(post)

LEMMA OriginalIsText ==
    ASSUME NEW row \in CapturedRow
    PROVE  FormText(Text(headers_to_text(row.headers), Textarea(Decode(row.type, row.body))))
<1> DEFINE hs == row.headers
<1>1. hs \in Seq(TextLine)
  BY FormLinesAreTextLines DEF CapturedRow
<1> HIDE DEF hs
<1> DEFINE line(i) == Header(hs[i].name, <<"SP">> \o hs[i].value)
<1>2. ASSUME NEW i \in DOMAIN hs PROVE line(i) \in TextLine
  <2> DEFINE v == hs[i].value
  <2>1. hs[i] \in TextLine
    BY <1>1
  <2>2. hs[i].name \in STRING /\ v \in Seq(STRING \cup {"SP"})
    BY <2>1 DEF TextLine
  <2> HIDE DEF v
  <2>3. <<"SP">> \o v \in Seq(STRING \cup {"SP"})
    BY <2>2
  <2>4. QED
    BY <2>2, <2>3 DEF TextLine, Header, v
<1>3. DOMAIN hs = 1..Len(hs) /\ Len(hs) \in Nat
  BY <1>1
<1>4. headers_to_text(hs) = [i \in 1..Len(hs) |-> line(i)]
  BY <1>3 DEF headers_to_text
<1>5. \A i \in 1..Len(hs) : line(i) \in TextLine
  BY <1>2, <1>3
<1> HIDE DEF line
<1>6. headers_to_text(hs) \in Seq(TextLine)
  BY <1>3, <1>4, <1>5
<1>7. QED
  BY <1>6 DEF FormText, Text, hs

\* A step that leaves page, row and form alone keeps FormInv.
LEMMA FormInvInductive == Spec => []FormInv
<1>1. Init => FormInv
  <2> SUFFICES ASSUME Init PROVE FormInv
    OBVIOUS
  <2>1. originalDraft = Null
    BY Zenon DEF Init, originalDraft
  <2>2. QED
    BY <2>1 DEF Init, FormInv
<1>2. FormInv /\ [Next]_vars => FormInv'
  <2> SUFFICES ASSUME FormInv, [Next]_vars PROVE FormInv'
    OBVIOUS
  <2> USE DEF rowVars, browserVars, formVars, pageVars
  <2>1. CASE UNCHANGED <<captured, page, shown, draft, editMode, posted, post>>
    BY <2>1, Zenon DEF FormInv, originalDraft
  <2>2. CASE Render
    <3>1. captured' = captured /\ page = "closed" /\ ~editMode /\ ~posted /\ shown = Null
          /\ editMode' = editMode /\ posted' = posted
      BY <2>2 DEF Render, FormInv
    <3>2. CASE page' = "missing" /\ UNCHANGED <<shown, draft>>
      <4>1. originalDraft' = originalDraft
        BY <3>2, Zenon DEF originalDraft
      <4>2. QED
        BY <3>1, <3>2, <4>1 DEF FormInv
    <3>3. CASE page' = "open" /\ shown' = Row /\ draft' = originalDraft'
      <4>1. /\ Row \in CapturedRow
            /\ Row.headers = captured.headers /\ Row.type = captured.type
        <5>1. captured \in CapturedRow
          BY EditAssumption DEF FormInv
        <5> DEFINE pending == [captured EXCEPT !.body = <<>>, !.incomplete = FALSE]
        <5>2. /\ pending \in CapturedRow
              /\ pending.headers = captured.headers /\ pending.type = captured.type
          <6>1. <<>> \in Seq(STRING)
            OBVIOUS
          <6>2. QED
            BY <5>1, <6>1 DEF CapturedRow
        <5> HIDE DEF pending
        <5>3. Row = captured \/ Row = pending
          BY DEF Row, pending
        <5>4. QED
          BY <5>1, <5>2, <5>3
      <4>2. draft' # Null => FormText(draft')
        <5>1. draft' # Null => draft' = Text(headers_to_text(shown'.headers),
                                             Textarea(Decode(shown'.type, shown'.body)))
          BY <3>3, Zenon DEF originalDraft
        <5>2. shown' \in CapturedRow
          BY <3>3, <4>1
        <5>3. FormText(Text(headers_to_text(shown'.headers),
                           Textarea(Decode(shown'.type, shown'.body))))
          BY <5>2, OriginalIsText
        <5>4. QED
          BY <5>1, <5>3
      <4>3. QED
        BY <3>1, <3>3, <4>1, <4>2 DEF FormInv, FormText
    <3>4. QED
      BY <2>2, <3>2, <3>3 DEF Render
  <2>3. CASE Edit \/ Cancel
    <3>1. UNCHANGED <<captured, page, shown, draft, posted, post>>
          /\ (editMode' => originalDraft # Null) /\ page # "closed"
      BY <2>3 DEF Edit, Cancel, FormInv
    <3>2. originalDraft' = originalDraft
      BY <3>1, Zenon DEF originalDraft
    <3>3. QED
      BY <3>1, <3>2 DEF FormInv, FormText
  <2>4. CASE Type
    <3>1. UNCHANGED <<captured, page, shown, editMode, posted, post>> /\ editMode
      BY <2>4 DEF Type
    <3>2. originalDraft' = originalDraft /\ originalDraft # Null
      BY <3>1, Zenon DEF originalDraft, FormInv
    <3>3. FormText(draft) /\ FormText(originalDraft)
      <4>1. shown # Null /\ originalDraft = Text(headers_to_text(shown.headers),
                                                 Textarea(Decode(shown.type, shown.body)))
        BY <3>2, Zenon DEF originalDraft
      <4>2. shown \in CapturedRow
        BY <4>1 DEF FormInv
      <4>3. FormText(Text(headers_to_text(shown.headers),
                         Textarea(Decode(shown.type, shown.body))))
        BY <4>2, OriginalIsText
      <4>4. QED
        BY <3>2, <4>1, <4>3 DEF FormInv
    <3>4. FormText(draft')
      <4>1. CASE \E h \in HeaderTexts : draft' = [draft EXCEPT !.headers = h]
        BY <3>3, <4>1, EditAssumption, FormLinesAreTextLines DEF FormText, Text
      <4>2. CASE \E b \in BodyTexts : draft' = [draft EXCEPT !.body = b]
        BY <3>3, <4>2 DEF FormText, Text
      <4>3. CASE draft' = originalDraft
        BY <3>3, <4>3
      <4>4. QED
        BY <2>4, <4>1, <4>2, <4>3 DEF Type
    <3>5. QED
      BY <3>1, <3>2, <3>4, Zenon DEF FormInv, FormText
  <2>5. CASE Submit
    <3>1. UNCHANGED <<captured, page, shown, draft, editMode>> /\ editMode
          /\ posted' = TRUE /\ post' = draft
      BY <2>5 DEF Submit
    <3>2. originalDraft' = originalDraft /\ originalDraft # Null
      BY <3>1, Zenon DEF originalDraft, FormInv
    <3>3. FormText(draft)
      BY <3>2 DEF FormInv
    <3>4. QED
      BY <3>1, <3>2, <3>3 DEF FormInv, FormText
  <2>6. CASE Answered
    <3>1. UNCHANGED <<captured, page, shown, draft, editMode>> /\ posted' = FALSE
      BY <2>6 DEF Answered
    <3>2. originalDraft' = originalDraft
      BY <3>1, Zenon DEF originalDraft
    <3>3. QED
      BY <3>1, <3>2 DEF FormInv, FormText
  <2>7. CASE \/ Complete \/ Disappear \/ Restart \/ PollNotices \/ Receive \/ Load
             \/ Create \/ Send \/ Wait \/ Store \/ UNCHANGED vars
    <3>1. UNCHANGED <<captured, page, shown, draft, editMode, posted, post>>
      BY <2>7 DEF Complete, Disappear, Restart, PollNotices, Receive, Load, Create,
         Send, Wait, Store, vars
    <3>2. QED
      BY <2>1, <3>1
  <2>8. QED
    BY <2>2, <2>3, <2>4, <2>5, <2>6, <2>7 DEF Next
<1>3. QED
  BY <1>1, <1>2, PTL DEF Spec

\* The lines that are not empty.
Written(H) == {h \in H : h # EmptyLine}

LEMMA NonEmptyIsAmong ==
    ASSUME NEW H, NEW text \in Seq(H)
    PROVE  NonEmpty(text) = Among(text, Written(H))
<1>1. \A i \in DOMAIN text : text[i] \in H
  OBVIOUS
<1>2. {i \in DOMAIN text : text[i] # EmptyLine} = {i \in DOMAIN text : text[i] \in Written(H)}
  BY <1>1 DEF Written
<1>3. QED
  BY <1>2, Zenon DEF NonEmpty, Among

LEMMA ParsedType ==
    ASSUME NEW text \in Seq(TextLine)
    PROVE  parse_headers(text) \in Seq(TextLine)
<1> DEFINE lines   == NonEmpty(text)
           item(i) == Header(lines[i].name, Value(lines[i]))
<1>1. lines \in Seq(TextLine)
  BY NonEmptyIsAmong, AmongType
<1>2. parse_headers(text) = [i \in DOMAIN lines |-> item(i)]
  BY DEF parse_headers
<1> HIDE DEF lines
<1>3. DOMAIN lines = 1..Len(lines) /\ Len(lines) \in Nat
  BY <1>1
<1>4. ASSUME NEW i \in 1..Len(lines) PROVE item(i) \in TextLine
  <2> DEFINE line == lines[i]
             v    == line.value
  <2>1. line \in TextLine
    BY <1>1, <1>3
  <2>2. line.name \in STRING /\ v \in Seq(STRING \cup {"SP"})
    BY <2>1 DEF TextLine
  <2>3. Value(line) = IF v # <<>> /\ Head(v) = "SP" THEN Tail(v) ELSE v
    BY Zenon DEF Value
  <2> HIDE DEF v
  <2>4. Value(line) \in Seq(STRING \cup {"SP"})
    BY <2>2, <2>3
  <2>5. QED
    BY <2>2, <2>4 DEF TextLine, Header
<1> HIDE DEF item
<1>5. QED
  BY <1>2, <1>3, <1>4

\* The body fits the Content-Type that was submitted with it.
Encoded == encode_edited_body(parse_headers(post.headers), post.body) = "encoded"

\* From its load to its answer edit_replay works for a submission, passes on
\* only what fits, and sends it as it was parsed.
WireInv ==
    /\ handler # "idle" => posted
    /\ handler = "idle" => wire = {}
    /\ handler \in {"create", "send"} => Encoded
    /\ \A request \in wire :
           /\ Encoded
           /\ request = OnWire(request_target(captured.url), captured.url.host,
                               parse_headers(post.headers),
                               EditedBytes(parse_headers(post.headers), post.body))

\* Only Submit and Answered change the submission, and only Send the wire.
LEMMA WireInvInductive == Spec => []WireInv
<1>1. Init => WireInv
  BY DEF Init, WireInv
<1>2. WireInv /\ [Next]_vars => WireInv'
  <2> SUFFICES ASSUME WireInv, [Next]_vars PROVE WireInv'
    OBVIOUS
  <2> DEFINE Outgoing == OnWire(request_target(captured.url), captured.url.host,
                                parse_headers(post.headers),
                                EditedBytes(parse_headers(post.headers), post.body))
  <2> USE DEF rowVars, browserVars, serverVars, attemptVars
  <2>1. ASSUME UNCHANGED <<captured, post, wire>>,
               handler' # "idle" => posted',
               handler' = "idle" => wire = {},
               handler' \in {"create", "send"} => Encoded
        PROVE  WireInv'
    BY <2>1 DEF WireInv, Encoded
  <2>2. CASE UNCHANGED <<captured, handler, posted, post, wire>>
    BY <2>1, <2>2 DEF WireInv
  <2>3. CASE Submit
    <3>1. handler = "idle" /\ wire = {} /\ UNCHANGED <<handler, wire>>
      BY <2>3 DEF Submit, WireInv
    <3>2. QED
      BY <3>1 DEF WireInv
  <2>4. CASE Answered
    BY <2>4 DEF Answered, WireInv
  <2>5. CASE Restart
    <3>1. /\ UNCHANGED <<captured, posted, post, wire>>
          /\ handler' = IF handler = "idle" THEN "idle" ELSE "dead"
      BY <2>5 DEF Restart
    <3>2. QED
      BY <2>1, <3>1 DEF WireInv
  <2>6. CASE Receive
    <3>1. /\ UNCHANGED <<captured, posted, post, wire>> /\ posted
          /\ handler' \in {"over", "load"}
      BY <2>6 DEF Receive, json_error, Reply
    <3>2. QED
      BY <2>1, <3>1 DEF WireInv
  <2>7. CASE Load
    <3>1. UNCHANGED <<captured, posted, post, wire>> /\ handler = "load"
      BY <2>7 DEF Load
    <3>2. \/ handler' = "over"
          \/ handler' = "create" /\ Encoded
      BY <2>7 DEF Load, Parse, Raise, json_error, Reply, Encoded
    <3>3. QED
      BY <2>1, <3>1, <3>2 DEF WireInv
  <2>8. CASE Create
    <3>1. /\ UNCHANGED <<captured, posted, post, wire>> /\ handler = "create"
          /\ handler' \in {"over", "send"}
      BY <2>8 DEF Create, json_error, Reply
    <3>2. QED
      BY <2>1, <3>1 DEF WireInv
  <2>9. CASE Send
    <3>1. /\ UNCHANGED <<captured, posted, post>> /\ handler = "send"
          /\ handler' \in {"over", "store", "wait"}
          /\ wire' \in {wire, wire \cup {Outgoing}}
      BY <2>9 DEF Send, json_error, Reply
    <3> HIDE DEF Outgoing
    <3>2. CASE wire' = wire
      BY <2>1, <3>1, <3>2 DEF WireInv
    <3>3. CASE wire' = wire \cup {Outgoing}
      <4>1. Outgoing' = Outgoing /\ Encoded' = Encoded
        BY <3>1 DEF Outgoing, Encoded
      <4>2. \A request \in wire' : Encoded /\ request = Outgoing
        BY <3>1, <3>3 DEF WireInv, Outgoing
      <4>3. handler' # "idle" /\ posted' /\ handler' \notin {"create", "send"}
        BY <3>1 DEF WireInv
      <4>4. QED
        BY <4>1, <4>2, <4>3 DEF WireInv, Outgoing
    <3>4. QED
      BY <3>1, <3>2, <3>3
  <2>10. CASE Wait
    <3>1. /\ UNCHANGED <<captured, posted, post, wire>> /\ handler = "wait"
          /\ handler' = "store"
      BY <2>10 DEF Wait
    <3>2. QED
      BY <2>1, <3>1 DEF WireInv
  <2>11. CASE Store
    <3>1. /\ UNCHANGED <<captured, posted, post, wire>> /\ handler = "store"
          /\ handler' = "over"
      BY <2>11 DEF Store, Reply
    <3>2. QED
      BY <2>1, <3>1 DEF WireInv
  <2>12. CASE \/ Complete \/ Disappear \/ Render \/ Edit \/ Type \/ Cancel \/ PollNotices
              \/ UNCHANGED vars
    <3>1. UNCHANGED <<captured, handler, posted, post, wire>>
      BY <2>12 DEF Complete, Disappear, Render, Edit, Type, Cancel, PollNotices, vars
    <3>2. QED
      BY <2>2, <3>1
  <2>13. QED
    BY <2>3, <2>4, <2>5, <2>6, <2>7, <2>8, <2>9, <2>10, <2>11, <2>12 DEF Next
<1>3. QED
  BY <1>1, <1>2, PTL DEF Spec

\* What is encoded and decodes again still fits its Content-Type.
LEMMA EncodedFits ==
    ASSUME NEW type, NEW text, Encodable(type, text), text # <<>> => type \in Textual,
           NEW again, again = Decode(type, Encode(type, text))
    PROVE  Encodable(type, again) /\ (again # <<>> => type \in Textual)
<1>1. CASE type \in Textual /\ type # "latin"
  BY <1>1 DEF Encodable
<1>2. CASE type \in Marked \ Textual
  <2>1. text = <<>> /\ type # "latin"
    BY <1>2 DEF Textual
  <2>2. Encode(type, text) = <<"mark">>
    BY <1>2, <2>1 DEF Encode
  <2>3. again = Tail(<<"mark">>)
    BY <1>2, <2>2 DEF Decode
  <2>4. again = <<>>
    BY <2>3
  <2>5. QED
    BY <2>1, <2>4 DEF Encodable
<1>3. CASE type \notin Marked /\ type # "loose"
  <2>1. again = text
    BY <1>3 DEF Decode, Encode
  <2>2. QED
    BY <2>1
<1>4. QED
  BY <1>1, <1>2, <1>3 DEF Textual, Marked

\* Whatever was captured and typed, a request of Edit & Replay has one Host,
\* nonce and Content-Length, none of the hop-by-hop headers, and a body that
\* its Content-Type allows: what _edited_request (views) and send_request
\* (replay/transport.py) promise together.
THEOREM SentRequestsAreClean == Spec => []SentIsClean
<1>1. FormInv /\ WireInv => SentIsClean
  <2> SUFFICES ASSUME FormInv, WireInv, NEW request \in wire
               PROVE  /\ \A name \in HOP_BY_HOP_HEADERS : Named(request.headers, name) = <<>>
                      /\ Named(request.headers, "host") = <<Header("host", <<captured.url.host>>)>>
                      /\ Named(request.headers, Nonce) = <<Header(Nonce, <<Fresh>>)>>
                      /\ Named(request.headers, "content-length") =
                             <<Header("content-length", <<Len(request.body)>>)>>
                      /\ Encodable(EditedType(request.headers),
                                   Decode(EditedType(request.headers), request.body))
                      /\ Decode(EditedType(request.headers), request.body) # <<>> =>
                             EditedType(request.headers) \in Textual
    BY Zenon DEF SentIsClean
  <2> DEFINE target == request_target(captured.url)
             host   == captured.url.host
             parsed == parse_headers(post.headers)
             body   == EditedBytes(parsed, post.body)
             type   == EditedType(parsed)
             sent   == request.headers
  <2>1. post.headers \in Seq(TextLine)
    BY DEF FormInv, WireInv, FormText
  <2>2. parsed \in Seq(TextLine)
    BY <2>1, ParsedType
  <2>3. /\ sent = OnWire(target, host, parsed, body).headers
        /\ request.body = body /\ Encoded
    BY DEF WireInv, OnWire
  <2> HIDE DEF target, host, parsed, body, sent, type
  <2>4. ASSUME NEW name
        PROVE  /\ name = "host" => Named(sent, name) = Only("host", host)
               /\ name = Nonce => Named(sent, name) = Only(Nonce, Fresh)
               /\ name = "content-length" =>
                      Named(sent, name) = Only("content-length", Len(body))
               /\ name \in HOP_BY_HOP_HEADERS => Named(sent, name) = <<>>
               /\ name \notin HOP_BY_HOP_HEADERS \cup Rebuilt =>
                      Named(sent, name) = Named(parsed, name)
    BY <2>2, <2>3, WireNamed
  <2>5. "content-type" \notin HOP_BY_HOP_HEADERS \cup Rebuilt
    BY DEF Nonce, HOP_BY_HOP_HEADERS, Rebuilt
  <2>6. \A name \in HOP_BY_HOP_HEADERS : Named(request.headers, name) = <<>>
    BY <2>4, <2>5 DEF sent
  <2>7. Named(request.headers, "host") = <<Header("host", <<captured.url.host>>)>>
    BY <2>4 DEF host, sent, Only
  <2>8. Named(request.headers, Nonce) = <<Header(Nonce, <<Fresh>>)>>
    BY <2>4 DEF sent, Only
  <2>9. Named(request.headers, "content-length") =
            <<Header("content-length", <<Len(request.body)>>)>>
    BY <2>3, <2>4 DEF sent, Only
  <2>10. EditedType(request.headers) = EditedType(parsed)
    <3>1. Named(request.headers, "content-type") = Named(parsed, "content-type")
      BY <2>4, <2>5 DEF sent
    <3>2. QED
      BY <3>1, Zenon DEF EditedType
  <2>11. encode_edited_body(parsed, post.body) = "encoded"
    BY <2>3 DEF Encoded, parsed
  <2>12. /\ Encodable(type, post.body)
         /\ post.body # <<>> => type \in Textual
    BY <2>11 DEF encode_edited_body, type
  <2>13. body = Encode(type, post.body)
    BY DEF EditedBytes, body, type
  <2>14. /\ Encodable(type, Decode(type, body))
         /\ Decode(type, body) # <<>> => type \in Textual
    BY <2>12, <2>13, EncodedFits
  <2>15. EditedType(request.headers) = type /\ request.body = body
    BY <2>3, <2>10 DEF type
  <2>16. QED
    BY <2>6, <2>7, <2>8, <2>9, <2>14, <2>15
<1>2. QED
  BY <1>1, FormInvInductive, WireInvInductive, PTL

-----------------------------------------------------------------------------
(* A form that is sent as it came. *)

\* A sequence with one item before it.
LEMMA Prefixed ==
    ASSUME NEW C, NEW c \in C, NEW v \in Seq(C)
    PROVE  /\ <<c>> \o v \in Seq(C) /\ <<c>> \o v # <<>>
           /\ Head(<<c>> \o v) = c /\ Tail(<<c>> \o v) = v
<1> DEFINE w == <<c>> \o v
<1>1. /\ w \in Seq(C) /\ Len(w) = Len(v) + 1 /\ Len(v) \in Nat
      /\ w[1] = c /\ \A i \in 1..Len(v) : w[i + 1] = v[i]
  OBVIOUS
<1> HIDE DEF w
<1>2. w # <<>> /\ Head(w) = c
  BY <1>1
<1>3. /\ Tail(w) \in Seq(C) /\ Len(Tail(w)) = Len(v)
      /\ \A i \in 1..Len(v) : Tail(w)[i] = v[i]
  BY <1>1, <1>2, HeadTailProperties
<1>4. Tail(w) = v
  BY <1>3, SeqEqual
<1>5. QED
  BY <1>1, <1>2, <1>4 DEF w

\* No header has an empty name.
AllNamed(hs) == \A i \in DOMAIN hs : hs[i].name # ""

\* Headers with names, written to the form and parsed from it, are the same.
LEMMA ParsedAsWritten ==
    ASSUME NEW hs \in Seq(TextLine), AllNamed(hs)
    PROVE  parse_headers(headers_to_text(hs)) = hs
<1> DEFINE C       == STRING \cup {"SP"}
           W       == Written(TextLine)
           text    == headers_to_text(hs)
           line(i) == Header(hs[i].name, <<"SP">> \o hs[i].value)
<1>1. DOMAIN hs = 1..Len(hs) /\ Len(hs) \in Nat
  OBVIOUS
<1>2. ASSUME NEW i \in 1..Len(hs)
      PROVE  /\ line(i) \in W /\ line(i).name = hs[i].name
             /\ Value(line(i)) = hs[i].value
             /\ Header(hs[i].name, hs[i].value) = hs[i]
  <2> DEFINE v == hs[i].value
             n == hs[i].name
             spaced == <<"SP">> \o v
  <2>1. hs[i] \in TextLine
    BY <1>1
  <2>2. n \in STRING /\ v \in Seq(C) /\ hs[i] = Header(n, v) /\ n # ""
    <3>1. n # ""
      BY <1>1, Zenon DEF AllNamed, n
    <3>2. n \in STRING /\ v \in Seq(C) /\ hs[i] = Header(n, v)
      BY <2>1 DEF TextLine, Header
    <3>3. QED
      BY <3>1, <3>2
  <2> HIDE DEF v, n
  <2>3. /\ spaced \in Seq(C) /\ spaced # <<>> /\ Head(spaced) = "SP" /\ Tail(spaced) = v
    <3> HIDE DEF C
    <3>1. "SP" \in C /\ v \in Seq(C)
      BY <2>2 DEF C
    <3>2. QED
      BY <3>1, Prefixed
  <2> HIDE DEF spaced
  <2>4. line(i) = Header(n, spaced)
    BY DEF n, v, spaced
  <2>5. Header(n, spaced).name = n /\ Header(n, spaced).value = spaced
    BY DEF Header
  <2>6. Header(n, spaced) \in W
    BY <2>2, <2>3 DEF Header, TextLine, Written, EmptyLine
  <2>7. Value(Header(n, spaced)) = v
    BY <2>3, <2>5 DEF Value
  <2>8. QED
    BY <2>2, <2>4, <2>5, <2>6, <2>7, Zenon DEF n, v
<1>3. text = [i \in 1..Len(hs) |-> line(i)]
  BY <1>1 DEF headers_to_text
<1> HIDE DEF line, W, text
<1>4. text \in Seq(W) /\ DOMAIN text = 1..Len(hs)
  BY <1>1, <1>2, <1>3
<1>5. NonEmpty(text) = text
  <2>1. Written(W) = W
    BY DEF Written, W
  <2>2. NonEmpty(text) = Among(text, W)
    BY <1>4, <2>1, NonEmptyIsAmong
  <2>3. Among(text, W) = text
    BY <1>4, AmongAll
  <2>4. QED
    BY <2>2, <2>3
<1>6. parse_headers(text) = [i \in 1..Len(hs) |-> Header(text[i].name, Value(text[i]))]
  BY <1>4, <1>5 DEF parse_headers
<1>7. \A i \in 1..Len(hs) : Header(text[i].name, Value(text[i])) = hs[i]
  <2> SUFFICES ASSUME NEW i \in 1..Len(hs)
               PROVE  Header(text[i].name, Value(text[i])) = hs[i]
    OBVIOUS
  <2>1. text[i] = line(i)
    BY <1>3
  <2>2. line(i).name = hs[i].name /\ Value(line(i)) = hs[i].value
        /\ Header(hs[i].name, hs[i].value) = hs[i]
    BY <1>2
  <2>3. QED
    BY <2>1, <2>2, Zenon
<1>8. parse_headers(text) = [i \in 1..Len(hs) |-> hs[i]]
  BY <1>6, <1>7
<1>9. QED
  BY <1>1, <1>8 DEF text

\* The headers of the wire without the first and the last two.
LEMMA WireMiddle ==
    ASSUME NEW headers \in Seq(TextLine), NEW target, NEW host, NEW body,
           NEW sent, sent = OnWire(target, host, headers, body).headers
    PROVE  SubSeq(sent, 2, Len(sent) - 2) = replay_headers(headers)
<1> DEFINE h1 == Header("host", <<host>>)
           h2 == Header(Nonce, <<Fresh>>)
           h3 == Header("content-length", <<Len(body)>>)
           G  == TextLine \cup {h1, h2, h3}
           R  == replay_headers(headers)
<1>1. sent = <<h1>> \o R \o <<h2, h3>>
  BY DEF OnWire
<1>2. headers \in Seq(G) /\ h1 \in G /\ h2 \in G /\ h3 \in G
  OBVIOUS
<1> HIDE DEF h1, h2, h3, G
<1>3. R \in Seq(G)
  BY <1>2, ReplayHeadersNamed
<1> HIDE DEF R
<1>4. Len(sent) = Len(R) + 3 /\ Len(R) \in Nat /\ \A i \in 1..Len(R) : sent[i + 1] = R[i]
  BY <1>1, <1>2, <1>3
<1>5. SubSeq(sent, 2, Len(R) + 1) = [i \in 1..Len(R) |-> sent[i + 1]]
  BY <1>4
<1>6. R = [i \in 1..Len(R) |-> R[i]]
  BY <1>3
<1>7. QED
  BY <1>4, <1>5, <1>6 DEF R

\* A textarea leaves a text without CR and NUL, and with no LF in front, alone.
LEMMA TextareaKeeps ==
    ASSUME NEW C, NEW text \in Seq(C), Survives(text)
    PROVE  Textarea(text) = text
<1>1. DOMAIN text = 1..Len(text) /\ Len(text) \in Nat /\ \A i \in DOMAIN text : text[i] \in C
  OBVIOUS
<1>2. \A i \in DOMAIN text : text[i] # "CR" /\ text[i] # "NUL"
  BY DEF Range, Survives
<1>3. {i \in DOMAIN text : i > 1 /\ text[i] = "LF" /\ text[i - 1] = "CR"} = {}
  BY <1>1, <1>2
<1>4. Subsequence(text, DOMAIN text) = text
  <2>1. {i \in DOMAIN text : text[i] \in C} = DOMAIN text
    BY <1>1
  <2>2. Among(text, C) = text
    BY AmongAll
  <2>3. QED
    BY <2>1, <2>2, Zenon DEF Among
<1>5. Normalized(text) = [i \in DOMAIN text |-> IF text[i] = "CR" THEN "LF"
                                   ELSE IF text[i] = "NUL" THEN "wide" ELSE text[i]]
  <2> DEFINE second == {i \in DOMAIN text : i > 1 /\ text[i] = "LF" /\ text[i - 1] = "CR"}
  <2>1. DOMAIN text \ second = DOMAIN text
    BY <1>3
  <2>2. Subsequence(text, DOMAIN text \ second) = text
    BY <1>4, <2>1, Zenon
  <2>3. QED
    BY <2>2, Zenon DEF Normalized
<1>6. Normalized(text) = text
  BY <1>1, <1>2, <1>5
<1>7. QED
  BY <1>6, Zenon DEF Textarea, Survives

\* What was decoded, encoded and decoded again is the same text, and what was
\* decoded and encoded the same bytes where there is one encoding.
LEMMA DecodeUndoesEncode ==
    ASSUME NEW type, NEW bytes \in Seq(STRING), NEW text, text = Decode(type, bytes)
    PROVE  /\ text \in Seq(STRING \cup {"mark", "a"})
           /\ Decode(type, Encode(type, text)) = text
           /\ type \notin Ambiguous => Encode(type, text) = bytes
<1> DEFINE C == STRING \cup {"mark", "a"}
<1>1. bytes \in Seq(C) /\ "mark" \in C /\ "a" \in C
  OBVIOUS
<1> HIDE DEF C
<1>2. CASE type \in Marked
  <2>1. text \in {bytes, Tail(bytes)} /\ (text # bytes => bytes # <<>>)
    BY <1>2 DEF Decode, Marked
  <2>2. text \in Seq(C)
    BY <1>1, <2>1
  <2> DEFINE more == <<"mark">> \o text
  <2>3. more # <<>> /\ Head(more) = "mark" /\ Tail(more) = text
    BY <1>1, <2>2, Prefixed
  <2>4. Encode(type, text) = more
    BY <1>2 DEF Encode
  <2> HIDE DEF more
  <2>5. Decode(type, more) = text
    BY <1>2, <2>3 DEF Decode
  <2>6. QED
    BY <1>2, <2>2, <2>4, <2>5 DEF Ambiguous, C
<1>3. CASE type = "loose"
  <2>1. type \notin Marked /\ type \in Ambiguous
    BY <1>3 DEF Marked, Ambiguous
  <2>2. text = [i \in DOMAIN bytes |-> IF bytes[i] = "alt" THEN "a" ELSE bytes[i]]
    BY <1>3, <2>1 DEF Decode
  <2>3. text \in Seq(C) /\ \A i \in DOMAIN text : text[i] # "alt"
    BY <1>1, <2>2
  <2>4. Encode(type, text) = text
    BY <2>1 DEF Encode
  <2>5. Decode(type, text) = [i \in DOMAIN text |-> IF text[i] = "alt" THEN "a" ELSE text[i]]
    BY <1>3, <2>1 DEF Decode
  <2>6. Decode(type, text) = text
    BY <2>3, <2>5
  <2>7. QED
    BY <2>1, <2>3, <2>4, <2>6 DEF C
<1>4. CASE type \notin Marked /\ type # "loose"
  <2>1. text = bytes /\ Encode(type, text) = text /\ Decode(type, text) = text
    BY <1>4 DEF Decode, Encode
  <2>2. QED
    BY <1>1, <2>1 DEF C
<1>5. QED
  BY <1>2, <1>3, <1>4 DEF C

\* The form of inspect.js, submitted as the page was rendered, is a faithful
\* replay: parse_headers undoes headers_to_text, send_request keeps the order
\* of what it does not drop or rebuild, and the body has the captured text.
THEOREM UneditedIsFaithful == Spec => []UneditedIsSent
<1>1. FormInv /\ WireInv => UneditedIsSent
  <2> DEFINE type == shown.type
             text == Decode(type, shown.body)
  <2> SUFFICES ASSUME FormInv, WireInv, post = originalDraft, NEW request \in wire
               PROVE  /\ SubSeq(request.headers, 2, Len(request.headers) - 2)
                             = replay_headers(shown.headers)
                      /\ Survives(text) => Decode(type, request.body) = text
                      /\ Survives(text) /\ type \notin Ambiguous =>
                             request.body = shown.body
    BY Zenon DEF UneditedIsSent
  <2> DEFINE target == request_target(captured.url)
             host   == captured.url.host
             hs     == shown.headers
             bytes  == EditedBytes(hs, post.body)
  <2>1. originalDraft # Null
    BY DEF FormInv, WireInv
  <2>2. /\ shown # Null
        /\ post = Text(headers_to_text(shown.headers), Textarea(text))
    BY <2>1, Zenon DEF originalDraft
  <2>3. /\ shown \in CapturedRow /\ captured \in Captures
        /\ shown.headers = captured.headers /\ shown.type = captured.type
    BY <2>2 DEF FormInv
  <2>4. hs \in Seq(TextLine) /\ AllNamed(hs)
    <3>1. hs \in Seq(FormLine)
      BY <2>3 DEF CapturedRow
    <3>2. AllNamed(hs)
      BY <2>3, EditAssumption, Zenon DEF AllNamed
    <3>3. QED
      BY <3>1, <3>2, FormLinesAreTextLines
  <2>5. EditedType(hs) = type
    BY <2>3, EditAssumption, Zenon
  <2>6. post.headers = headers_to_text(hs) /\ post.body = Textarea(text)
    BY <2>2 DEF Text
  <2>7. shown.body \in Seq(STRING)
    BY <2>3 DEF CapturedRow
  <2>8. /\ text \in Seq(STRING \cup {"mark", "a"})
        /\ Decode(type, Encode(type, text)) = text
        /\ type \notin Ambiguous => Encode(type, text) = shown.body
    BY <2>7, DecodeUndoesEncode
  <2> HIDE DEF type, text
  <2>9. request = OnWire(target, host, parse_headers(post.headers),
                         EditedBytes(parse_headers(post.headers), post.body))
    BY DEF WireInv
  <2> HIDE DEF target, host, hs
  <2>10. parse_headers(post.headers) = hs
    BY <2>4, <2>6, ParsedAsWritten
  <2>11. request.headers = OnWire(target, host, hs, bytes).headers /\ request.body = bytes
    BY <2>9, <2>10 DEF OnWire
  <2>12. SubSeq(request.headers, 2, Len(request.headers) - 2) = replay_headers(hs)
    <3> HIDE DEF bytes
    <3>1. QED
      BY <2>4, <2>11, WireMiddle
  <2>13. bytes = Encode(type, Textarea(text))
    BY <2>5, <2>6 DEF EditedBytes
  <2>14. Survives(text) => Textarea(text) = text
    BY <2>8, TextareaKeeps
  <2> HIDE DEF bytes
  <2>15. QED
    BY <2>8, <2>11, <2>12, <2>13, <2>14 DEF hs
<1>2. QED
  BY <1>1, FormInvInductive, WireInvInductive, PTL

-----------------------------------------------------------------------------
(* The same resource: unquote and quote, one character at a time. *)

\* f[i] is what FlattenSeq makes of the first i sequences.
IsFlat(f, ss, n) ==
    f = [i \in 1..n |-> IF i = 1 THEN ss[i] ELSE f[i - 1] \o ss[i]]

\* There is such a function, for every n.
LEMMA FlatExists ==
    ASSUME NEW ss, NEW n \in Nat
    PROVE  \E f : IsFlat(f, ss, n)
<1> DEFINE T == {m \in Nat : \E f : IsFlat(f, ss, m)}
<1>1. 0 \in T
  <2> DEFINE f == [i \in 1..0 |-> <<>>]
  <2>1. f = [i \in 1..0 |-> IF i = 1 THEN ss[i] ELSE f[i - 1] \o ss[i]]
    OBVIOUS
  <2> HIDE DEF f
  <2>2. IsFlat(f, ss, 0)
    BY <2>1, Zenon DEF IsFlat
  <2>3. QED
    BY <2>2
<1>2. ASSUME NEW m \in Nat, m \in T PROVE m + 1 \in T
  <2>1. PICK f : IsFlat(f, ss, m)
    BY <1>2
  <2> DEFINE last == IF m + 1 = 1 THEN ss[m + 1] ELSE f[m] \o ss[m + 1]
             g    == [i \in 1..(m + 1) |-> IF i = m + 1 THEN last ELSE f[i]]
  <2>2. ASSUME NEW i \in 1..(m + 1)
        PROVE  g[i] = IF i = 1 THEN ss[i] ELSE g[i - 1] \o ss[i]
    <3>1. CASE i = m + 1
      <4>1. g[i] = last /\ (i # 1 => g[i - 1] = f[m])
        BY <3>1
      <4> HIDE DEF g
      <4>2. QED
        BY <3>1, <4>1
    <3>2. CASE i # m + 1
      <4>1. i \in 1..m /\ g[i] = f[i]
        BY <3>2
      <4>2. i # 1 => g[i - 1] = f[i - 1]
        BY <4>1
      <4>3. f[i] = IF i = 1 THEN ss[i] ELSE f[i - 1] \o ss[i]
        BY <2>1, <4>1 DEF IsFlat
      <4> HIDE DEF g
      <4>4. QED
        BY <4>1, <4>2, <4>3
    <3>3. QED
      BY <3>1, <3>2
  <2>3. IsFlat(g, ss, m + 1)
    <3>1. g = [i \in 1..(m + 1) |-> g[i]]
      OBVIOUS
    <3> HIDE DEF g
    <3>2. QED
      BY <2>2, <3>1, Zenon DEF IsFlat
  <2>4. QED
    BY <2>3
<1> HIDE DEF T
<1>3. Nat \subseteq T
  BY <1>1, <1>2, Naturals
<1>4. QED
  BY <1>3 DEF T

\* What FlattenSeq computes.
LEMMA Flat ==
    ASSUME NEW ss, Len(ss) \in Nat \ {0}
    PROVE  \E f : IsFlat(f, ss, Len(ss)) /\ FlattenSeq(ss) = f[Len(ss)]
<1>1. FlattenSeq(ss) = (CHOOSE f : IsFlat(f, ss, Len(ss)))[Len(ss)]
  BY Zenon DEF FlattenSeq, IsFlat
<1>2. \E f : IsFlat(f, ss, Len(ss))
  BY FlatExists
<1>3. QED
  BY <1>1, <1>2, Zenon

\* Item by item.
LEMMA FlattenAppend ==
    ASSUME NEW C, NEW ss \in Seq(Seq(C)), NEW t \in Seq(C)
    PROVE  FlattenSeq(ss) \in Seq(C) /\ FlattenSeq(Append(ss, t)) = FlattenSeq(ss) \o t
<1> DEFINE n  == Len(ss)
           rr == Append(ss, t)
<1>1. /\ n \in Nat /\ Len(rr) = n + 1 /\ rr[n + 1] = t
      /\ \A i \in 1..n : rr[i] = ss[i] /\ ss[i] \in Seq(C)
  OBVIOUS
<1>2. n = 0 => ss = <<>>
  OBVIOUS
<1> HIDE DEF n, rr
<1>4. PICK g : IsFlat(g, rr, n + 1) /\ FlattenSeq(rr) = g[n + 1]
  <2>1. Len(rr) \in Nat \ {0}
    BY <1>1
  <2>2. QED
    BY <1>1, <2>1, Flat
<1>3. \A i \in 1..(n + 1) : g[i] = IF i = 1 THEN rr[i] ELSE g[i - 1] \o rr[i]
  <2>1. n + 1 \in Nat
    BY <1>1
  <2>2. QED
    BY <1>4, <2>1 DEF IsFlat
<1>5. CASE n = 0
  <2>1. ss = <<>> /\ FlattenSeq(ss) = ss
    <3>1. Len(ss) = 0
      BY <1>5 DEF n
    <3>2. FlattenSeq(ss) = ss
      BY <3>1, Zenon DEF FlattenSeq
    <3>3. QED
      BY <1>2, <1>5, <3>2
  <2>2. g[1] = rr[1]
    BY <1>1, <1>3, <1>5
  <2>3. FlattenSeq(rr) = t
    BY <1>1, <1>4, <1>5, <2>2
  <2>4. <<>> \in Seq(C) /\ <<>> \o t = t
    OBVIOUS
  <2>5. QED
    BY <2>1, <2>3, <2>4 DEF rr
<1>6. CASE n # 0
  <2>1. PICK f : IsFlat(f, ss, n) /\ FlattenSeq(ss) = f[n]
    <3>1. Len(ss) \in Nat \ {0} /\ Len(ss) = n
      BY <1>1, <1>6 DEF n
    <3>2. QED
      BY <3>1, Flat
  <2>8. \A i \in 1..n : f[i] = IF i = 1 THEN ss[i] ELSE f[i - 1] \o ss[i]
    BY <1>1, <2>1 DEF IsFlat
  <2> DEFINE T == {i \in Nat : i \in 1..n => g[i] = f[i] /\ f[i] \in Seq(C)}
  <2>2. 0 \in T
    OBVIOUS
  <2>3. ASSUME NEW i \in Nat, i \in T PROVE i + 1 \in T
    <3> SUFFICES ASSUME i + 1 \in 1..n PROVE g[i + 1] = f[i + 1] /\ f[i + 1] \in Seq(C)
      OBVIOUS
    <3>1. i + 1 \in 1..(n + 1) /\ n + 1 \in Nat /\ (i + 1) - 1 = i
      BY <1>1
    <3>2. g[i + 1] = IF i + 1 = 1 THEN rr[i + 1] ELSE g[i] \o rr[i + 1]
      BY <1>3, <3>1
    <3>3. f[i + 1] = IF i + 1 = 1 THEN ss[i + 1] ELSE f[i] \o ss[i + 1]
      BY <2>8, <3>1
    <3>4. rr[i + 1] = ss[i + 1] /\ ss[i + 1] \in Seq(C)
      BY <1>1
    <3>5. i + 1 # 1 => g[i] = f[i] /\ f[i] \in Seq(C)
      <4>1. i + 1 # 1 => i \in 1..n
        BY <1>1
      <4>2. QED
        BY <2>3, <4>1
    <3>6. CASE i + 1 = 1
      BY <3>2, <3>3, <3>4, <3>6
    <3>7. CASE i + 1 # 1
      <4>1. f[i] \o ss[i + 1] \in Seq(C)
        BY <3>4, <3>5, <3>7
      <4>2. QED
        BY <3>2, <3>3, <3>4, <3>5, <3>7, <4>1
    <3>8. QED
      BY <3>6, <3>7
  <2> HIDE DEF T
  <2>4. Nat \subseteq T
    BY <2>2, <2>3, Naturals
  <2>5. g[n] = f[n] /\ f[n] \in Seq(C)
    BY <1>1, <1>6, <2>4 DEF T
  <2>6. g[n + 1] = g[n] \o t
    <3>1. n + 1 \in 1..(n + 1) /\ (n + 1) - 1 = n /\ n + 1 # 1 /\ n + 1 \in Nat
      BY <1>1, <1>6
    <3>2. g[n + 1] = IF n + 1 = 1 THEN rr[n + 1] ELSE g[(n + 1) - 1] \o rr[n + 1]
      BY <1>3, <3>1
    <3>3. QED
      BY <1>1, <3>1, <3>2
  <2>7. QED
    BY <1>4, <2>1, <2>5, <2>6 DEF rr
<1>7. QED
  BY <1>5, <1>6

\* All characters in use.
Chars == Character \cup DOMAIN Byte \cup {Byte[d] : d \in DOMAIN Byte} \cup {"%", "?", "/"}

\* What Unquote and quote make of the item at i.
Unquoted(text, i) ==
    IF Escaped(text, i)          THEN <<Byte[text[i]]>>
    ELSE IF Escaped(text, i + 1) THEN <<>>
    ELSE                              <<text[i]>>

Quoted(c) == IF c \in DOMAIN Escape THEN Escape[c] ELSE <<c>>

UnquotedItems(text) == [i \in DOMAIN text |-> Unquoted(text, i)]
QuotedItems(text)   == [i \in DOMAIN text |-> Quoted(text[i])]

LEMMA ItemsOf ==
    ASSUME NEW text
    PROVE  Unquote(text) = FlattenSeq(UnquotedItems(text)) /\ quote(text) = FlattenSeq(QuotedItems(text))
BY Zenon DEF Unquote, quote, UnquotedItems, QuotedItems, Unquoted, Quoted

LEMMA UnquotedType ==
    ASSUME NEW text \in Seq(Chars)
    PROVE  /\ UnquotedItems(text) \in Seq(Seq(Chars)) /\ Len(UnquotedItems(text)) = Len(text)
           /\ \A i \in 1..Len(text) : UnquotedItems(text)[i] = Unquoted(text, i)
<1>1. DOMAIN text = 1..Len(text) /\ Len(text) \in Nat
  OBVIOUS
<1>2. ASSUME NEW i \in 1..Len(text) PROVE Unquoted(text, i) \in Seq(Chars)
  <2>1. text[i] \in Chars
    OBVIOUS
  <2>2. Escaped(text, i) => Byte[text[i]] \in Chars
    BY DEF Escaped, Chars
  <2> HIDE DEF Chars
  <2>3. QED
    BY <2>1, <2>2 DEF Unquoted
<1>3. UnquotedItems(text) = [i \in 1..Len(text) |-> Unquoted(text, i)]
  BY <1>1 DEF UnquotedItems
<1>4. QED
  BY <1>1, <1>2, <1>3

\* A character that completes no escape is left as it is.
LEMMA UnquotePlain ==
    ASSUME NEW text \in Seq(Chars), NEW c \in Chars,
           ~(text # <<>> /\ text[Len(text)] = "%" /\ c \in DOMAIN Byte)
    PROVE  /\ Unquote(text) \in Seq(Chars)
           /\ Unquote(Append(text, c)) = Append(Unquote(text), c)
<1> DEFINE n == Len(text)
           t == Append(text, c)
<1>1. /\ n \in Nat /\ t \in Seq(Chars) /\ Len(t) = n + 1 /\ t[n + 1] = c
      /\ \A i \in 1..n : t[i] = text[i]
  OBVIOUS
<1>2. ~Escaped(t, n + 1) /\ ~Escaped(t, n + 2)
  BY <1>1 DEF Escaped
<1>3. \A i \in 1..n : Escaped(t, i) <=> Escaped(text, i)
  BY <1>1 DEF Escaped
<1>4. \A i \in 1..n : Escaped(t, i + 1) <=> Escaped(text, i + 1)
  BY <1>1, <1>2, <1>3 DEF Escaped
<1>5. \A i \in 1..n : Unquoted(t, i) = Unquoted(text, i)
  BY <1>1, <1>3, <1>4 DEF Unquoted
<1>6. Unquoted(t, n + 1) = <<c>>
  <2>1. (n + 1) + 1 = n + 2
    BY <1>1
  <2>2. QED
    BY <1>1, <1>2, <2>1 DEF Unquoted
<1>7. /\ UnquotedItems(text) \in Seq(Seq(Chars)) /\ Len(UnquotedItems(text)) = n
      /\ \A i \in 1..n : UnquotedItems(text)[i] = Unquoted(text, i)
  BY UnquotedType
<1>8. /\ UnquotedItems(t) \in Seq(Seq(Chars)) /\ Len(UnquotedItems(t)) = n + 1
      /\ \A i \in 1..(n + 1) : UnquotedItems(t)[i] = Unquoted(t, i)
  <2> HIDE DEF t
  <2>1. QED
    BY <1>1, UnquotedType
<1> DEFINE xs == UnquotedItems(text)
           ys == UnquotedItems(t)
<1> HIDE DEF n, t, xs, ys
<1>9. <<c>> \in Seq(Chars)
  OBVIOUS
<1>10. ys = Append(xs, <<c>>)
  <2>1. /\ xs \in Seq(Seq(Chars)) /\ Len(xs) = n /\ ys \in Seq(Seq(Chars)) /\ Len(ys) = n + 1
        /\ ys[n + 1] = <<c>> /\ \A i \in 1..n : ys[i] = xs[i]
    BY <1>1, <1>5, <1>6, <1>7, <1>8 DEF xs, ys
  <2> DEFINE e  == <<c>>
             SC == Seq(Chars)
  <2>2. e \in SC
    BY <1>9
  <2> HIDE DEF e, SC
  <2>3. ys = Append(xs, e)
    BY <1>1, <2>1, <2>2 DEF e, SC
  <2>4. QED
    BY <2>3 DEF e
<1>11. FlattenSeq(xs) \in Seq(Chars) /\ FlattenSeq(Append(xs, <<c>>)) = FlattenSeq(xs) \o <<c>>
  BY <1>7, <1>9, FlattenAppend DEF xs
<1>12. Unquote(text) = FlattenSeq(xs) /\ Unquote(t) = FlattenSeq(ys)
  BY ItemsOf DEF xs, ys
<1>13. FlattenSeq(xs) \o <<c>> = Append(FlattenSeq(xs), c)
  BY <1>11
<1>14. QED
  BY <1>10, <1>11, <1>12, <1>13 DEF t

\* An escape becomes the character it stands for.
LEMMA UnquoteEscape ==
    ASSUME NEW text \in Seq(Chars), NEW digits \in DOMAIN Byte
    PROVE  Unquote(Append(Append(text, "%"), digits)) = Append(Unquote(text), Byte[digits])
<1> DEFINE n == Len(text)
           b == Byte[digits]
           t == Append(Append(text, "%"), digits)
<1>1. "%" \in Chars /\ digits \in Chars /\ b \in Chars /\ "%" \notin DOMAIN Byte
  BY QuoteAssumption DEF Chars
<1>2. /\ n \in Nat /\ t \in Seq(Chars) /\ Len(t) = n + 2 /\ t[n + 1] = "%" /\ t[n + 2] = digits
      /\ \A i \in 1..n : t[i] = text[i]
  BY <1>1
<1> HIDE DEF t, n
<1>3. DOMAIN t = 1..(n + 2) /\ DOMAIN text = 1..n
  BY <1>2 DEF n
<1>4. Escaped(t, n + 2) /\ ~Escaped(t, n + 1)
  BY <1>1, <1>2, <1>3 DEF Escaped
<1>5. \A i \in 1..n : Escaped(t, i) <=> Escaped(text, i)
  BY <1>2, <1>3 DEF Escaped
<1>6. \A i \in 1..n : Escaped(t, i + 1) <=> Escaped(text, i + 1)
  BY <1>2, <1>3, <1>4 DEF Escaped
<1>7. \A i \in 1..n : Unquoted(t, i) = Unquoted(text, i)
  BY <1>2, <1>5, <1>6 DEF Unquoted
<1>8. Unquoted(t, n + 1) = <<>> /\ Unquoted(t, n + 2) = <<b>>
  <2>1. (n + 1) + 1 = n + 2
    BY <1>2
  <2>2. QED
    BY <1>2, <1>4, <2>1 DEF Unquoted
<1> DEFINE xs == UnquotedItems(text)
           ys == UnquotedItems(t)
           SC == Seq(Chars)
<1>9. xs \in Seq(SC) /\ Len(xs) = n /\ \A i \in 1..n : xs[i] = Unquoted(text, i)
  BY UnquotedType DEF n
<1>10. ys \in Seq(SC) /\ Len(ys) = n + 2 /\ \A i \in 1..(n + 2) : ys[i] = Unquoted(t, i)
  BY <1>2, UnquotedType
<1>11. <<>> \in SC /\ <<b>> \in SC
  BY <1>1
<1> DEFINE e0 == <<>>
           e1 == <<b>>
<1> HIDE DEF xs, ys, SC, b
<1>12. ys = Append(Append(xs, e0), e1)
  <2>1. /\ ys[n + 1] = e0 /\ ys[n + 2] = e1 /\ \A i \in 1..n : ys[i] = xs[i]
    BY <1>2, <1>7, <1>8, <1>9, <1>10
  <2>2. e0 \in SC /\ e1 \in SC
    BY <1>11
  <2> HIDE DEF e0, e1
  <2>3. QED
    BY <1>2, <1>9, <1>10, <2>1, <2>2
<1>13. FlattenSeq(xs) \in SC /\ FlattenSeq(Append(xs, e0)) = FlattenSeq(xs) \o e0
       /\ Append(xs, e0) \in Seq(SC)
  <2> HIDE DEF e0, e1
  <2>1. e0 \in SC /\ Append(xs, e0) \in Seq(SC)
    BY <1>9, <1>11 DEF e0
  <2>2. QED
    BY <1>9, <2>1, FlattenAppend DEF SC
<1>14. FlattenSeq(Append(Append(xs, e0), e1)) = FlattenSeq(Append(xs, e0)) \o e1
  <2> HIDE DEF e0, e1
  <2>1. e1 \in SC
    BY <1>11 DEF e1
  <2>2. QED
    BY <1>13, <2>1, FlattenAppend DEF SC
<1>15. Unquote(text) = FlattenSeq(xs) /\ Unquote(t) = FlattenSeq(ys)
  BY ItemsOf DEF xs, ys
<1>16. (FlattenSeq(xs) \o e0) \o e1 = Append(FlattenSeq(xs), b)
  BY <1>1, <1>13 DEF SC
<1> HIDE DEF e0, e1
<1>17. Unquote(t) = Append(Unquote(text), b)
  BY <1>12, <1>13, <1>14, <1>15, <1>16
<1>18. QED
  BY <1>17 DEF t, b

LEMMA UnquoteType ==
    ASSUME NEW text \in Seq(Chars)
    PROVE  /\ Unquote(text) \in Seq(Chars)
           /\ text # <<>> => Unquote(text) # <<>>
<1> DEFINE n  == Len(text)
           xs == UnquotedItems(text)
           SC == Seq(Chars)
<1>1. xs \in Seq(SC) /\ Len(xs) = n /\ \A i \in 1..n : xs[i] = Unquoted(text, i)
  BY UnquotedType
<1>2. <<>> \in SC
  OBVIOUS
<1>3. Unquote(text) = FlattenSeq(xs)
  BY ItemsOf
<1>4. n \in Nat /\ DOMAIN text = 1..n
  OBVIOUS
<1> HIDE DEF xs, SC
<1>5. FlattenSeq(xs) \in SC
  BY <1>1, <1>2, FlattenAppend DEF SC
<1>6. ASSUME text # <<>> PROVE FlattenSeq(xs) # <<>>
  <2>1. n > 0
    BY <1>6
  <2> DEFINE front == [i \in 1..(n - 1) |-> xs[i]]
  <2>2. front \in Seq(SC) /\ xs = Append(front, xs[n]) /\ xs[n] \in SC
    BY <1>1, <1>4, <2>1
  <2>3. xs[n] # <<>>
    <3>1. ~Escaped(text, n + 1) /\ xs[n] = Unquoted(text, n)
      BY <1>1, <1>4, <2>1 DEF Escaped
    <3>2. \E y : xs[n] = <<y>>
      BY <3>1, Zenon DEF Unquoted
    <3>3. PICK y : xs[n] = <<y>>
      BY <3>2
    <3>4. <<y>> # <<>>
      OBVIOUS
    <3>5. QED
      BY <3>3, <3>4, Zenon
  <2> HIDE DEF front
  <2>4. FlattenSeq(front) \in Seq(Chars) /\ FlattenSeq(xs) = FlattenSeq(front) \o xs[n]
    BY <2>2, FlattenAppend DEF SC
  <2>5. xs[n] \in Seq(Chars)
    BY <2>2 DEF SC
  <2>6. Len(xs[n]) > 0 /\ Len(FlattenSeq(xs)) = Len(FlattenSeq(front)) + Len(xs[n])
    BY <2>3, <2>4, <2>5
  <2>7. Len(FlattenSeq(front)) \in Nat
    BY <2>4
  <2>8. QED
    BY <2>6, <2>7
<1>7. QED
  BY <1>3, <1>5, <1>6 DEF SC

\* The text holds only what comes back: no escape, and no byte beyond ASCII.
Plain(text) ==
    /\ \A i \in DOMAIN text : ~Escaped(text, i)
    /\ \A i \in DOMAIN text : text[i] \notin WideBytes

LEMMA PlainAppend ==
    ASSUME NEW s \in Seq(Chars), NEW h \in Chars, Plain(Append(s, h))
    PROVE  /\ Plain(s) /\ h \notin WideBytes
           /\ ~(s # <<>> /\ s[Len(s)] = "%" /\ h \in DOMAIN Byte)
<1> DEFINE n == Len(s)
           t == Append(s, h)
<1>1. /\ n \in Nat /\ Len(t) = n + 1 /\ t[n + 1] = h /\ \A i \in 1..n : t[i] = s[i]
      /\ DOMAIN s = 1..n /\ DOMAIN t = 1..(n + 1) /\ (s # <<>> => n > 0)
  OBVIOUS
<1>2. /\ \A i \in DOMAIN t : ~Escaped(t, i)
      /\ \A i \in DOMAIN t : t[i] \notin WideBytes
  BY DEF Plain
<1> HIDE DEF t, n
<1>3. \A i \in DOMAIN s : ~Escaped(s, i)
  BY <1>1, <1>2 DEF Escaped
<1>4. \A i \in DOMAIN s : s[i] \notin WideBytes
  BY <1>1, <1>2
<1>5. h \notin WideBytes
  BY <1>1, <1>2
<1>6. ~(s # <<>> /\ s[n] = "%" /\ h \in DOMAIN Byte)
  <2>1. ~Escaped(t, n + 1)
    BY <1>1, <1>2
  <2>2. QED
    BY <1>1, <2>1 DEF Escaped
<1>7. QED
  BY <1>3, <1>4, <1>5, <1>6 DEF Plain, n

\* What quote makes of one ASCII character.
LEMMA QuotedIs ==
    ASSUME NEW c \in Chars, c \notin WideBytes
    PROVE  \/ c \notin DOMAIN Escape /\ Quoted(c) = <<c>> /\ c # "?"
           \/ \E d \in DOMAIN Byte : /\ Quoted(c) = <<"%", d>> /\ Byte[d] = c
                                     /\ d # "%" /\ d # "?"
<1>1. CASE c \notin DOMAIN Escape
  BY <1>1, QuoteAssumption DEF Quoted
<1>2. CASE c \in DOMAIN Escape
  <2>1. PICK d \in DOMAIN Byte : Escape[c] = <<"%", d>> /\ Byte[d] = c
    BY <1>2, QuoteAssumption
  <2>2. Quoted(c) = Escape[c]
    BY <1>2 DEF Quoted
  <2>3. d # "%" /\ d # "?"
    BY QuoteAssumption
  <2>4. QED
    BY <2>1, <2>2, <2>3
<1>3. QED
  BY <1>1, <1>2

LEMMA QuotedType ==
    ASSUME NEW c \in Chars, c \notin WideBytes
    PROVE  Quoted(c) \in Seq(Chars)
<1>1. "%" \in Chars /\ \A d \in DOMAIN Byte : d \in Chars
  BY DEF Chars
<1>2. CASE Quoted(c) = <<c>>
  BY <1>2
<1>3. CASE \E d \in DOMAIN Byte : Quoted(c) = <<"%", d>>
  <2>1. PICK d \in DOMAIN Byte : Quoted(c) = <<"%", d>>
    BY <1>3
  <2>2. d \in Chars
    BY <1>1
  <2>3. QED
    BY <1>1, <2>1, <2>2
<1>4. QED
  BY <1>2, <1>3, QuotedIs

LEMMA QuoteAppend ==
    ASSUME NEW s \in Seq(Chars), NEW h \in Chars, Plain(Append(s, h))
    PROVE  quote(s) \in Seq(Chars) /\ quote(Append(s, h)) = quote(s) \o Quoted(h)
<1> DEFINE n == Len(s)
           t == Append(s, h)
           xs == QuotedItems(s)
           ys == QuotedItems(t)
           SC == Seq(Chars)
           q  == Quoted(h)
<1>1. /\ n \in Nat /\ Len(t) = n + 1 /\ t[n + 1] = h /\ \A i \in 1..n : t[i] = s[i]
      /\ DOMAIN s = 1..n /\ DOMAIN t = 1..(n + 1) /\ \A i \in 1..n : s[i] \in Chars
  OBVIOUS
<1>2. q \in SC
  BY PlainAppend, QuotedType
<1>3. xs \in Seq(SC) /\ Len(xs) = n /\ \A i \in 1..n : xs[i] = Quoted(s[i])
  <2>1. ASSUME NEW i \in 1..n PROVE Quoted(s[i]) \in SC
    <3>1. s[i] \in Chars /\ s[i] \notin WideBytes
      BY <1>1, PlainAppend DEF Plain
    <3>2. QED
      BY <3>1, QuotedType
  <2>2. xs = [i \in 1..n |-> Quoted(s[i])]
    BY <1>1 DEF QuotedItems
  <2> HIDE DEF xs, SC, n
  <2>3. QED
    BY <1>1, <2>1, <2>2
<1> HIDE DEF q, SC, n, xs, t
<1>4. ys = [i \in 1..(n + 1) |-> Quoted(t[i])]
  BY <1>1 DEF QuotedItems
<1> HIDE DEF ys
<1>5. ys = Append(xs, q)
  <2>1. \A i \in 1..n : Quoted(t[i]) = xs[i]
    BY <1>1, <1>3
  <2>2. Quoted(t[n + 1]) = q
    BY <1>1 DEF q
  <2>3. \A i \in 1..(n + 1) : ys[i] = IF i = n + 1 THEN q ELSE xs[i]
    <3>1. \A i \in 1..(n + 1) : i # n + 1 => i \in 1..n
      BY <1>1
    <3>2. QED
      BY <1>4, <2>1, <2>2, <3>1
  <2>4. ys \in Seq(SC) /\ Len(ys) = n + 1
    <3>1. \A i \in 1..(n + 1) : Quoted(t[i]) \in SC
      <4>1. \A i \in 1..n : xs[i] \in SC
        BY <1>3
      <4>2. \A i \in 1..(n + 1) : i # n + 1 => i \in 1..n
        BY <1>1
      <4>3. QED
        BY <1>2, <2>1, <2>2, <4>1, <4>2
    <3>2. QED
      BY <1>1, <1>4, <3>1
  <2>5. QED
    BY <1>1, <1>2, <1>3, <2>3, <2>4
<1>6. FlattenSeq(xs) \in Seq(Chars) /\ FlattenSeq(Append(xs, q)) = FlattenSeq(xs) \o q
  BY <1>2, <1>3, FlattenAppend DEF SC
<1>7. quote(s) = FlattenSeq(xs) /\ quote(t) = FlattenSeq(ys)
  BY ItemsOf DEF xs, ys
<1>8. QED
  BY <1>5, <1>6, <1>7 DEF t, q

\* What quote makes of s, and why the last character of it matters: a "%" there
\* could be taken for the beginning of an escape.
QuotedWell(s) ==
    /\ quote(s) \in Seq(Chars)
    /\ Unquote(quote(s)) = s
    /\ \A i \in 1..Len(quote(s)) : quote(s)[i] # "?"
    /\ quote(s) # <<>> /\ quote(s)[Len(quote(s))] = "%" => s # <<>> /\ s[Len(s)] = "%"
    /\ s # <<>> => quote(s) # <<>>

LEMMA OfEmpty == quote(<<>>) = <<>> /\ Unquote(<<>>) = <<>>
<1>1. QuotedItems(<<>>) = <<>> /\ UnquotedItems(<<>>) = <<>>
  BY DEF QuotedItems, UnquotedItems
<1>2. FlattenSeq(<<>>) = <<>>
  <2>1. Len(<<>>) = 0
    OBVIOUS
  <2>2. QED
    BY <2>1, Zenon DEF FlattenSeq
<1>3. QED
  BY <1>1, <1>2, ItemsOf

\* The server undoes quote.
LEMMA UnquoteUndoesQuote ==
    ASSUME NEW r \in Seq(Chars), Plain(r)
    PROVE  QuotedWell(r)
<1> DEFINE T == {s \in Seq(Chars) : Plain(s) => QuotedWell(s)}
<1>1. <<>> \in T
  <2>1. QuotedWell(<<>>)
    <3>1. \A i \in 1..Len(quote(<<>>)) : quote(<<>>)[i] # "?"
      BY OfEmpty
    <3>2. quote(<<>>) \in Seq(Chars)
      <4>1. <<>> \in Seq(Chars)
        OBVIOUS
      <4>2. QED
        BY <4>1, OfEmpty, Zenon
    <3>3. quote(<<>>) = <<>> /\ Unquote(quote(<<>>)) = <<>>
      BY OfEmpty, Zenon
    <3>4. QED
      BY <3>1, <3>2, <3>3, Zenon DEF QuotedWell
  <2>2. QED
    BY <2>1
<1>2. ASSUME NEW s \in Seq(Chars), NEW h \in Chars, s \in T PROVE Append(s, h) \in T
  <2> DEFINE t == Append(s, h)
             u == quote(s)
             v == quote(t)
  <2>0. t \in Seq(Chars) /\ t # <<>> /\ t[Len(t)] = h
    OBVIOUS
  <2> SUFFICES ASSUME Plain(t) PROVE QuotedWell(t)
    BY <2>0
  <2>1. /\ Plain(s) /\ h \notin WideBytes
        /\ ~(s # <<>> /\ s[Len(s)] = "%" /\ h \in DOMAIN Byte)
    BY PlainAppend
  <2>2. QuotedWell(s)
    BY <1>2, <2>1
  <2>3. u \in Seq(Chars) /\ v = u \o Quoted(h)
    BY QuoteAppend
  <2>4. /\ Unquote(u) = s /\ \A i \in 1..Len(u) : u[i] # "?"
        /\ u # <<>> /\ u[Len(u)] = "%" => s # <<>> /\ s[Len(s)] = "%"
    BY <2>2 DEF QuotedWell
  <2> HIDE DEF u, v
  <2>5. CASE Quoted(h) = <<h>> /\ h # "?"
    <3>1. v = Append(u, h)
      BY <2>3, <2>5
    <3>2. /\ v \in Seq(Chars) /\ v # <<>> /\ v[Len(v)] = h
          /\ \A i \in 1..Len(v) : v[i] # "?"
      BY <2>3, <2>4, <2>5, <3>1
    <3>3. Unquote(v) = Append(Unquote(u), h)
      <4>1. ~(u # <<>> /\ u[Len(u)] = "%" /\ h \in DOMAIN Byte)
        BY <2>1, <2>4
      <4>2. QED
        BY <2>3, <3>1, <4>1, UnquotePlain
    <3>4. Unquote(v) = t
      BY <2>4, <3>3
    <3> HIDE DEF t
    <3>5. QED
      BY <2>0, <3>2, <3>4, Zenon DEF QuotedWell, v
  <2>6. CASE \E d \in DOMAIN Byte : /\ Quoted(h) = <<"%", d>> /\ Byte[d] = h
                                    /\ d # "%" /\ d # "?"
    <3>1. PICK d \in DOMAIN Byte : /\ Quoted(h) = <<"%", d>> /\ Byte[d] = h
                                   /\ d # "%" /\ d # "?"
      BY <2>6
    <3>2. "%" \in Chars /\ d \in Chars
      BY DEF Chars
    <3>3. v = Append(Append(u, "%"), d)
      BY <2>3, <3>1, <3>2
    <3>4. /\ v \in Seq(Chars) /\ v # <<>> /\ v[Len(v)] = d
          /\ \A i \in 1..Len(v) : v[i] # "?"
      BY <2>3, <2>4, <3>1, <3>2, <3>3
    <3>5. Unquote(v) = t
      BY <2>3, <2>4, <3>1, <3>3, UnquoteEscape
    <3> HIDE DEF t
    <3>6. QED
      BY <2>0, <3>1, <3>4, <3>5, Zenon DEF QuotedWell, v
  <2>7. QED
    BY <2>1, <2>5, <2>6, QuotedIs
<1> HIDE DEF T
<1>3. Seq(Chars) \subseteq T
  BY <1>1, <1>2, Sequences
<1>4. QED
  BY <1>3 DEF T

-----------------------------------------------------------------------------
(* Path and query. *)

\* The place of the first "?", or 0.
Mark(s) == SelectInSeq(s, LAMBDA c : c = "?")

\* A set of naturals that is not empty has a least.
LEMMA Least ==
    ASSUME NEW S, S \subseteq Nat, S # {}
    PROVE  \E x \in S : \A y \in S : x <= y
<1>1. \E x \in S : \A y \in S : ~(<<y, x>> \in OpToRel(<, Nat))
  BY NatLessThanWellFounded, WFMin, Zenon
<1>2. PICK x \in S : \A y \in S : ~(<<y, x>> \in OpToRel(<, Nat))
  BY <1>1
<1>3. \A y \in S : ~(y < x)
  BY <1>2, Zenon DEF OpToRel
<1>4. QED
  BY <1>3

LEMMA MarkIs ==
    ASSUME NEW s \in Seq(Chars)
    PROVE  \/ Mark(s) = 0 /\ \A i \in 1..Len(s) : s[i] # "?"
           \/ /\ Mark(s) \in 1..Len(s) /\ s[Mark(s)] = "?"
              /\ \A i \in 1..Len(s) : i < Mark(s) => s[i] # "?"
<1> DEFINE I == {i \in 1..Len(s) : s[i] = "?"}
<1>1. Mark(s) = IF I # {} THEN CHOOSE x \in I : \A y \in I : x <= y ELSE 0
  BY Zenon DEF Mark, SelectInSeq, Min
<1>2. I \subseteq Nat
  OBVIOUS
<1>3. CASE I = {}
  BY <1>1, <1>3
<1>4. CASE I # {}
  <2>1. \E x \in I : \A y \in I : x <= y
    <3> HIDE DEF I
    <3>1. QED
      BY <1>2, <1>4, Least
  <2>2. Mark(s) \in I /\ \A y \in I : Mark(s) <= y
    <3> HIDE DEF I
    <3>1. Mark(s) = CHOOSE x \in I : \A y \in I : x <= y
      BY <1>1, <1>4, Zenon
    <3>2. QED
      BY <2>1, <3>1, Zenon
  <2>3. \A i \in 1..Len(s) : i < Mark(s) => s[i] # "?"
    <3>1. Mark(s) \in Nat
      BY <1>2, <2>2
    <3>2. QED
      BY <2>2, <3>1
  <2>4. QED
    BY <2>2, <2>3
<1>5. QED
  BY <1>3, <1>4

\* What a target in origin form is taken for.
PathOf(s)  == IF Mark(s) = 0 THEN s ELSE SubSeq(s, 1, Mark(s) - 1)
QueryOf(s) == IF Mark(s) = 0 THEN <<>> ELSE SubSeq(s, Mark(s) + 1, Len(s))

LEMMA ArrivalIs ==
    ASSUME NEW target, NEW s, OriginForm(target) = s
    PROVE  /\ Arrival(target).path = Unquote(PathOf(s))
           /\ Arrival(target).query = QueryOf(s)
           /\ Arrival(target) = [path |-> Unquote(PathOf(s)), query |-> QueryOf(s)]
<1>1. Arrival(target) = [path |-> Unquote(PathOf(s)), query |-> QueryOf(s)]
  BY Zenon DEF Arrival, PathOf, QueryOf, Mark
<1>2. QED
  BY <1>1

\* What request_target leaves out makes no difference.
LEMMA TargetArrives ==
    ASSUME NEW url, url.target \in Seq(Chars), url.target # <<>>, url.target[1] # "?",
           Authority \notin Range(url.target)
    PROVE  LET s == url.target
           IN  Arrival(request_target(url)) =
                   [path |-> Unquote(PathOf(s)), query |-> QueryOf(s)]
<1> DEFINE s == url.target
           n == Len(s)
           r == request_target(url)
<1>1. s \in Seq(Chars) /\ n \in Nat /\ n > 0 /\ s[1] # "?" /\ \A i \in 1..n : s[i] # Authority
  <2>1. s \in Seq(Chars) /\ n \in Nat /\ n > 0 /\ s[1] # "?"
    OBVIOUS
  <2>2. DOMAIN s = 1..n
    OBVIOUS
  <2>3. QED
    BY <2>1, <2>2 DEF Range
<1>2. r = IF Mark(s) = n THEN SubSeq(s, 1, n - 1) ELSE s
  BY Zenon DEF request_target, Mark, Front
<1> HIDE DEF r, n, s
<1>3. CASE Mark(s) # n
  <2>1. r = s /\ OriginForm(s) = s
    <3>1. r = s
      BY <1>2, <1>3
    <3>2. Head(s) # Authority
      BY <1>1 DEF n
    <3>3. QED
      BY <3>1, <3>2 DEF OriginForm
  <2>2. QED
    BY <2>1, ArrivalIs DEF r, s
<1>4. CASE Mark(s) = n
  <2>1. /\ r = SubSeq(s, 1, n - 1) /\ n \in 2..n /\ s[n] = "?"
        /\ \A i \in 1..(n - 1) : s[i] # "?"
    <3>1. n > 0 /\ s[n] = "?" /\ \A i \in 1..Len(s) : i < n => s[i] # "?"
      BY <1>1, <1>4, MarkIs
    <3>2. n # 1
      BY <1>1, <3>1
    <3>3. QED
      BY <1>1, <1>2, <1>4, <3>1, <3>2 DEF n
  <2>2. /\ r \in Seq(Chars) /\ Len(r) = n - 1 /\ r # <<>>
        /\ \A i \in 1..(n - 1) : r[i] = s[i]
    <3>1. SubSeq(s, 1, n - 1) = [i \in 1..(n - 1) |-> s[i]]
      BY <1>1, <2>1
    <3>2. \A i \in 1..(n - 1) : s[i] \in Chars
      BY <1>1, <2>1 DEF n
    <3>3. n - 1 \in Nat /\ n - 1 # 0
      BY <1>1, <2>1
    <3>4. r \in Seq(Chars) /\ Len(r) = n - 1 /\ \A i \in 1..(n - 1) : r[i] = s[i]
      BY <2>1, <3>1, <3>2, <3>3
    <3>5. QED
      BY <3>3, <3>4
  <2>3. OriginForm(r) = r
    <3>1. Head(r) # Authority
      BY <1>1, <2>1, <2>2
    <3>2. QED
      BY <3>1 DEF OriginForm
  <2>4. Mark(r) = 0
    <3>1. \A i \in 1..Len(r) : r[i] # "?"
      BY <2>1, <2>2
    <3>2. QED
      BY <2>2, <3>1, MarkIs
  <2>5. PathOf(r) = PathOf(s) /\ QueryOf(r) = QueryOf(s)
    <3>1. n # 0
      BY <2>1
    <3>2. PathOf(r) = r /\ PathOf(s) = SubSeq(s, 1, n - 1)
      BY <1>4, <2>4, <3>1 DEF PathOf
    <3>3. SubSeq(s, n + 1, n) = <<>>
      BY <1>1
    <3>4. QueryOf(r) = <<>> /\ QueryOf(s) = SubSeq(s, n + 1, n)
      BY <1>4, <2>4, <3>1 DEF QueryOf, n
    <3>5. QED
      BY <2>1, <3>2, <3>3, <3>4
  <2>6. QED
    BY <2>3, <2>5, ArrivalIs DEF r, s
<1>5. QED
  BY <1>3, <1>4

LEMMA PartsType ==
    ASSUME NEW s \in Seq(Chars), s # <<>>, s[1] # "?"
    PROVE  PathOf(s) \in Seq(Chars) /\ PathOf(s) # <<>> /\ QueryOf(s) \in Seq(Chars)
<1> DEFINE n == Len(s)
           m == Mark(s)
<1>1. n \in Nat /\ n > 0 /\ DOMAIN s = 1..n /\ \A i \in 1..n : s[i] \in Chars
  OBVIOUS
<1>2. m = 0 \/ (m \in 1..n /\ s[m] = "?")
  BY MarkIs
<1> HIDE DEF m, n
<1>3. CASE m = 0
  <2>1. PathOf(s) = s /\ QueryOf(s) = <<>>
    BY <1>3, Zenon DEF PathOf, QueryOf, m
  <2>2. <<>> \in Seq(Chars)
    OBVIOUS
  <2>3. QED
    BY <2>1, <2>2, Zenon
<1>4. CASE m \in 1..n /\ s[m] = "?"
  <2>1. m \in 2..n
    <3>1. m # 1
      BY <1>4
    <3>2. QED
      BY <1>1, <1>4, <3>1
  <2>2. PathOf(s) = SubSeq(s, 1, m - 1) /\ QueryOf(s) = SubSeq(s, m + 1, n)
    <3>1. m # 0
      BY <1>1, <2>1
    <3>2. QED
      BY <3>1, Zenon DEF PathOf, QueryOf, m, n
  <2>3. SubSeq(s, 1, m - 1) = [i \in 1..(m - 1) |-> s[i]]
    BY <1>1, <2>1
  <2>4. SubSeq(s, m + 1, n) = [i \in 1..(n - m) |-> s[m + i]]
    BY <1>1, <2>1
  <2>5. [i \in 1..(m - 1) |-> s[i]] \in Seq(Chars) /\ [i \in 1..(m - 1) |-> s[i]] # <<>>
    <3>1. \A i \in 1..(m - 1) : s[i] \in Chars
      BY <1>1, <2>1
    <3>2. m - 1 \in Nat /\ m - 1 > 0
      BY <1>1, <2>1
    <3>3. QED
      BY <3>1, <3>2
  <2>6. [i \in 1..(n - m) |-> s[m + i]] \in Seq(Chars)
    <3>1. \A i \in 1..(n - m) : s[m + i] \in Chars
      BY <1>1, <2>1
    <3>2. n - m \in Nat
      BY <1>1, <2>1
    <3>3. QED
      BY <3>1, <3>2
  <2>7. QED
    BY <2>2, <2>3, <2>4, <2>5, <2>6
<1>5. QED
  BY <1>2, <1>3, <1>4

\* Path and query are found again where they were put together.
LEMMA PartsOf ==
    ASSUME NEW q \in Seq(Chars), NEW query \in Seq(Chars), NEW t,
           \A i \in 1..Len(q) : q[i] # "?",
           t = q \o (IF query = <<>> THEN <<>> ELSE <<"?">> \o query)
    PROVE  t \in Seq(Chars) /\ PathOf(t) = q /\ QueryOf(t) = query
<1> DEFINE n == Len(q)
           m == Len(query)
<1>0. n \in Nat /\ m \in Nat /\ "?" \in Chars
  BY DEF Chars
<1>1. CASE query = <<>>
  <2>1. t = q
    BY <1>1
  <2>2. Mark(t) = 0
    BY <2>1, MarkIs
  <2>3. QED
    BY <1>1, <2>1, <2>2 DEF PathOf, QueryOf
<1>2. CASE query # <<>>
  <2>1. /\ t \in Seq(Chars) /\ Len(t) = n + 1 + m /\ t[n + 1] = "?"
        /\ \A i \in 1..n : t[i] = q[i]
        /\ \A i \in 1..m : t[n + 1 + i] = query[i]
    BY <1>0, <1>2
  <2>2. Mark(t) = n + 1
    <3>1. n + 1 \in 1..Len(t)
      BY <1>0, <2>1
    <3>2. /\ Mark(t) \in 1..Len(t) /\ t[Mark(t)] = "?"
          /\ \A i \in 1..Len(t) : i < Mark(t) => t[i] # "?"
      BY <2>1, <3>1, MarkIs
    <3>3. ~(Mark(t) < n + 1)
      BY <1>0, <2>1, <3>2
    <3>4. ~(n + 1 < Mark(t))
      BY <2>1, <3>1, <3>2
    <3>5. QED
      BY <1>0, <2>1, <3>2, <3>3, <3>4
  <2>3. PathOf(t) = SubSeq(t, 1, n) /\ QueryOf(t) = SubSeq(t, n + 2, n + 1 + m)
    <3>1. Mark(t) # 0 /\ Mark(t) - 1 = n /\ Mark(t) + 1 = n + 2
      BY <1>0, <2>2
    <3>2. QED
      BY <2>1, <3>1, Zenon DEF PathOf, QueryOf
  <2>4. SubSeq(t, 1, n) = [i \in 1..n |-> q[i]]
    BY <1>0, <2>1
  <2>5. SubSeq(t, n + 2, n + 1 + m) = [i \in 1..m |-> query[i]]
    <3>1. SubSeq(t, n + 2, n + 1 + m) = [i \in 1..m |-> t[n + 1 + i]]
      BY <1>0, <2>1
    <3>2. QED
      BY <2>1, <3>1
  <2>6. q = [i \in 1..n |-> q[i]] /\ query = [i \in 1..m |-> query[i]]
    OBVIOUS
  <2>7. QED
    BY <2>1, <2>3, <2>4, <2>5, <2>6
<1>3. QED
  BY <1>1, <1>2

\* The target that a replay asks for arrives as the request did.
LEMMA AsksTheSame ==
    ASSUME NEW target, NEW environ, Received(target, environ), build_url(environ) # NoUrl
    PROVE  \/ Arrival(request_target(build_url(environ))) =
                  [path |-> environ.path, query |-> environ.query]
           \/ environ.raw = <<>> /\ ~Plain(environ.path)
           \/ Authority \in Range(build_url(environ).target)
<1> DEFINE url == build_url(environ)
           o   == OriginForm(target)
<1>1. url.target = Target(environ)
  <2>1. url = [scheme |-> Scheme(environ), host |-> Host(environ), target |-> Target(environ)]
    BY Zenon DEF build_url
  <2>2. QED
    BY <2>1
<1>2. /\ target \in Seq(Chars) /\ target # <<>> /\ o # <<>> /\ Head(o) = "/"
      /\ environ.path = Arrival(target).path /\ environ.query = Arrival(target).query
      /\ environ.raw \in {<<>>, target}
  BY DEF Received, Chars
<1>3. o \in Seq(Chars) /\ (Head(target) # Authority => o = target)
  BY <1>2 DEF OriginForm
<1>4. environ.path = Unquote(PathOf(o)) /\ environ.query = QueryOf(o)
  BY <1>2, ArrivalIs
<1> HIDE DEF url, o
<1>5. o[1] # "?"
  BY <1>2, <1>3
<1>6. /\ environ.path \in Seq(Chars) /\ environ.path # <<>> /\ environ.query \in Seq(Chars)
  BY <1>2, <1>3, <1>4, <1>5, PartsType, UnquoteType
<1> SUFFICES ASSUME Authority \notin Range(url.target), environ.raw = <<>> => Plain(environ.path)
             PROVE  Arrival(request_target(url)) = [path |-> environ.path, query |-> environ.query]
  BY DEF url
<1>7. CASE environ.raw # <<>>
  <2>1. environ.raw = target
    BY <1>2, <1>7
  <2>2. url.target = IF Head(target) = "/" THEN target ELSE <<"/">> \o target
    BY <1>1, <1>7, <2>1, Zenon DEF Target
  <2>3. Head(target) \in Range(url.target)
    <3>1. CASE Head(target) = "/"
      BY <1>2, <2>2, <3>1 DEF Range
    <3>2. CASE Head(target) # "/"
      <4> DEFINE t == <<"/">> \o target
      <4>1. 2 \in DOMAIN t /\ t[2] = Head(target)
        BY <1>2
      <4>2. url.target = t
        BY <2>2, <3>2
      <4> HIDE DEF t
      <4>3. QED
        BY <4>1, <4>2 DEF Range
    <3>3. QED
      BY <3>1, <3>2
  <2>4. o = target
    BY <1>3, <2>3, Zenon
  <2>5. url.target = target
    BY <1>2, <2>2, <2>4
  <2>6. /\ url.target \in Seq(Chars) /\ url.target # <<>> /\ url.target[1] # "?"
    BY <1>2, <1>5, <2>4, <2>5
  <2>7. Arrival(request_target(url)) =
            [path |-> Unquote(PathOf(url.target)), query |-> QueryOf(url.target)]
    BY <2>6, TargetArrives
  <2>8. QED
    BY <1>4, <2>4, <2>5, <2>7, Zenon
<1>8. CASE environ.raw = <<>>
  <2> DEFINE q == quote(environ.path)
             query == environ.query
             t == url.target
  <2>1. t = q \o (IF query = <<>> THEN <<>> ELSE <<"?">> \o query)
    BY <1>1, <1>8, Zenon DEF Target
  <2>2. QuotedWell(environ.path)
    BY <1>6, <1>8, UnquoteUndoesQuote
  <2>3. /\ q \in Seq(Chars) /\ q # <<>> /\ Unquote(q) = environ.path
        /\ \A i \in 1..Len(q) : q[i] # "?"
    BY <1>6, <2>2 DEF QuotedWell
  <2>4. t[1] # "?" /\ t # <<>>
    <3>1. q[1] # "?" /\ Len(q) > 0
      BY <2>3
    <3>2. t[1] = q[1] /\ t # <<>>
      <4> HIDE DEF t, q, query
      <4>1. query \in Seq(Chars)
        BY <1>6 DEF query
      <4>2. CASE query = <<>>
        BY <2>1, <2>3, <4>2
      <4>3. CASE query # <<>>
        <5>1. <<"?">> \o query \in Seq(Chars)
          BY <4>1 DEF Chars
        <5> DEFINE rest == <<"?">> \o query
        <5>2. rest \in Seq(Chars) /\ t = q \o rest
          BY <2>1, <4>3, <5>1
        <5> HIDE DEF rest
        <5>3. QED
          BY <2>3, <3>1, <5>2
      <4>4. QED
        BY <4>2, <4>3
    <3>3. QED
      BY <3>1, <3>2
  <2> HIDE DEF q, t
  <2>5. t \in Seq(Chars) /\ PathOf(t) = q /\ QueryOf(t) = query
    <3>1. query \in Seq(Chars)
      BY <1>6 DEF query
    <3> HIDE DEF query
    <3>2. QED
      BY <2>1, <2>3, <3>1, PartsOf, Zenon
  <2>6. Arrival(request_target(url)) = [path |-> Unquote(PathOf(t)), query |-> QueryOf(t)]
    BY <2>4, <2>5, TargetArrives DEF t
  <2>7. QED
    BY <2>3, <2>5, <2>6
<1>9. QED
  BY <1>7, <1>8
-----------------------------------------------------------------------------
(* The replay asks for what was asked. *)

\* Only what a wrapper captured is replayed, and only with a URL.
ResourceInv ==
    /\ Route(captured.path) = "captured"
    /\ wire # {} => captured.url # NoUrl

LEMMA ResourceInvInductive == Spec => []ResourceInv
<1>1. Init => ResourceInv
  BY DEF Init, ResourceInv
<1>2. ResourceInv /\ [Next]_vars => ResourceInv'
  <2> SUFFICES ASSUME ResourceInv, [Next]_vars PROVE ResourceInv'
    OBVIOUS
  <2> USE DEF rowVars, browserVars, serverVars, attemptVars
  <2>1. CASE captured' = captured /\ wire' \in {wire, {}}
    BY <2>1 DEF ResourceInv
  <2>2. CASE Send
    <3>1. captured' = captured /\ (wire' = wire \/ captured.url # NoUrl)
      BY <2>2, Zenon DEF Send, json_error, Reply
    <3>2. QED
      BY <3>1 DEF ResourceInv
  <2>3. CASE \/ Complete \/ Disappear \/ Restart \/ Render \/ Edit \/ Type \/ Cancel
             \/ Submit \/ PollNotices \/ Answered \/ Receive \/ Load \/ Create \/ Wait
             \/ Store \/ UNCHANGED vars
    <3>1. captured' = captured /\ wire' \in {wire, {}}
      BY <2>3 DEF Complete, Disappear, Restart, Render, Edit, Type, Cancel, Submit,
         PollNotices, Answered, Receive, Load, Create, Wait, Store, vars
    <3>2. QED
      BY <2>1, <3>1
  <2>4. QED
    BY <2>2, <2>3 DEF Next
<1>3. QED
  BY <1>1, <1>2, PTL DEF Spec

\* build_url and resolve_target together: the server that captured a request
\* takes its replay for one of the same path and query, so that its wrapper
\* captures that too, with the exceptions that SameResource names.
THEOREM SameResourceIsAsked == Spec => []SameResource
<1>1. FormInv /\ WireInv /\ ResourceInv => SameResource
  <2> SUFFICES ASSUME FormInv, WireInv, ResourceInv, NEW request \in wire
               PROVE  \/ /\ Arrival(request.target) =
                                [path |-> captured.path, query |-> captured.query]
                         /\ Route(Arrival(request.target).path) = "captured"
                      \/ /\ captured.provenance # "server_specific"
                         /\ \/ \E i \in DOMAIN captured.path : Escaped(captured.path, i)
                            \/ WideBytes \cap Range(captured.path) # {}
                      \/ Authority \in Range(captured.url.target)
    BY Zenon DEF SameResource
  <2>1. PICK x \in Exchanges : captured = ExchangeCapture(x.environ, x.body, x.incomplete)
    BY DEF FormInv, Captures
  <2> DEFINE environ == x.environ
             url     == build_url(environ)
  <2>2. /\ captured.url = url /\ captured.provenance = provenance(environ)
        /\ captured.path = environ.path /\ captured.query = environ.query
    BY <2>1 DEF ExchangeCapture
  <2>3. Received(x.target, environ)
    BY EditAssumption
  <2>4. url # NoUrl
    BY <2>2 DEF ResourceInv
  <2>5. request.target = request_target(url)
    BY <2>2 DEF WireInv, OnWire
  <2> HIDE DEF environ, url
  <2>6. \/ Arrival(request_target(url)) = [path |-> environ.path, query |-> environ.query]
        \/ environ.raw = <<>> /\ ~Plain(environ.path)
        \/ Authority \in Range(url.target)
    BY <2>3, <2>4, AsksTheSame DEF url
  <2>7. ASSUME environ.raw = <<>>
        PROVE  captured.provenance # "server_specific"
    BY <2>2, <2>7 DEF provenance
  <2>8. ASSUME ~Plain(captured.path)
        PROVE  \/ \E i \in DOMAIN captured.path : Escaped(captured.path, i)
               \/ WideBytes \cap Range(captured.path) # {}
    BY <2>8 DEF Plain, Range
  <2>9. ASSUME Arrival(request.target) = [path |-> captured.path, query |-> captured.query]
        PROVE  Route(Arrival(request.target).path) = "captured"
    <3>1. Arrival(request.target).path = captured.path
      BY <2>9
    <3>2. QED
      BY <3>1, Zenon DEF ResourceInv
  <2>10. QED
    BY <2>2, <2>5, <2>6, <2>7, <2>8, <2>9
<1>2. QED
  BY <1>1, FormInvInductive, WireInvInductive, ResourceInvInductive, PTL
=============================================================================
