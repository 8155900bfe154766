--------------------------- MODULE WsProviderProofs ---------------------------
(***************************************************************************)
(* Proofs about WsProvider, for any requests of the application and any    *)
(* bounds on losses, connections and notifications.                        *)
(***************************************************************************)
EXTENDS WsProvider, SequenceTheorems, TLAPS

-----------------------------------------------------------------------------
(* Entries of sequences, by their places.                                  *)

LEMMA IsASequence ==
    ASSUME NEW S, NEW n \in Nat, NEW s \in [1..n -> S]
    PROVE  s \in Seq(S)
OBVIOUS

LEMMA TailEntries ==
    ASSUME NEW S, NEW s \in Seq(S), s # <<>>
    PROVE  /\ Tail(s) \in Seq(S) /\ 1 \in DOMAIN s /\ Head(s) = s[1] /\ s[1] \in S
           /\ \A i \in DOMAIN Tail(s) :
                  i \in Nat \ {0} /\ i + 1 \in DOMAIN s /\ Tail(s)[i] = s[i + 1]
           /\ \A i \in DOMAIN s : i # 1 => i - 1 \in DOMAIN Tail(s) /\ Tail(s)[i - 1] = s[i]
OBVIOUS

LEMMA AppendEntries ==
    ASSUME NEW S, NEW s \in Seq(S), NEW e \in S
    PROVE  /\ Append(s, e) \in Seq(S)
           /\ \A i \in DOMAIN Append(s, e) : \/ i \in DOMAIN s /\ Append(s, e)[i] = s[i]
                                             \/ i = Len(s) + 1 /\ Append(s, e)[i] = e
           /\ \A i \in DOMAIN s : i \in DOMAIN Append(s, e) /\ Append(s, e)[i] = s[i]
           /\ Len(s) + 1 \in DOMAIN Append(s, e) /\ Append(s, e)[Len(s) + 1] = e
           /\ Len(s) + 1 \notin DOMAIN s
<1>1. /\ Len(s) \in Nat /\ DOMAIN s = 1..Len(s)
  OBVIOUS
<1>2. /\ DOMAIN Append(s, e) = 1..(Len(s) + 1) /\ Append(s, e) \in Seq(S)
      /\ \A i \in 1..Len(s) : Append(s, e)[i] = s[i]
      /\ Append(s, e)[Len(s) + 1] = e
  BY AppendProperties
<1>. QED
  BY <1>1, <1>2

(* A sequence without the entry at k.                                      *)
LEMMA RemoveAtEntries ==
    ASSUME NEW S, NEW s \in Seq(S), NEW k \in DOMAIN s
    PROVE  /\ RemoveAt(s, k) \in Seq(S)
           /\ \A i \in DOMAIN RemoveAt(s, k) :
                  \/ i \in DOMAIN s /\ i < k /\ RemoveAt(s, k)[i] = s[i]
                  \/ i + 1 \in DOMAIN s /\ i + 1 > k /\ i \in Nat /\ RemoveAt(s, k)[i] = s[i + 1]
           /\ \A j \in DOMAIN s : j # k => \E i \in DOMAIN RemoveAt(s, k) : RemoveAt(s, k)[i] = s[j]
<1> DEFINE a == SubSeq(s, 1, k - 1)
           b == SubSeq(s, k + 1, Len(s))
<1>1. Len(s) \in Nat /\ DOMAIN s = 1..Len(s) /\ k \in 1..Len(s)
      /\ \A i \in 1..Len(s) : s[i] \in S
  OBVIOUS
<1>2. a \in Seq(S) /\ Len(a) = k - 1 /\ \A i \in 1..(k - 1) : a[i] = s[i]
  <2>1. \A i \in 1..(k - 1) : s[i] \in S
    BY <1>1
  <2>2. /\ a \in Seq(S) /\ Len(a) = IF 1 <= k - 1 THEN (k - 1) - 1 + 1 ELSE 0
        /\ \A i \in 1..((k - 1) - 1 + 1) : a[i] = s[1 + i - 1]
    BY <1>1, <2>1, SubSeqProperties
  <2>. HIDE DEF a
  <2>. QED
    BY <1>1, <2>2
<1>3. /\ b \in Seq(S) /\ Len(b) = Len(s) - k
      /\ \A i \in 1..(Len(s) - k) : b[i] = s[k + i]
  <2>1. \A i \in (k + 1)..Len(s) : s[i] \in S
    BY <1>1
  <2>2. /\ b \in Seq(S) /\ Len(b) = IF k + 1 <= Len(s) THEN Len(s) - (k + 1) + 1 ELSE 0
        /\ \A i \in 1..(Len(s) - (k + 1) + 1) : b[i] = s[k + 1 + i - 1]
    BY <1>1, <2>1, SubSeqProperties
  <2>. HIDE DEF b
  <2>3. Len(b) = Len(s) - k
    BY <1>1, <2>2
  <2>4. ASSUME NEW i \in 1..(Len(s) - k) PROVE b[i] = s[k + i]
    <3>1. i \in 1..(Len(s) - (k + 1) + 1) /\ k + 1 + i - 1 = k + i
      BY <1>1
    <3>. QED
      BY <2>2, <3>1
  <2>. QED
    BY <2>2, <2>3, <2>4
<1>4. RemoveAt(s, k) = a \o b
  BY DEF RemoveAt
<1>. HIDE DEF a, b
<1>5. /\ RemoveAt(s, k) \in Seq(S) /\ Len(RemoveAt(s, k)) = Len(s) - 1
      /\ \A i \in 1..(Len(s) - 1) :
             RemoveAt(s, k)[i] = IF i <= k - 1 THEN a[i] ELSE b[i - (k - 1)]
  <2>1. /\ a \o b \in Seq(S) /\ Len(a \o b) = Len(a) + Len(b)
        /\ \A i \in 1..(Len(a) + Len(b)) : (a \o b)[i] = IF i <= Len(a) THEN a[i] ELSE b[i - Len(a)]
    BY <1>2, <1>3, ConcatProperties
  <2>2. Len(a) + Len(b) = Len(s) - 1
    BY <1>1, <1>2, <1>3
  <2>. QED
    BY <1>2, <1>4, <2>1, <2>2
<1>6. \A i \in 1..(Len(s) - 1) : /\ i <= k - 1 => RemoveAt(s, k)[i] = s[i]
                                 /\ i > k - 1 => RemoveAt(s, k)[i] = s[i + 1]
  <2> SUFFICES ASSUME NEW i \in 1..(Len(s) - 1)
               PROVE  /\ i <= k - 1 => RemoveAt(s, k)[i] = s[i]
                      /\ i > k - 1 => RemoveAt(s, k)[i] = s[i + 1]
    OBVIOUS
  <2>1. i <= k - 1 => RemoveAt(s, k)[i] = s[i]
    BY <1>1, <1>2, <1>5
  <2>2. ASSUME i > k - 1 PROVE RemoveAt(s, k)[i] = s[i + 1]
    <3>1. i - (k - 1) \in 1..(Len(s) - k) /\ k + (i - (k - 1)) = i + 1
      BY <1>1, <2>2
    <3>2. b[i - (k - 1)] = s[k + (i - (k - 1))]
      BY <1>3, <3>1
    <3>3. RemoveAt(s, k)[i] = b[i - (k - 1)]
      <4>1. RemoveAt(s, k)[i] = IF i <= k - 1 THEN a[i] ELSE b[i - (k - 1)]
        BY <1>5
      <4>2. ~(i <= k - 1)
        BY <1>1, <2>2
      <4>. QED
        BY <4>1, <4>2
    <3>. QED
      BY <3>1, <3>2, <3>3
  <2>. QED
    BY <2>1, <2>2
<1>7. DOMAIN RemoveAt(s, k) = 1..(Len(s) - 1)
  BY <1>1, <1>5
<1>8. ASSUME NEW j \in DOMAIN s, j # k
      PROVE  \E i \in DOMAIN RemoveAt(s, k) : RemoveAt(s, k)[i] = s[j]
  <2>1. CASE j < k
    <3>1. j \in 1..(Len(s) - 1) /\ j <= k - 1
      BY <1>1, <2>1
    <3>. QED
      BY <1>6, <1>7, <3>1
  <2>2. CASE j > k
    <3>1. j - 1 \in 1..(Len(s) - 1) /\ j - 1 > k - 1 /\ (j - 1) + 1 = j
      BY <1>1, <2>2
    <3>. QED
      BY <1>6, <1>7, <3>1
  <2>. QED
    BY <1>1, <1>8, <2>1, <2>2
<1>9. ASSUME NEW i \in DOMAIN RemoveAt(s, k)
      PROVE  \/ i \in DOMAIN s /\ i < k /\ RemoveAt(s, k)[i] = s[i]
             \/ i + 1 \in DOMAIN s /\ i + 1 > k /\ i \in Nat /\ RemoveAt(s, k)[i] = s[i + 1]
  BY <1>1, <1>6, <1>7
<1>. QED
  BY <1>5, <1>8, <1>9

(* Removing the entry of a key keeps the others, each once.                *)
LEMMA RemoveEntries ==
    ASSUME NEW S, NEW s \in Seq(S), NEW key
    PROVE  /\ RemoveEntry(s, key) \in Seq(S)
           /\ \A j \in DOMAIN s : s[j].id # key =>
                  \E i \in DOMAIN RemoveEntry(s, key) : RemoveEntry(s, key)[i] = s[j]
           /\ \A h, i \in DOMAIN RemoveEntry(s, key) : \E j, k \in DOMAIN s :
                  /\ RemoveEntry(s, key)[h] = s[j] /\ RemoveEntry(s, key)[i] = s[k]
                  /\ h # i => j # k
           /\ (\A i, j \in DOMAIN s : s[i].id = s[j].id => i = j) =>
                  \A i \in DOMAIN RemoveEntry(s, key) : RemoveEntry(s, key)[i].id # key
<1>1. CASE \E i \in DOMAIN s : s[i].id = key
  <2>1. PICK k \in DOMAIN s : s[k].id = key /\ RemoveEntry(s, key) = RemoveAt(s, k)
    BY <1>1 DEF RemoveEntry
  <2>2. /\ RemoveAt(s, k) \in Seq(S)
        /\ \A i \in DOMAIN RemoveAt(s, k) :
               \/ i \in DOMAIN s /\ i < k /\ RemoveAt(s, k)[i] = s[i]
               \/ i + 1 \in DOMAIN s /\ i + 1 > k /\ i \in Nat /\ RemoveAt(s, k)[i] = s[i + 1]
        /\ \A j \in DOMAIN s : j # k => \E i \in DOMAIN RemoveAt(s, k) : RemoveAt(s, k)[i] = s[j]
    BY RemoveAtEntries
  <2>3. DOMAIN s \subseteq Nat
    OBVIOUS
  <2>4. ASSUME NEW h \in DOMAIN RemoveAt(s, k), NEW i \in DOMAIN RemoveAt(s, k)
        PROVE  \E j, l \in DOMAIN s : /\ RemoveAt(s, k)[h] = s[j] /\ RemoveAt(s, k)[i] = s[l]
                                      /\ h # i => j # l
    <3>1. CASE h \in DOMAIN s /\ h < k /\ RemoveAt(s, k)[h] = s[h]
      BY <2>2, <2>3, <3>1
    <3>2. CASE h + 1 \in DOMAIN s /\ h + 1 > k /\ h \in Nat /\ RemoveAt(s, k)[h] = s[h + 1]
      BY <2>2, <2>3, <3>2
    <3>. QED
      BY <2>2, <3>1, <3>2
  <2>5. ASSUME \A i, j \in DOMAIN s : s[i].id = s[j].id => i = j
        PROVE  \A i \in DOMAIN RemoveAt(s, k) : RemoveAt(s, k)[i].id # key
    <3>1. \A i \in DOMAIN s : i # k => s[i].id # key
      BY <2>1, <2>5
    <3>. QED
      BY <2>2, <2>3, <3>1
  <2>6. \A j \in DOMAIN s : s[j].id # key => j # k
    BY <2>1
  <2>7. \A j \in DOMAIN s : s[j].id # key =>
            \E i \in DOMAIN RemoveAt(s, k) : RemoveAt(s, k)[i] = s[j]
    BY <2>2, <2>6
  <2>. QED
    BY <2>1, <2>2, <2>4, <2>5, <2>7
<1>2. CASE ~\E i \in DOMAIN s : s[i].id = key
  BY <1>2 DEF RemoveEntry
<1>. QED
  BY <1>1, <1>2
(* What disconnect leaves when it throws: the controllers before the first *)
(* that has a listener closed, those after it as they were.                *)
LEMMA ClosingEntries ==
    ASSUME subscriptions \in Seq(Controllers), NEW k \in DOMAIN subscriptions
    PROVE  /\ ClosedUpTo(k) \in Seq(Controllers)
           /\ \A j \in DOMAIN subscriptions : j > k =>
                  \E i \in DOMAIN ClosedUpTo(k) : ClosedUpTo(k)[i] = subscriptions[j]
<1> DEFINE s == subscriptions
           t == ClosedUpTo(k)
           a == [i \in 1..(k - 1) |-> [s[i] EXCEPT !.closed = TRUE]]
           b == SubSeq(s, k + 1, Len(s))
<1>1. /\ Len(s) \in Nat /\ DOMAIN s = 1..Len(s) /\ k \in 1..Len(s)
      /\ \A i \in 1..Len(s) : s[i] \in Controllers
  BY LenProperties
<1>2. a \in Seq(Controllers) /\ Len(a) = k - 1
  <2>1. k - 1 \in Nat
    BY <1>1
  <2>2. a \in [1..(k - 1) -> Controllers]
    <3>1. \A i \in 1..(k - 1) : s[i] \in Controllers
      BY <1>1
    <3>2. \A e \in Controllers : [e EXCEPT !.closed = TRUE] \in Controllers
      BY DEF Controllers
    <3>. QED
      BY <3>1, <3>2
  <2>3. a \in Seq(Controllers)
    BY <2>1, <2>2, IsASequence
  <2>4. DOMAIN a = 1..(k - 1)
    OBVIOUS
  <2>. HIDE DEF a
  <2>5. Len(a) \in Nat /\ DOMAIN a = 1..Len(a)
    BY <2>3, LenProperties
  <2>. QED
    BY <2>1, <2>3, <2>4, <2>5
<1>3. /\ b \in Seq(Controllers) /\ Len(b) = Len(s) - k
      /\ \A i \in 1..(Len(s) - k) : b[i] = s[k + i]
  <2>1. \A i \in (k + 1)..Len(s) : s[i] \in Controllers
    BY <1>1
  <2>2. /\ b \in Seq(Controllers) /\ Len(b) = IF k + 1 <= Len(s) THEN Len(s) - (k + 1) + 1 ELSE 0
        /\ \A i \in 1..(Len(s) - (k + 1) + 1) : b[i] = s[k + 1 + i - 1]
    BY <1>1, <2>1, SubSeqProperties
  <2>. HIDE DEF b
  <2>3. Len(b) = Len(s) - k
    BY <1>1, <2>2
  <2>4. ASSUME NEW i \in 1..(Len(s) - k) PROVE b[i] = s[k + i]
    <3>1. i \in 1..(Len(s) - (k + 1) + 1) /\ k + 1 + i - 1 = k + i
      BY <1>1
    <3>. QED
      BY <2>2, <3>1
  <2>. QED
    BY <2>2, <2>3, <2>4
<1>4. t = a \o b
  BY DEF ClosedUpTo
<1>. HIDE DEF a, b, s, t
<1>5. /\ t \in Seq(Controllers) /\ Len(t) = Len(s) - 1
      /\ \A i \in 1..(Len(s) - 1) : t[i] = IF i <= k - 1 THEN a[i] ELSE b[i - (k - 1)]
  <2>1. /\ a \o b \in Seq(Controllers) /\ Len(a \o b) = Len(a) + Len(b)
        /\ \A i \in 1..(Len(a) + Len(b)) : (a \o b)[i] = IF i <= Len(a) THEN a[i] ELSE b[i - Len(a)]
    BY <1>2, <1>3, ConcatProperties
  <2>2. Len(a) + Len(b) = Len(s) - 1
    BY <1>1, <1>2, <1>3
  <2>. QED
    BY <1>2, <1>4, <2>1, <2>2
<1>6. ASSUME NEW j \in DOMAIN s, j > k PROVE \E i \in DOMAIN t : t[i] = s[j]
  <2>1. /\ j - 1 \in 1..(Len(s) - 1) /\ ~(j - 1 <= k - 1)
        /\ j - 1 - (k - 1) \in 1..(Len(s) - k) /\ k + (j - 1 - (k - 1)) = j
    BY <1>1, <1>6
  <2>2. t[j - 1] = b[j - 1 - (k - 1)]
    BY <1>5, <2>1
  <2>3. b[j - 1 - (k - 1)] = s[j]
    BY <1>3, <2>1
  <2>4. j - 1 \in DOMAIN t
    BY <1>5, <2>1, LenProperties
  <2>. QED
    BY <2>2, <2>3, <2>4
<1>. QED
  BY <1>5, <1>6 DEF s, t

-----------------------------------------------------------------------------
LEMMA InitInv == Init => Inv
<1> SUFFICES ASSUME Init PROVE Inv
  OBVIOUS
<1>1. \A S : <<>> \in Seq(S) /\ DOMAIN <<>> = {}
  OBVIOUS
<1>2. TypeOK
  BY <1>1, BoundsAssumption DEF Init, TypeOK
<1>3. QueriesInv /\ TrafficInv /\ RunsInv /\ ListenedIsRegistered
  BY <1>1 DEF Init, QueriesInv, TrafficInv, RunsInv, ListenedIsRegistered
<1>4. UnconnectedInv /\ PatientInv /\ AnswersAreOwn /\ NoneForgotten
  BY <1>1 DEF Init, UnconnectedInv, PatientInv, AnswersExpected, AnswersAreOwn, NoneForgotten
<1>. QED
  BY <1>2, <1>3, <1>4 DEF Inv

-----------------------------------------------------------------------------
(* Type correctness.                                                       *)

(* What the node executes next.                                            *)
LEMMA Executing ==
    ASSUME Inv, up # <<>>
    PROVE  /\ up \in Seq(Entries)
           /\ Head(up) = up[1] /\ 1 \in DOMAIN up
           /\ Head(up) \in Entries
           /\ Head(up).id \in Nat /\ Head(up).request \in Requests
           /\ executed[Head(up).request] \in Nat /\ executed[Head(up).request] <= drops
           /\ executed[Head(up).request] + 1 \in 1..(MaxDrops + 1)
<1>1. up \in Seq(Entries)
  BY DEF Inv, TypeOK
<1>2. Head(up) = up[1] /\ 1 \in DOMAIN up /\ Head(up) \in Entries
  BY <1>1, TailEntries
<1>3. Head(up).id \in Nat /\ Head(up).request \in Requests
  BY <1>2 DEF Entries
<1>4. Sending(Head(up).request)
  BY <1>2 DEF Sending
<1>5. executed[Head(up).request] <= drops
  BY <1>3, <1>4 DEF Inv, TrafficInv
<1>6. executed[Head(up).request] \in Nat /\ drops \in 0..MaxDrops /\ MaxDrops \in Nat
  BY <1>3, BoundsAssumption DEF Inv, TypeOK
<1>7. executed[Head(up).request] + 1 \in 1..(MaxDrops + 1)
  BY <1>5, <1>6
<1>. QED
  BY <1>1, <1>2, <1>3, <1>5, <1>6, <1>7

(* The subscription that a continuation of subscribe returns.              *)
LEMMA Returning ==
    ASSUME Inv, NEW r \in Requests, future[r] = "answered", answer[r].request \in Subscribes
    PROVE  answer[r] \in Subscriptions
<1>1. answer[r] \in [request : Requests, run : 1..(MaxDrops + 1)] \cup {NoAnswer}
  BY DEF Inv, TypeOK
<1>2. answer[r].run # 0
  BY DEF Inv, QueriesInv
<1>3. answer[r] # NoAnswer
  BY <1>2 DEF NoAnswer
<1>. QED
  BY <1>1, <1>3 DEF Subscriptions

LEMMA TypeStep == ASSUME Inv, [Next]_vars PROVE TypeOK'
<1>1. TypeOK
  BY DEF Inv
<1>2. CASE Connect
  <2>1. connects' \in 0..MaxConnects
    BY <1>1, <1>2, BoundsAssumption DEF TypeOK, Connect
  <2>. QED
    BY <1>1, <1>2, <2>1 DEF TypeOK, Connect, appVars, nodeVars
<1>3. CASE Connected
  BY <1>1, <1>3 DEF TypeOK, Connected, mapVars, appVars, nodeVars, boundVars
<1>4. CASE Drop
  <2>1. /\ drops' \in 0..MaxDrops /\ live' \subseteq Subscriptions
        /\ \A S : <<>> \in Seq(S)
    BY <1>1, <1>4, BoundsAssumption DEF TypeOK, Drop
  <2>. QED
    BY <1>1, <1>4, <2>1 DEF TypeOK, Drop, mapVars, appVars
<1>5. CASE Reconnected
  <2>1. up' \in Seq(Entries)
    BY <1>1, <1>5, ConcatProperties DEF TypeOK, Reconnected
  <2>. QED
    BY <1>1, <1>5, <2>1 DEF TypeOK, Reconnected, mapVars, appVars, nodeVars, boundVars
<1>6. ASSUME NEW r \in Requests, Send(r) PROVE TypeOK'
  <2>1. future' \in [Requests -> {"idle", "waiting", "sent", "answered", "done", "failed"}]
    BY <1>1, <1>6 DEF TypeOK, Send
  <2>. QED
    BY <1>1, <1>6, <2>1 DEF TypeOK, Send, mapVars, nodeVars, boundVars
<1>7. ASSUME NEW r \in Requests, Transmit(r) PROVE TypeOK'
  <2>1. future' \in [Requests -> {"idle", "waiting", "sent", "answered", "done", "failed"}]
    BY <1>1, <1>7 DEF TypeOK, Transmit
  <2>2. sequence \in Nat /\ sequence' \in Nat
    BY <1>1, <1>7 DEF TypeOK, Transmit
  <2>3. PICK e \in Entries : e = [id |-> sequence, request |-> r]
    BY <2>2 DEF Entries
  <2>4. up' \in Seq(Entries)
    BY <1>1, <1>7, <2>3, AppendEntries DEF TypeOK, Transmit
  <2>5. queries' \in Seq(Entries)
    <3>1. \/ queries' = [i \in DOMAIN queries |-> IF queries[i].id = sequence THEN e ELSE queries[i]]
          \/ queries' = Append(queries, e)
      BY <1>7, <2>3 DEF Transmit, PutQuery
    <3>2. queries \in Seq(Entries)
      BY <1>1 DEF TypeOK
    <3>3. ASSUME queries' = [i \in DOMAIN queries |-> IF queries[i].id = sequence THEN e ELSE queries[i]]
          PROVE  queries' \in Seq(Entries)
      <4>1. Len(queries) \in Nat /\ DOMAIN queries = 1..Len(queries)
            /\ \A i \in 1..Len(queries) : queries[i] \in Entries
        BY <3>2, LenProperties
      <4>2. queries' \in [1..Len(queries) -> Entries]
        BY <2>3, <3>3, <4>1
      <4>. QED
        BY <4>1, <4>2, IsASequence
    <3>. QED
      BY <2>3, <3>1, <3>2, <3>3, AppendEntries
  <2>. QED
    BY <1>1, <1>7, <2>1, <2>2, <2>4, <2>5 DEF TypeOK, Transmit, nodeVars, boundVars
<1>8. ASSUME NEW r \in Requests, Return(r) PROVE TypeOK'
  <2>1. future' \in [Requests -> {"idle", "waiting", "sent", "answered", "done", "failed"}]
    BY <1>1, <1>8 DEF TypeOK, Return
  <2>2. stream' \in [Subscriptions -> {"none", "returned", "listening", "cancelled", "done"}]
    BY <1>1, <1>8 DEF TypeOK, Return
  <2>3. subscriptions' \in Seq(Controllers)
    <3>1. CASE subscriptions' = subscriptions
      BY <1>1, <3>1 DEF TypeOK
    <3>2. CASE answer[r].request \in Subscribes /\ ~Registered(answer[r])
      <4>1. answer[r] \in Subscriptions
        BY <1>8, <3>2, Returning DEF Return
      <4>2. [id |-> answer[r], closed |-> FALSE] \in Controllers
        BY <4>1 DEF Controllers
      <4>3. subscriptions' = Append(subscriptions, [id |-> answer[r], closed |-> FALSE])
        BY <1>8, <3>2 DEF Return
      <4>. QED
        BY <1>1, <4>2, <4>3, AppendEntries DEF TypeOK
    <3>. QED
      BY <1>8, <3>1, <3>2 DEF Return
  <2>. QED
    BY <1>1, <1>8, <2>1, <2>2, <2>3 DEF TypeOK, Return, nodeVars, boundVars
<1>9. CASE Execute
  <2>1. up # <<>>
    BY <1>9 DEF Execute
  <2>2. PICK m \in Entries, ok \in BOOLEAN :
            /\ m = Head(up)
            /\ executed' = [executed EXCEPT ![m.request] = @ + 1]
            /\ down' = Append(down, [kind |-> "answer", id |-> m.id, request |-> m.request,
                                     ok |-> ok, run |-> executed[m.request] + 1])
            /\ live' = IF m.request \in Subscribes /\ ok
                       THEN live \cup {[request |-> m.request, run |-> executed[m.request] + 1]}
                       ELSE live
    BY <1>9, <2>1, Executing DEF Execute
  <2>3. /\ m.id \in Nat /\ m.request \in Requests /\ executed[m.request] \in Nat
        /\ executed[m.request] + 1 \in 1..(MaxDrops + 1)
    BY <2>1, <2>2, Executing
  <2>4. executed' \in [Requests -> Nat]
    BY <1>1, <2>2, <2>3 DEF TypeOK
  <2>5. down' \in Seq(Answers \cup Notices)
    <3>1. [kind |-> "answer", id |-> m.id, request |-> m.request, ok |-> ok,
           run |-> executed[m.request] + 1] \in Answers \cup Notices
      BY <2>2, <2>3 DEF Answers
    <3>. QED
      BY <1>1, <2>2, <3>1, AppendEntries DEF TypeOK
  <2>6. live' \subseteq Subscriptions
    BY <1>1, <2>2, <2>3 DEF TypeOK, Subscriptions
  <2>7. up' \in Seq(Entries)
    BY <1>1, <1>9, <2>1, TailEntries DEF TypeOK, Execute
  <2>. QED
    BY <1>1, <1>9, <2>4, <2>5, <2>6, <2>7 DEF TypeOK, Execute, mapVars, appVars, boundVars
<1>10. ASSUME NEW s \in Subscriptions, Notify(s) PROVE TypeOK'
  <2>1. notices' \in [Subscriptions -> Nat]
    BY <1>1, <1>10 DEF TypeOK, Notify
  <2>2. down' \in Seq(Answers \cup Notices)
    <3>1. [kind |-> "notice", subscription |-> s] \in Answers \cup Notices
      BY DEF Notices
    <3>. QED
      BY <1>1, <1>10, <3>1, AppendEntries DEF TypeOK, Notify
  <2>. QED
    BY <1>1, <1>10, <2>1, <2>2 DEF TypeOK, Notify, mapVars, appVars, boundVars
<1>11. ASSUME NEW s \in Subscriptions, Listen(s) PROVE TypeOK'
  <2>1. stream' \in [Subscriptions -> {"none", "returned", "listening", "cancelled", "done"}]
    BY <1>1, <1>11 DEF TypeOK, Listen
  <2>. QED
    BY <1>1, <1>11, <2>1 DEF TypeOK, Listen, mapVars, nodeVars, boundVars
<1>12. ASSUME NEW s \in Subscriptions, Cancel(s) PROVE TypeOK'
  <2>1. stream' \in [Subscriptions -> {"none", "returned", "listening", "cancelled", "done"}]
    BY <1>1, <1>12 DEF TypeOK, Cancel
  <2>2. subscriptions' \in Seq(Controllers)
    BY <1>1, <1>12, RemoveEntries DEF TypeOK, Cancel, RemoveSubscription
  <2>. QED
    BY <1>1, <1>12, <2>1, <2>2 DEF TypeOK, Cancel, nodeVars, boundVars
<1>13. CASE DeliverAnswer
  <2>1. Head(down) \in Answers \cup Notices /\ Tail(down) \in Seq(Answers \cup Notices)
    BY <1>1, <1>13, TailEntries DEF TypeOK, DeliverAnswer
  <2>2. Head(down) \in Answers
    BY <1>13, <2>1 DEF DeliverAnswer, Notices
  <2>3. [request |-> Head(down).request, run |-> Head(down).run]
            \in [request : Requests, run : 1..(MaxDrops + 1)]
    BY <2>2 DEF Answers
  <2>4. answer' \in [Requests -> [request : Requests, run : 1..(MaxDrops + 1)] \cup {NoAnswer}]
    BY <1>1, <1>13, <2>3 DEF TypeOK, DeliverAnswer
  <2>5. future' \in [Requests -> {"idle", "waiting", "sent", "answered", "done", "failed"}]
    BY <1>1, <1>13 DEF TypeOK, DeliverAnswer
  <2>6. queries' \in Seq(Entries)
    BY <1>1, <1>13, RemoveEntries DEF TypeOK, DeliverAnswer, RemoveQuery
  <2>7. down' \in Seq(Answers \cup Notices)
    BY <1>13, <2>1 DEF DeliverAnswer
  <2>8. UNCHANGED <<socket, sequence, subscriptions, stream, up, nodeVars, boundVars>>
    BY <1>13 DEF DeliverAnswer
  <2>. QED
    BY <1>1, <2>4, <2>5, <2>6, <2>7, <2>8 DEF TypeOK, nodeVars, boundVars
<1>14. CASE DeliverNotice
  <2>1. down' \in Seq(Answers \cup Notices)
    BY <1>1, <1>14, TailEntries DEF TypeOK, DeliverNotice
  <2>. QED
    BY <1>1, <1>14, <2>1 DEF TypeOK, DeliverNotice, mapVars, appVars, nodeVars, boundVars
<1>15. CASE DisconnectCloses
  <2>1. future' \in [Requests -> {"idle", "waiting", "sent", "answered", "done", "failed"}]
    BY <1>1, <1>15 DEF TypeOK, DisconnectCloses
  <2>2. stream' \in [Subscriptions -> {"none", "returned", "listening", "cancelled", "done"}]
    BY <1>1, <1>15 DEF TypeOK, DisconnectCloses
  <2>3. \A S : <<>> \in Seq(S)
    OBVIOUS
  <2>. QED
    BY <1>1, <1>15, <2>1, <2>2, <2>3 DEF TypeOK, DisconnectCloses, boundVars
<1>16. CASE DisconnectThrows
  <2>1. PICK first \in DOMAIN subscriptions :
            /\ subscriptions' = ClosedUpTo(first)
            /\ stream' = [stream EXCEPT ![subscriptions[first].id] = "done"]
    BY <1>16 DEF DisconnectThrows, Listened
  <2>2. stream' \in [Subscriptions -> {"none", "returned", "listening", "cancelled", "done"}]
    BY <1>1, <2>1 DEF TypeOK
  <2>3. subscriptions' \in Seq(Controllers)
    BY <1>1, <2>1, ClosingEntries DEF TypeOK
  <2>. QED
    BY <1>1, <1>16, <2>2, <2>3 DEF TypeOK, DisconnectThrows, nodeVars, boundVars
<1>17. CASE UNCHANGED vars
  BY <1>1, <1>17 DEF TypeOK, vars, mapVars, appVars, nodeVars, boundVars
<1>. QED
  BY <1>2, <1>3, <1>4, <1>5, <1>6, <1>7, <1>8, <1>9, <1>10, <1>11, <1>12, <1>13, <1>14, <1>15,
     <1>16, <1>17 DEF Next
-----------------------------------------------------------------------------
(* The parts of the invariant.                                             *)

LEMMA QueriesStep == ASSUME Inv, [Next]_vars PROVE QueriesInv'
<1>1. /\ queries \in Seq(Entries) /\ answer \in [Requests -> [request : Requests, run : 1..(MaxDrops + 1)] \cup {NoAnswer}]
      /\ future \in [Requests -> {"idle", "waiting", "sent", "answered", "done", "failed"}]
      /\ \A i \in DOMAIN queries : queries[i].request \in Requests
  <2>1. queries \in Seq(Entries) /\ \A i \in DOMAIN queries : queries[i] \in Entries
    BY DEF Inv, TypeOK
  <2>. QED
    BY <2>1 DEF Inv, TypeOK, Entries
<1>2. QueriesInv
  BY DEF Inv
<1>3. ASSUME NEW r \in Requests, Send(r) PROVE QueriesInv'
  BY <1>1, <1>2, <1>3 DEF QueriesInv, Send, mapVars
<1>4. ASSUME NEW r \in Requests, Transmit(r) PROVE QueriesInv'
  <2>1. PICK e \in Entries : /\ e.id = sequence /\ e.request = r
                             /\ e = [id |-> sequence, request |-> r]
    BY DEF Inv, TypeOK, Entries
  <2>2. future'[r] = "sent" /\ \A q \in Requests : q # r => future'[q] = future[q]
    BY <1>1, <1>4 DEF Transmit
  <2>3. \A i \in DOMAIN queries : queries[i].request # r
    BY <1>2, <1>4 DEF QueriesInv, Transmit
  <2>4. \A q \in Requests : future'[q] = "answered" => answer'[q].run # 0
    BY <1>2, <1>4, <2>2 DEF QueriesInv, Transmit
  <2>5. \A i \in DOMAIN queries : future'[queries[i].request] = "sent"
    BY <1>1, <1>2, <2>2 DEF QueriesInv
  <2>6. CASE \E i \in DOMAIN queries : queries[i].id = sequence
    <3>1. queries' = [i \in DOMAIN queries |-> IF queries[i].id = sequence THEN e ELSE queries[i]]
      BY <1>4, <2>1, <2>6 DEF Transmit, PutQuery
    <3>2. /\ DOMAIN queries' = DOMAIN queries
          /\ \A i \in DOMAIN queries : /\ queries'[i].id = queries[i].id
                                       /\ \/ queries'[i] = queries[i]
                                          \/ queries[i].id = sequence /\ queries'[i] = e
      BY <2>1, <3>1
    <3>. QED
      BY <1>2, <2>1, <2>2, <2>3, <2>4, <2>5, <3>2 DEF QueriesInv
  <2>7. CASE ~\E i \in DOMAIN queries : queries[i].id = sequence
    <3>1. queries' = Append(queries, e)
      BY <1>4, <2>1, <2>7 DEF Transmit, PutQuery
    <3>2. \A i \in DOMAIN queries' : \/ i \in DOMAIN queries /\ queries'[i] = queries[i]
                                     \/ i = Len(queries) + 1 /\ queries'[i] = e
      BY <1>1, <3>1, AppendEntries
    <3>. QED
      BY <1>2, <2>1, <2>2, <2>3, <2>4, <2>5, <2>7, <3>2 DEF QueriesInv
  <2>. QED
    BY <2>6, <2>7
<1>5. ASSUME NEW r \in Requests, Return(r) PROVE QueriesInv'
  <2>1. /\ future[r] = "answered" /\ future'[r] # "answered"
        /\ \A q \in Requests : q # r => future'[q] = future[q]
        /\ UNCHANGED <<queries, answer>>
    BY <1>1, <1>5 DEF Return
  <2>. QED
    BY <1>1, <1>2, <2>1 DEF QueriesInv
<1>6. CASE DeliverAnswer
  <2>1. PICK m \in Answers : m = Head(down)
    <3>1. Head(down) \in Answers \cup Notices
      BY <1>6, TailEntries DEF Inv, TypeOK, DeliverAnswer
    <3>. QED
      BY <1>6, <3>1 DEF DeliverAnswer, Notices
  <2>2. /\ queries' = RemoveEntry(queries, m.id)
        /\ \A r \in Requests :
               \/ /\ \E i \in DOMAIN queries : queries[i].id = m.id /\ queries[i].request = r
                  /\ answer'[r] = [request |-> m.request, run |-> m.run]
               \/ /\ ~\E i \in DOMAIN queries : queries[i].id = m.id /\ queries[i].request = r
                  /\ answer'[r] = answer[r] /\ future'[r] = future[r]
    BY <1>6, <2>1 DEF DeliverAnswer, RemoveQuery
  <2>3. m.run # 0 /\ [request |-> m.request, run |-> m.run].run = m.run
    BY <2>1, BoundsAssumption DEF Answers
  <2>4. \A r \in Requests : future'[r] = "answered" => answer'[r].run # 0
    BY <1>2, <2>2, <2>3 DEF QueriesInv
  <2>5. /\ \A i \in DOMAIN queries' : queries'[i].id # m.id
        /\ \A h, i \in DOMAIN queries' : \E j, k \in DOMAIN queries :
               queries'[h] = queries[j] /\ queries'[i] = queries[k] /\ (h # i => j # k)
    <3>1. \A i, j \in DOMAIN queries : queries[i].id = queries[j].id => i = j
      BY <1>2 DEF QueriesInv
    <3>. QED
      BY <1>1, <2>2, <3>1, RemoveEntries
  <2>6. ASSUME NEW i \in DOMAIN queries', NEW j \in DOMAIN queries',
               queries'[i].id = queries'[j].id \/ queries'[i].request = queries'[j].request
        PROVE  i = j
    BY <1>2, <2>5, <2>6 DEF QueriesInv
  <2>7. ASSUME NEW i \in DOMAIN queries' PROVE future'[queries'[i].request] = "sent"
    <3>1. PICK j \in DOMAIN queries : queries'[i] = queries[j]
      BY <2>5
    <3>2. \A k \in DOMAIN queries : queries[k].request = queries[j].request => queries[k].id # m.id
      BY <1>2, <2>5, <3>1 DEF QueriesInv
    <3>3. future'[queries[j].request] = future[queries[j].request]
      BY <1>1, <2>2, <3>2
    <3>. QED
      BY <1>2, <3>1, <3>3 DEF QueriesInv
  <2>. QED
    BY <2>4, <2>6, <2>7 DEF QueriesInv
<1>7. CASE DisconnectCloses
  <2>1. /\ \A r \in Requests : future[r] # "waiting" => future'[r] = future[r]
        /\ \A r \in Requests : future'[r] = "answered" => future[r] = "answered"
        /\ UNCHANGED <<queries, answer>>
    BY <1>7 DEF DisconnectCloses
  <2>. QED
    BY <1>1, <1>2, <2>1 DEF QueriesInv
<1>8. CASE UNCHANGED <<queries, future, answer>>
  BY <1>2, <1>8 DEF QueriesInv
<1>. QED
  BY <1>3, <1>4, <1>5, <1>6, <1>7, <1>8
     DEF Next, Connect, Connected, Drop, Reconnected, Execute, Notify, Listen, Cancel, DeliverNotice,
         DisconnectThrows, vars, mapVars, appVars

(* What a step does to the messages on their way to the node.              *)
LEMMA TrafficStep == ASSUME Inv, [Next]_vars PROVE TrafficInv'
<1>1. /\ up \in Seq(Entries) /\ executed \in [Requests -> Nat] /\ drops \in Nat
      /\ future \in [Requests -> {"idle", "waiting", "sent", "answered", "done", "failed"}]
      /\ \A i \in DOMAIN up : up[i].request \in Requests
  <2>1. up \in Seq(Entries) /\ \A i \in DOMAIN up : up[i] \in Entries
    BY DEF Inv, TypeOK
  <2>. QED
    BY <2>1, BoundsAssumption DEF Inv, TypeOK, Entries
<1>2. TrafficInv
  BY DEF Inv
<1>3. CASE Connect \/ Connected
  <2>1. UNCHANGED <<up, down, live, future, executed, drops>> /\ socket # "open" /\ socket' # "lost"
    BY <1>3 DEF Connect, Connected, mapVars, appVars, nodeVars, boundVars
  <2>. QED
    BY <1>2, <2>1 DEF TrafficInv, Sending
<1>4. CASE Drop
  <2>1. /\ up' = <<>> /\ down' = <<>> /\ live' = {} /\ drops' = drops + 1
        /\ UNCHANGED <<future, executed>> /\ DOMAIN up' = {}
    BY <1>4 DEF Drop, appVars
  <2>2. \A r \in Requests : executed[r] \in Nat /\ executed[r] <= drops + 1
    BY <1>1, <1>2 DEF TrafficInv
  <2>3. \A r \in Requests : executed'[r] <= drops' /\ executed'[r] <= drops' + 1
    BY <1>1, <2>1, <2>2
  <2>. QED
    BY <2>1, <2>3 DEF TrafficInv
<1>5. CASE Reconnected
  <2>1. /\ up' = up \o queries /\ socket = "lost" /\ socket' = "open"
        /\ UNCHANGED <<future, executed, drops>>
    BY <1>5 DEF Reconnected, appVars, nodeVars, boundVars
  <2>2. up' = queries
    BY <1>2, <2>1, ConcatEmptySeq DEF TrafficInv, Inv, TypeOK
  <2>3. \A r \in Requests : executed'[r] <= drops' /\ executed'[r] <= drops' + 1
    BY <1>2, <2>1 DEF TrafficInv
  <2>4. \A i \in DOMAIN up' : /\ future'[up'[i].request] \notin {"idle", "waiting"}
                              /\ \A j \in DOMAIN up' : up'[j].request = up'[i].request => j = i
    BY <2>1, <2>2 DEF Inv, QueriesInv
  <2>. QED
    BY <2>1, <2>3, <2>4 DEF TrafficInv
<1>6. ASSUME NEW r \in Requests, Send(r) PROVE TrafficInv'
  <2>1. /\ UNCHANGED <<socket, up, down, live, executed, drops>>
        /\ \A q \in Requests : /\ future'[q] \in {"idle", "waiting"} => future[q] \in {"idle", "waiting"}
                               /\ future[q] \notin {"idle", "waiting"} => future'[q] = future[q]
    BY <1>1, <1>6 DEF Send, nodeVars, boundVars
  <2>2. \A q \in Requests : Sending(q)' <=> Sending(q)
    BY <2>1 DEF Sending
  <2>. QED
    BY <1>1, <1>2, <2>1, <2>2 DEF TrafficInv
<1>7. ASSUME NEW r \in Requests, Transmit(r) PROVE TrafficInv'
  <2>1. PICK e \in Entries : e.request = r /\ up' = Append(up, e)
    <3>1. [id |-> sequence, request |-> r] \in Entries /\ [id |-> sequence, request |-> r].request = r
      BY DEF Inv, TypeOK, Entries
    <3>. QED
      BY <1>7, <3>1 DEF Transmit
  <2>2. /\ socket' = "open" /\ UNCHANGED <<executed, drops>> /\ future[r] = "waiting"
        /\ future'[r] = "sent" /\ \A q \in Requests : q # r => future'[q] = future[q]
    BY <1>1, <1>7 DEF Transmit, nodeVars, boundVars
  <2>3. \A i \in DOMAIN up' : \/ i \in DOMAIN up /\ up'[i] = up[i]
                              \/ i = Len(up) + 1 /\ up'[i] = e
    BY <1>1, <2>1, AppendEntries
  <2>4. \A i \in DOMAIN up : up[i].request # r
    BY <1>2, <2>2 DEF TrafficInv
  <2>5. \A i \in DOMAIN up' : /\ future'[up'[i].request] \notin {"idle", "waiting"}
                              /\ \A j \in DOMAIN up' : up'[j].request = up'[i].request => j = i
    BY <1>1, <1>2, <2>1, <2>2, <2>3, <2>4 DEF TrafficInv
  <2>6. ASSUME NEW q \in Requests
        PROVE  /\ executed'[q] <= drops' + 1
               /\ future'[q] \in {"idle", "waiting"} \/ Sending(q)' => executed'[q] <= drops'
    <3>1. CASE q = r
      BY <1>2, <2>2, <3>1 DEF TrafficInv
    <3>2. CASE q # r
      <4>1. Sending(q)' => Sending(q)
        BY <2>1, <2>3, <3>2 DEF Sending
      <4>. QED
        BY <1>2, <2>2, <3>2, <4>1 DEF TrafficInv
    <3>. QED
      BY <3>1, <3>2
  <2>. QED
    BY <2>2, <2>5, <2>6 DEF TrafficInv
<1>8. CASE Execute
  <2>1. up # <<>> /\ up' = Tail(up) /\ UNCHANGED <<socket, future, drops>>
    BY <1>8 DEF Execute, appVars, boundVars
  <2>2. PICK m \in Entries : /\ m = Head(up) /\ m = up[1] /\ 1 \in DOMAIN up /\ m.request \in Requests
                             /\ executed' = [executed EXCEPT ![m.request] = @ + 1]
    BY <1>8, <2>1, Executing DEF Execute
  <2>3. /\ executed[m.request] <= drops /\ executed[m.request] \in Nat
        /\ executed'[m.request] = executed[m.request] + 1
        /\ \A q \in Requests : q # m.request => executed'[q] = executed[q]
    BY <1>1, <2>1, <2>2, Executing
  <2>4. \A i \in DOMAIN up' : i \in Nat \ {0} /\ i + 1 \in DOMAIN up /\ up'[i] = up[i + 1]
    BY <1>1, <2>1, TailEntries
  <2>5. socket = "open"
    BY <1>2, <2>1 DEF TrafficInv
  <2>6. ASSUME NEW i \in DOMAIN up'
        PROVE  /\ future'[up'[i].request] \notin {"idle", "waiting"} /\ up'[i].request # m.request
               /\ \A j \in DOMAIN up' : up'[j].request = up'[i].request => j = i
    <3>1. i \in Nat \ {0} /\ i + 1 \in DOMAIN up /\ up'[i] = up[i + 1] /\ i + 1 # 1
      BY <2>4
    <3>2. up[i + 1].request # m.request
      BY <1>2, <2>2, <3>1 DEF TrafficInv
    <3>3. ASSUME NEW j \in DOMAIN up', up'[j].request = up'[i].request PROVE j = i
      <4>1. j \in Nat \ {0} /\ j + 1 \in DOMAIN up /\ up'[j] = up[j + 1]
        BY <2>4
      <4>2. j + 1 = i + 1
        BY <1>2, <3>1, <3>3, <4>1 DEF TrafficInv
      <4>. QED
        BY <3>1, <4>1, <4>2
    <3>4. future'[up'[i].request] \notin {"idle", "waiting"}
      BY <1>2, <2>1, <3>1 DEF TrafficInv
    <3>. QED
      BY <3>1, <3>2, <3>3, <3>4
  <2>7. ASSUME NEW q \in Requests
        PROVE  /\ executed'[q] <= drops' + 1
               /\ future'[q] \in {"idle", "waiting"} \/ Sending(q)' => executed'[q] <= drops'
    <3>1. CASE q = m.request
      <4>1. ~Sending(q)'
        BY <2>6, <3>1 DEF Sending
      <4>2. future'[q] \notin {"idle", "waiting"}
        BY <1>2, <2>1, <2>2, <3>1 DEF TrafficInv
      <4>3. executed'[q] <= drops' + 1
        BY <1>1, <2>1, <2>3, <3>1
      <4>. QED
        BY <4>1, <4>2, <4>3
    <3>2. CASE q # m.request
      <4>1. Sending(q)' => Sending(q)
        BY <2>4 DEF Sending
      <4>. QED
        BY <1>2, <2>1, <2>3, <3>2, <4>1 DEF TrafficInv
    <3>. QED
      BY <3>1, <3>2
  <2>. QED
    BY <2>1, <2>5, <2>6, <2>7 DEF TrafficInv
<1>9. ASSUME NEW s \in Subscriptions, Notify(s) PROVE TrafficInv'
  <2>1. UNCHANGED <<socket, up, future, live, executed, drops>> /\ s \in live
    BY <1>9 DEF Notify, appVars, boundVars
  <2>. QED
    BY <1>2, <2>1 DEF TrafficInv, Sending
<1>10. CASE DeliverAnswer \/ DeliverNotice \/ \E r \in Requests : Return(r)
  <2>1. /\ UNCHANGED <<socket, up, live, executed, drops>>
        /\ down # <<>> \/ down' = down
    BY <1>10 DEF DeliverAnswer, DeliverNotice, Return, nodeVars, boundVars
  <2>2. \A r \in Requests :
            /\ future[r] \notin {"idle", "waiting"} => future'[r] \notin {"idle", "waiting"}
            /\ future'[r] \in {"idle", "waiting"} => future[r] \in {"idle", "waiting"}
    BY <1>1, <1>10 DEF DeliverAnswer, DeliverNotice, Return, appVars
  <2>. QED
    BY <1>1, <1>2, <2>1, <2>2 DEF TrafficInv, Sending
<1>11. CASE DisconnectCloses
  <2>1. /\ up' = <<>> /\ down' = <<>> /\ live' = {} /\ DOMAIN up' = {} /\ socket' # "lost"
        /\ UNCHANGED <<executed, drops>>
        /\ \A r \in Requests : future'[r] \in {"idle", "waiting"} => future[r] \in {"idle", "waiting"}
    BY <1>11 DEF DisconnectCloses, boundVars
  <2>. QED
    BY <1>2, <2>1 DEF TrafficInv, Sending
<1>12. CASE UNCHANGED <<socket, up, down, live, future, executed, drops>>
  BY <1>2, <1>12 DEF TrafficInv, Sending
<1>13. ASSUME \/ \E s \in Subscriptions : Listen(s) \/ Cancel(s)
              \/ DisconnectThrows \/ UNCHANGED vars
       PROVE  UNCHANGED <<socket, up, down, live, future, executed, drops>>
  BY <1>13 DEF Listen, Cancel, DisconnectThrows, vars, appVars, nodeVars, boundVars
<1>. QED
  BY <1>3, <1>4, <1>5, <1>6, <1>7, <1>8, <1>9, <1>10, <1>11, <1>12, <1>13 DEF Next

(* A patient application has no queries when it connects.                  *)
LEMMA Connecting ==
    ASSUME Inv, Patient, Connect
    PROVE  /\ queries = <<>> /\ DOMAIN queries = {}
           /\ connects' # 0 /\ socket' = "connecting"
<1>1. connects \in Nat /\ MaxConnects \in Nat
  BY BoundsAssumption DEF Inv, TypeOK
<1>2. socket = "null" /\ connects < MaxConnects /\ connects' = connects + 1 /\ socket' = "connecting"
  BY DEF Connect
<1>3. connects' # 0 /\ (MaxConnects <= 1 => connects = 0)
  BY <1>1, <1>2
<1>4. queries = <<>>
  BY <1>2, <1>3 DEF Inv, UnconnectedInv, Patient
<1>. QED
  BY <1>2, <1>3, <1>4

(* Nor does a disconnect leave any to a connection to come.                *)
LEMMA UnconnectedStep == ASSUME Inv, [Next]_vars, Patient PROVE UnconnectedInv'
<1>1. queries \in Seq(Entries) /\ \A i \in DOMAIN queries : queries[i].request \in Requests
  <2>1. queries \in Seq(Entries) /\ \A i \in DOMAIN queries : queries[i] \in Entries
    BY DEF Inv, TypeOK
  <2>. QED
    BY <2>1 DEF Entries
<1>2. UnconnectedInv /\ QueriesInv /\ TrafficInv
  BY DEF Inv
<1>3. CASE Connect
  <2>1. UNCHANGED queries
    BY <1>3 DEF Connect
  <2>. QED
    BY <1>3, <2>1, Connecting DEF UnconnectedInv
<1>4. CASE Connected \/ Drop \/ Reconnected \/ \E r \in Requests : Transmit(r)
  <2>1. /\ socket # "null" /\ socket' \notin {"null", "connecting"} /\ UNCHANGED connects
    BY <1>4 DEF Connected, Drop, Reconnected, Transmit, boundVars
  <2>. QED
    BY <1>2, <2>1 DEF UnconnectedInv
<1>5. CASE DeliverAnswer
  <2>1. down # <<>> /\ UNCHANGED <<socket, connects>>
    BY <1>5 DEF DeliverAnswer, boundVars
  <2>2. socket = "open"
    BY <1>2, <2>1 DEF TrafficInv
  <2>. QED
    BY <1>2, <2>1, <2>2 DEF UnconnectedInv
<1>6. CASE DisconnectCloses
  <2>1. /\ socket # "null" /\ socket' = "null" /\ UNCHANGED <<queries, connects>>
        /\ ~LeavesPending => \A r \in Requests : future[r] # "sent"
    BY <1>6 DEF DisconnectCloses, MayDisconnect, Pending, boundVars
  <2>2. ~LeavesPending => queries = <<>>
    <3>1. queries # <<>> => 1 \in DOMAIN queries
      BY <1>1, TailEntries
    <3>. QED
      BY <1>1, <1>2, <2>1, <3>1 DEF QueriesInv
  <2>. QED
    BY <1>2, <2>1, <2>2 DEF UnconnectedInv
<1>7. CASE UNCHANGED <<socket, queries, connects>>
  BY <1>2, <1>7 DEF UnconnectedInv
<1>8. ASSUME \/ Execute \/ DeliverNotice \/ DisconnectThrows \/ UNCHANGED vars
             \/ \E r \in Requests : Send(r) \/ Return(r)
             \/ \E s \in Subscriptions : Notify(s) \/ Listen(s) \/ Cancel(s)
      PROVE  UNCHANGED <<socket, queries, connects>>
  BY <1>8 DEF Execute, DeliverNotice, DisconnectThrows, Send, Return, Notify, Listen, Cancel, vars, mapVars,
     boundVars
<1>. QED
  BY <1>3, <1>4, <1>5, <1>6, <1>7, <1>8 DEF Next

(* What the application gets is what the node sent for a query in the map. *)
LEMMA Delivering ==
    ASSUME Inv, Patient, DeliverAnswer
    PROVE  \E m \in Answers :
               /\ m = Head(down) /\ m = down[1] /\ 1 \in DOMAIN down /\ m.kind = "answer"
               /\ future[m.request] = "sent" /\ future'[m.request] \in {"done", "answered", "failed"}
               /\ answer' = [answer EXCEPT ![m.request] = [request |-> m.request, run |-> m.run]]
               /\ \A r \in Requests : r # m.request => future'[r] = future[r]
<1>1. PICK m \in Answers : m = Head(down) /\ m = down[1] /\ 1 \in DOMAIN down /\ m.kind = "answer"
  <2>1. down \in Seq(Answers \cup Notices) /\ down # <<>> /\ Head(down).kind = "answer"
    BY DEF Inv, TypeOK, DeliverAnswer
  <2>2. Head(down) \in Answers \cup Notices /\ Head(down) = down[1] /\ 1 \in DOMAIN down
    BY <2>1, TailEntries
  <2>. QED
    BY <2>1, <2>2 DEF Notices
<1>2. PICK j \in DOMAIN queries : queries[j].id = m.id /\ queries[j].request = m.request
  BY <1>1 DEF Inv, PatientInv, AnswersExpected
<1>3. \A i \in DOMAIN queries : queries[i].id = m.id => i = j
  BY <1>2 DEF Inv, QueriesInv
<1>4. {queries[i].request : i \in {k \in DOMAIN queries : queries[k].id = m.id}} = {m.request}
  BY <1>2, <1>3
<1>5. /\ future' = [r \in Requests |-> IF r \notin {m.request} THEN future[r]
                                       ELSE IF r \in Queries THEN "done"
                                       ELSE IF m.ok THEN "answered" ELSE "failed"]
      /\ answer' = [r \in Requests |-> IF r \in {m.request} THEN [request |-> m.request, run |-> m.run]
                                       ELSE answer[r]]
  BY <1>1, <1>4 DEF DeliverAnswer
<1>6. m.request \in Requests /\ future[m.request] = "sent"
  BY <1>1, <1>2 DEF Answers, Inv, QueriesInv
<1>7. answer' = [answer EXCEPT ![m.request] = [request |-> m.request, run |-> m.run]]
  <2>1. DOMAIN answer = Requests
    BY DEF Inv, TypeOK
  <2>. QED
    BY <1>5, <1>6, <2>1
<1>. QED
  BY <1>1, <1>5, <1>6, <1>7

LEMMA OwnStep == ASSUME Inv, [Next]_vars, Patient PROVE AnswersAreOwn'
<1>1. /\ answer \in [Requests -> [request : Requests, run : 1..(MaxDrops + 1)] \cup {NoAnswer}]
      /\ AnswersAreOwn
  BY DEF Inv, TypeOK
<1>2. CASE DeliverAnswer
  <2>1. PICK m \in Answers :
            answer' = [answer EXCEPT ![m.request] = [request |-> m.request, run |-> m.run]]
    BY <1>2, Delivering
  <2>2. m.request \in Requests
    BY DEF Answers
  <2>. QED
    BY <1>1, <2>1, <2>2 DEF AnswersAreOwn
<1>3. CASE UNCHANGED answer
  BY <1>1, <1>3 DEF AnswersAreOwn
<1>4. [Next]_vars => DeliverAnswer \/ UNCHANGED answer
  BY DEF Next, Connect, Connected, Drop, Reconnected, Send, Transmit, Execute, Return, Notify, Listen,
     Cancel, DeliverNotice, DisconnectCloses, DisconnectThrows, vars, appVars
<1>. QED
  BY <1>2, <1>3, <1>4

(* Nothing is executed before it is sent.                                  *)
LEMMA RunsStep == ASSUME Inv, [Next]_vars PROVE RunsInv'
<1>1. /\ executed \in [Requests -> Nat] /\ down \in Seq(Answers \cup Notices)
      /\ future \in [Requests -> {"idle", "waiting", "sent", "answered", "done", "failed"}]
      /\ answer \in [Requests -> [request : Requests, run : 1..(MaxDrops + 1)] \cup {NoAnswer}]
      /\ \A i \in DOMAIN down : down[i].kind = "answer" => down[i].run \in Nat /\ down[i].request \in Requests
  <2>1. down \in Seq(Answers \cup Notices) /\ \A i \in DOMAIN down : down[i] \in Answers \cup Notices
    BY DEF Inv, TypeOK
  <2>2. \A i \in DOMAIN down : down[i].kind = "answer" => down[i].run \in Nat /\ down[i].request \in Requests
    BY <2>1, BoundsAssumption DEF Answers, Notices
  <2>. QED
    BY <2>1, <2>2 DEF Inv, TypeOK
<1>2. RunsInv /\ QueriesInv /\ TrafficInv
  BY DEF Inv
<1>3. CASE Drop \/ DisconnectCloses
  <2>1. /\ down' = <<>> /\ DOMAIN down' = {} /\ UNCHANGED <<executed, answer>>
        /\ \A r \in Requests : /\ future'[r] \in {"idle", "waiting"} => future[r] \in {"idle", "waiting"}
                               /\ future'[r] = "sent" => future[r] = "sent"
    BY <1>1, <1>3 DEF Drop, DisconnectCloses, appVars
  <2>. QED
    BY <1>2, <2>1 DEF RunsInv
<1>4. CASE \E r \in Requests : Send(r) \/ Transmit(r) \/ Return(r)
  <2>1. /\ UNCHANGED <<executed, answer, down>>
        /\ \A r \in Requests :
               /\ future'[r] \in {"idle", "waiting"} => future[r] \in {"idle", "waiting"}
               /\ future'[r] = "sent" => future[r] \in {"waiting", "sent"}
    BY <1>1, <1>4 DEF Send, Transmit, Return, nodeVars
  <2>. QED
    BY <1>2, <2>1 DEF RunsInv
<1>5. CASE Execute
  <2>1. up # <<>> /\ UNCHANGED <<future, answer>>
    BY <1>5 DEF Execute, appVars
  <2>2. PICK m \in Entries, ok \in BOOLEAN :
            /\ m = up[1] /\ 1 \in DOMAIN up /\ m.request \in Requests
            /\ executed' = [executed EXCEPT ![m.request] = @ + 1]
            /\ down' = Append(down, [kind |-> "answer", id |-> m.id, request |-> m.request,
                                     ok |-> ok, run |-> executed[m.request] + 1])
    BY <1>5, <2>1, Executing DEF Execute
  <2>3. PICK a \in Answers : /\ a.request = m.request /\ a.run = executed[m.request] + 1
                             /\ down' = Append(down, a)
    <3>1. [kind |-> "answer", id |-> m.id, request |-> m.request, ok |-> ok,
           run |-> executed[m.request] + 1] \in Answers
      BY <2>1, <2>2, Executing DEF Answers, Entries
    <3>. QED
      BY <2>2, <3>1
  <2>4. \A i \in DOMAIN down' : \/ i \in DOMAIN down /\ down'[i] = down[i]
                                \/ down'[i] = a
    <3>1. a \in Answers \cup Notices
      OBVIOUS
    <3>. QED
      BY <1>1, <2>3, <3>1, AppendEntries
  <2>5. /\ executed'[m.request] = executed[m.request] + 1
        /\ \A r \in Requests : executed[r] \in Nat /\ (r # m.request => executed'[r] = executed[r])
    BY <1>1, <2>2
  <2>6. \A i \in DOMAIN down' : down'[i].kind = "answer" => down'[i].run <= executed'[down'[i].request]
    <3>1. \A i \in DOMAIN down : down[i].kind = "answer" => down[i].run <= executed'[down[i].request]
      BY <1>1, <1>2, <2>2, <2>5 DEF RunsInv
    <3>2. a.run <= executed'[a.request]
      BY <1>1, <2>2, <2>3, <2>5
    <3>. QED
      BY <2>4, <3>1, <3>2
  <2>7. future[m.request] \notin {"idle", "waiting"}
    BY <1>2, <2>2 DEF TrafficInv
  <2>. QED
    BY <1>2, <2>1, <2>5, <2>6, <2>7 DEF RunsInv
<1>6. ASSUME NEW s \in Subscriptions, Notify(s) PROVE RunsInv'
  <2>1. PICK n \in Answers \cup Notices : n.kind = "notice" /\ down' = Append(down, n)
    <3>1. /\ [kind |-> "notice", subscription |-> s] \in Answers \cup Notices
          /\ [kind |-> "notice", subscription |-> s].kind = "notice"
      BY DEF Notices
    <3>. QED
      BY <1>6, <3>1 DEF Notify
  <2>2. \A i \in DOMAIN down' : down'[i].kind = "answer" => i \in DOMAIN down /\ down'[i] = down[i]
    BY <1>1, <2>1, AppendEntries
  <2>3. UNCHANGED <<future, answer, executed>>
    BY <1>6 DEF Notify, appVars
  <2>. QED
    BY <1>2, <2>2, <2>3 DEF RunsInv
<1>7. CASE DeliverAnswer \/ DeliverNotice
  <2>1. down # <<>> /\ down' = Tail(down) /\ UNCHANGED executed
    BY <1>7 DEF DeliverAnswer, DeliverNotice, nodeVars
  <2>2. \A i \in DOMAIN down' : i + 1 \in DOMAIN down /\ down'[i] = down[i + 1]
    BY <1>1, <2>1, TailEntries
  <2>3. \A r \in Requests : \/ future'[r] = future[r] /\ answer'[r] = answer[r]
                            \/ future'[r] \in {"done", "answered", "failed"}
    BY <1>1, <1>7 DEF DeliverAnswer, DeliverNotice, appVars
  <2>. QED
    BY <1>2, <2>1, <2>2, <2>3 DEF RunsInv
<1>8. CASE UNCHANGED <<future, answer, executed, down>>
  BY <1>2, <1>8 DEF RunsInv
<1>9. ASSUME \/ Connect \/ Connected \/ Reconnected \/ DisconnectThrows \/ UNCHANGED vars
             \/ \E s \in Subscriptions : Listen(s) \/ Cancel(s)
      PROVE  UNCHANGED <<future, answer, executed, down>>
  BY <1>9 DEF Connect, Connected, Reconnected, DisconnectThrows, Listen, Cancel, vars, appVars, nodeVars
<1>. QED
  BY <1>3, <1>4, <1>5, <1>6, <1>7, <1>8, <1>9 DEF Next

(* Ids meet their queries as long as the application is patient.           *)
LEMMA PatientStep == ASSUME Inv, [Next]_vars, Patient PROVE PatientInv'
<1>1. /\ queries \in Seq(Entries) /\ up \in Seq(Entries) /\ down \in Seq(Answers \cup Notices)
      /\ sequence \in Nat
      /\ \A i \in DOMAIN queries : queries[i].id \in Nat /\ queries[i].request \in Requests
  <2>1. queries \in Seq(Entries) /\ \A i \in DOMAIN queries : queries[i] \in Entries
    BY DEF Inv, TypeOK
  <2>. QED
    BY <2>1 DEF Inv, TypeOK, Entries
<1>2. PatientInv /\ QueriesInv /\ TrafficInv
  BY DEF Inv
<1>3. CASE Connect
  <2>1. UNCHANGED <<queries, up, down>>
    BY <1>3 DEF Connect
  <2>2. queries = <<>> /\ DOMAIN queries = {}
    BY <1>3, Connecting
  <2>. QED
    BY <1>2, <2>1, <2>2 DEF PatientInv, AnswersExpected
<1>4. CASE Connected \/ Drop
  <2>1. /\ UNCHANGED <<queries, sequence>>
        /\ \/ UNCHANGED <<up, down>>
           \/ up' = <<>> /\ down' = <<>>
    BY <1>4 DEF Connected, Drop, mapVars
  <2>2. CASE UNCHANGED <<up, down>>
    BY <1>2, <2>1, <2>2 DEF PatientInv, AnswersExpected
  <2>3. CASE up' = <<>> /\ down' = <<>>
    <3>1. DOMAIN up' = {} /\ DOMAIN down' = {}
      BY <2>3
    <3>. QED
      BY <1>2, <2>1, <3>1 DEF PatientInv, AnswersExpected
  <2>. QED
    BY <2>1, <2>2, <2>3
<1>5. CASE Reconnected
  <2>1. /\ up' = up \o queries /\ socket = "lost" /\ socket' = "open"
        /\ UNCHANGED <<queries, sequence, down>>
    BY <1>5 DEF Reconnected, mapVars
  <2>2. up' = queries
    BY <1>1, <1>2, <2>1, ConcatEmptySeq DEF TrafficInv
  <2>3. DOMAIN down' = {}
    BY <1>2, <2>1 DEF TrafficInv
  <2>. QED
    BY <1>2, <2>1, <2>2, <2>3 DEF PatientInv, AnswersExpected
<1>6. ASSUME NEW r \in Requests, Transmit(r) PROVE PatientInv'
  <2>1. PICK e \in Entries : /\ e.id = sequence /\ e.request = r
                             /\ e = [id |-> sequence, request |-> r]
    BY <1>1 DEF Entries
  <2>2. /\ up' = Append(up, e) /\ socket' = "open" /\ sequence' = sequence + 1
        /\ UNCHANGED down
    BY <1>6, <2>1 DEF Transmit
  <2>3. \A i \in DOMAIN queries : queries[i].id < sequence /\ queries[i].id # sequence
    BY <1>1, <1>2 DEF PatientInv
  <2>4. queries' = Append(queries, e)
    BY <1>6, <2>1, <2>3 DEF Transmit, PutQuery
  <2>5. /\ \A i \in DOMAIN queries' : \/ i \in DOMAIN queries /\ queries'[i] = queries[i]
                                      \/ queries'[i] = e
        /\ \A i \in DOMAIN queries : i \in DOMAIN queries' /\ queries'[i] = queries[i]
        /\ \E i \in DOMAIN queries' : queries'[i] = e
    BY <1>1, <2>4, AppendEntries
  <2>6. \A i \in DOMAIN up' : \/ i \in DOMAIN up /\ up'[i] = up[i]
                              \/ up'[i] = e
    BY <1>1, <2>2, AppendEntries
  <2>7. \A i \in DOMAIN queries' : queries'[i].id < sequence'
    BY <1>1, <2>1, <2>2, <2>3, <2>5
  <2>8. \A i \in DOMAIN up' : \E j \in DOMAIN queries' : queries'[j] = up'[i]
    BY <1>2, <2>5, <2>6 DEF PatientInv
  <2>9. AnswersExpected'
    BY <1>2, <2>2, <2>5 DEF PatientInv, AnswersExpected
  <2>10. ASSUME NEW i \in DOMAIN down', down'[i].kind = "answer"
         PROVE  /\ \A j \in DOMAIN down' :
                       down'[j].kind = "answer" /\ down'[j].id = down'[i].id => j = i
                /\ \A j \in DOMAIN up' : up'[j].id # down'[i].id
    <3>1. \E j \in DOMAIN queries : queries[j].id = down[i].id
      BY <1>2, <2>2, <2>10 DEF PatientInv, AnswersExpected
    <3>2. down[i].id # e.id
      BY <2>1, <2>3, <3>1
    <3>. QED
      BY <1>2, <2>2, <2>6, <2>10, <3>2 DEF PatientInv
  <2>. QED
    BY <2>2, <2>7, <2>8, <2>9, <2>10 DEF PatientInv
<1>7. CASE Execute
  <2>1. up # <<>> /\ up' = Tail(up) /\ UNCHANGED <<socket, queries, sequence>>
    BY <1>7 DEF Execute, mapVars
  <2>2. PICK a \in Answers : /\ a.kind = "answer" /\ a.id = up[1].id /\ a.request = up[1].request
                             /\ down' = Append(down, a) /\ 1 \in DOMAIN up
    <3>1. PICK m \in Entries, ok \in BOOLEAN :
              /\ m = up[1] /\ 1 \in DOMAIN up /\ m = Head(up)
              /\ down' = Append(down, [kind |-> "answer", id |-> m.id, request |-> m.request,
                                       ok |-> ok, run |-> executed[m.request] + 1])
      BY <1>7, <2>1, Executing DEF Execute
    <3>2. [kind |-> "answer", id |-> m.id, request |-> m.request, ok |-> ok,
           run |-> executed[m.request] + 1] \in Answers
      BY <2>1, <3>1, Executing DEF Answers
    <3>. QED
      BY <3>1, <3>2
  <2>3. PICK q \in DOMAIN queries : queries[q] = up[1]
    BY <1>2, <2>2 DEF PatientInv
  <2>4. \A i \in DOMAIN up' : i \in Nat \ {0} /\ i + 1 \in DOMAIN up /\ up'[i] = up[i + 1]
    BY <1>1, <2>1, TailEntries
  <2>5. \A i \in DOMAIN down' : \/ i \in DOMAIN down /\ down'[i] = down[i]
                                \/ i = Len(down) + 1 /\ down'[i] = a
    <3>1. a \in Answers \cup Notices
      OBVIOUS
    <3>. QED
      BY <1>1, <2>2, <3>1, AppendEntries
  <2>6. \A i \in DOMAIN up' : up'[i].id # a.id
    <3>1. ASSUME NEW i \in DOMAIN up', up'[i].id = a.id PROVE FALSE
      <4>1. i \in Nat \ {0} /\ i + 1 \in DOMAIN up /\ up'[i] = up[i + 1] /\ i + 1 # 1
        BY <2>4
      <4>2. PICK j \in DOMAIN queries : queries[j] = up[i + 1]
        BY <1>2, <4>1 DEF PatientInv
      <4>3. j = q
        BY <1>2, <2>2, <2>3, <3>1, <4>1, <4>2 DEF QueriesInv
      <4>4. up[i + 1].request = up[1].request
        BY <2>3, <4>2, <4>3
      <4>. QED
        BY <1>2, <2>2, <4>1, <4>4 DEF TrafficInv
    <3>. QED
      BY <3>1
  <2>7. \A i \in DOMAIN down : down[i].kind = "answer" => down[i].id # a.id
    BY <1>2, <2>2 DEF PatientInv
  <2>8. ASSUME NEW i \in DOMAIN down', down'[i].kind = "answer"
        PROVE  /\ \A j \in DOMAIN down' :
                      down'[j].kind = "answer" /\ down'[j].id = down'[i].id => j = i
               /\ \A j \in DOMAIN up' : up'[j].id # down'[i].id
               /\ \E j \in DOMAIN queries : /\ queries[j].id = down'[i].id
                                            /\ queries[j].request = down'[i].request
    <3>1. CASE i = Len(down) + 1 /\ down'[i] = a
      BY <2>2, <2>3, <2>5, <2>6, <2>7, <3>1
    <3>2. CASE i \in DOMAIN down /\ down'[i] = down[i]
      <4>1. \A j \in DOMAIN up' : up'[j].id # down'[i].id
        BY <1>2, <2>4, <2>8, <3>2 DEF PatientInv
      <4>2. \A j \in DOMAIN down' :
                down'[j].kind = "answer" /\ down'[j].id = down'[i].id => j = i
        BY <1>2, <2>5, <2>7, <2>8, <3>2 DEF PatientInv
      <4>. QED
        BY <1>2, <2>8, <3>2, <4>1, <4>2 DEF PatientInv, AnswersExpected
    <3>. QED
      BY <2>5, <3>1, <3>2
  <2>9. \A i \in DOMAIN up' : \E j \in DOMAIN queries : queries[j] = up'[i]
    BY <1>2, <2>4 DEF PatientInv
  <2>10. AnswersExpected'
    BY <2>1, <2>8 DEF AnswersExpected
  <2>. QED
    BY <1>2, <2>1, <2>8, <2>9, <2>10 DEF PatientInv
<1>8. ASSUME NEW s \in Subscriptions, Notify(s) PROVE PatientInv'
  <2>1. PICK n \in Answers \cup Notices : n.kind = "notice" /\ down' = Append(down, n)
    <3>1. /\ [kind |-> "notice", subscription |-> s] \in Answers \cup Notices
          /\ [kind |-> "notice", subscription |-> s].kind = "notice"
      BY DEF Notices
    <3>. QED
      BY <1>8, <3>1 DEF Notify
  <2>2. UNCHANGED <<socket, queries, sequence, up>>
    BY <1>8 DEF Notify, mapVars
  <2>3. \A i \in DOMAIN down' : down'[i].kind = "answer" => i \in DOMAIN down /\ down'[i] = down[i]
    BY <1>1, <2>1, AppendEntries
  <2>. QED
    BY <1>2, <2>2, <2>3 DEF PatientInv, AnswersExpected
<1>9. CASE DeliverAnswer
  <2>1. down # <<>> /\ down' = Tail(down) /\ Head(down).kind = "answer" /\ UNCHANGED <<socket, sequence, up>>
    BY <1>9 DEF DeliverAnswer
  <2>2. /\ Head(down) = down[1] /\ 1 \in DOMAIN down
        /\ \A i \in DOMAIN down' : i \in Nat \ {0} /\ i + 1 \in DOMAIN down /\ down'[i] = down[i + 1]
    BY <1>1, <2>1, TailEntries
  <2>3. queries' = RemoveEntry(queries, down[1].id)
    BY <1>9, <2>2 DEF DeliverAnswer, RemoveQuery
  <2>4. /\ \A j \in DOMAIN queries : queries[j].id # down[1].id =>
               \E i \in DOMAIN queries' : queries'[i] = queries[j]
        /\ \A i \in DOMAIN queries' : \E j \in DOMAIN queries : queries'[i] = queries[j]
    BY <1>1, <2>3, RemoveEntries
  <2>5. ASSUME NEW i \in DOMAIN down', down'[i].kind = "answer"
        PROVE  /\ \A j \in DOMAIN down' :
                      down'[j].kind = "answer" /\ down'[j].id = down'[i].id => j = i
               /\ \A j \in DOMAIN up' : up'[j].id # down'[i].id
               /\ \E j \in DOMAIN queries' : /\ queries'[j].id = down'[i].id
                                             /\ queries'[j].request = down'[i].request
    <3>1. i \in Nat \ {0} /\ i + 1 \in DOMAIN down /\ down'[i] = down[i + 1] /\ i + 1 # 1
      BY <2>2
    <3>2. down[i + 1].id # down[1].id
      BY <1>2, <2>1, <2>2, <2>5, <3>1 DEF PatientInv
    <3>3. ASSUME NEW j \in DOMAIN down', down'[j].kind = "answer", down'[j].id = down'[i].id
          PROVE  j = i
      <4>1. j \in Nat \ {0} /\ j + 1 \in DOMAIN down /\ down'[j] = down[j + 1]
        BY <2>2
      <4>2. j + 1 = i + 1
        BY <1>2, <2>5, <3>1, <3>3, <4>1 DEF PatientInv
      <4>. QED
        BY <3>1, <4>1, <4>2
    <3>4. \A j \in DOMAIN up' : up'[j].id # down'[i].id
      BY <1>2, <2>1, <2>5, <3>1 DEF PatientInv
    <3>5. \E j \in DOMAIN queries' : /\ queries'[j].id = down'[i].id
                                     /\ queries'[j].request = down'[i].request
      BY <1>2, <2>4, <2>5, <3>1, <3>2 DEF PatientInv, AnswersExpected
    <3>. QED
      BY <3>3, <3>4, <3>5
  <2>6. \A i \in DOMAIN up' : \E j \in DOMAIN queries' : queries'[j] = up'[i]
    <3>1. \A i \in DOMAIN up : up[i].id # down[1].id
      BY <1>2, <2>1, <2>2 DEF PatientInv
    <3>. QED
      BY <1>2, <2>1, <2>4, <3>1 DEF PatientInv
  <2>7. \A i \in DOMAIN queries' : queries'[i].id < sequence'
    BY <1>2, <2>1, <2>4 DEF PatientInv
  <2>8. AnswersExpected'
    BY <2>5 DEF AnswersExpected
  <2>. QED
    BY <2>5, <2>6, <2>7, <2>8 DEF PatientInv
<1>10. CASE DeliverNotice
  <2>1. down # <<>> /\ down' = Tail(down) /\ UNCHANGED <<socket, queries, sequence, up>>
    BY <1>10 DEF DeliverNotice, mapVars
  <2>2. \A i \in DOMAIN down' : i \in Nat \ {0} /\ i + 1 \in DOMAIN down /\ down'[i] = down[i + 1]
    BY <1>1, <2>1, TailEntries
  <2>3. ASSUME NEW i \in DOMAIN down', down'[i].kind = "answer"
        PROVE  /\ \A j \in DOMAIN down' :
                      down'[j].kind = "answer" /\ down'[j].id = down'[i].id => j = i
               /\ \A j \in DOMAIN up : up[j].id # down'[i].id
               /\ \E j \in DOMAIN queries : /\ queries[j].id = down'[i].id
                                            /\ queries[j].request = down'[i].request
    <3>1. i \in Nat \ {0} /\ i + 1 \in DOMAIN down /\ down'[i] = down[i + 1]
      BY <2>2
    <3>2. ASSUME NEW j \in DOMAIN down', down'[j].kind = "answer", down'[j].id = down'[i].id
          PROVE  j = i
      <4>1. j \in Nat \ {0} /\ j + 1 \in DOMAIN down /\ down'[j] = down[j + 1]
        BY <2>2
      <4>2. j + 1 = i + 1
        BY <1>2, <2>3, <3>1, <3>2, <4>1 DEF PatientInv
      <4>. QED
        BY <3>1, <4>1, <4>2
    <3>. QED
      BY <1>2, <2>3, <3>1, <3>2 DEF PatientInv, AnswersExpected
  <2>4. AnswersExpected'
    BY <2>1, <2>3 DEF AnswersExpected
  <2>. QED
    BY <1>2, <2>1, <2>3, <2>4 DEF PatientInv
<1>11. CASE DisconnectCloses
  <2>1. up' = <<>> /\ down' = <<>> /\ UNCHANGED <<queries, sequence>>
    BY <1>11 DEF DisconnectCloses
  <2>2. DOMAIN up' = {} /\ DOMAIN down' = {}
    BY <2>1
  <2>. QED
    BY <1>2, <2>1, <2>2 DEF PatientInv, AnswersExpected
<1>12. CASE UNCHANGED <<socket, queries, sequence, up, down>>
  BY <1>2, <1>12 DEF PatientInv, AnswersExpected
<1>13. ASSUME \/ \E r \in Requests : Send(r) \/ Return(r)
              \/ \E s \in Subscriptions : Listen(s) \/ Cancel(s)
              \/ DisconnectThrows \/ UNCHANGED vars
       PROVE  UNCHANGED <<socket, queries, sequence, up, down>>
  BY <1>13 DEF Send, Return, Listen, Cancel, DisconnectThrows, vars, mapVars
<1>. QED
  BY <1>3, <1>4, <1>5, <1>6, <1>7, <1>8, <1>9, <1>10, <1>11, <1>12, <1>13 DEF Next

(* A query that is served stays so where nothing on its way is lost.       *)
LEMMA StillServed ==
    ASSUME NoneForgotten,
           \A i \in DOMAIN queries : i \in DOMAIN queries' /\ queries'[i] = queries[i],
           \A i \in DOMAIN up : \E j \in DOMAIN up' : up'[j] = up[i],
           \A i \in DOMAIN down : \E j \in DOMAIN down' : down'[j] = down[i],
           UNCHANGED socket,
           NEW r \in Requests, future[r] = "sent"
    PROVE  /\ socket' # "null" \/ LeavesPending
           /\ \E i \in DOMAIN queries' : /\ queries'[i].request = r
                                         /\ socket' = "open" => Travels(queries[i])'
<1>1. socket # "null" \/ LeavesPending
  BY DEF NoneForgotten
<1>2. PICK i \in DOMAIN queries : queries[i].request = r /\ (socket = "open" => Travels(queries[i]))
  BY DEF NoneForgotten
<1>3. i \in DOMAIN queries' /\ queries'[i] = queries[i]
  BY <1>2
<1>4. socket = "open" => Travels(queries[i])'
  BY <1>2, <1>3 DEF Travels
<1>. QED
  BY <1>1, <1>2, <1>3, <1>4

(* No call is forgotten.                                                   *)
LEMMA ForgottenStep == ASSUME Inv, [Next]_vars, Patient PROVE NoneForgotten'
<1>1. /\ queries \in Seq(Entries) /\ up \in Seq(Entries) /\ down \in Seq(Answers \cup Notices)
      /\ future \in [Requests -> {"idle", "waiting", "sent", "answered", "done", "failed"}]
      /\ sequence \in Nat
  BY DEF Inv, TypeOK
<1>2. NoneForgotten /\ QueriesInv /\ TrafficInv /\ PatientInv /\ UnconnectedInv
  BY DEF Inv
<1>3. CASE Connect
  <2>1. socket' = "connecting" /\ UNCHANGED future /\ DOMAIN queries = {}
    BY <1>3, Connecting DEF Connect, appVars
  <2>2. \A r \in Requests : future'[r] # "sent"
    BY <1>2, <2>1 DEF NoneForgotten
  <2>. QED
    BY <2>1, <2>2 DEF NoneForgotten
<1>4. CASE Connected
  <2>1. socket = "connecting" /\ socket' = "open" /\ UNCHANGED future
    BY <1>4 DEF Connected, appVars
  <2>2. queries = <<>> /\ DOMAIN queries = {}
    BY <1>2, <2>1 DEF UnconnectedInv
  <2>3. \A r \in Requests : future'[r] # "sent"
    BY <1>2, <2>1, <2>2 DEF NoneForgotten
  <2>. QED
    BY <2>1, <2>3 DEF NoneForgotten
<1>5. CASE Drop
  <2>1. socket' = "lost" /\ UNCHANGED <<future, queries>>
    BY <1>5 DEF Drop, appVars, mapVars
  <2>. QED
    BY <1>2, <2>1 DEF NoneForgotten
<1>6. CASE Reconnected
  <2>1. socket = "lost" /\ socket' = "open" /\ up' = up \o queries /\ UNCHANGED <<future, queries>>
    BY <1>6 DEF Reconnected, appVars, mapVars
  <2>2. up' = queries
    BY <1>1, <1>2, <2>1, ConcatEmptySeq DEF TrafficInv
  <2>3. \A i \in DOMAIN queries' : Travels(queries[i])'
    BY <2>1, <2>2 DEF Travels
  <2>. QED
    BY <1>2, <2>1, <2>3 DEF NoneForgotten
<1>7. ASSUME NEW q \in Requests, Send(q) PROVE NoneForgotten'
  <2>1. /\ UNCHANGED <<socket, queries, up, down>> /\ future'[q] # "sent"
        /\ future'[q] = "waiting" => socket # "null"
        /\ \A r \in Requests : r # q => future'[r] = future[r]
    BY <1>1, <1>7 DEF Send, mapVars
  <2>2. \A i \in DOMAIN queries : Travels(queries[i])' <=> Travels(queries[i])
    BY <2>1 DEF Travels
  <2>. QED
    BY <1>2, <2>1, <2>2 DEF NoneForgotten
<1>8. ASSUME NEW q \in Requests, Transmit(q) PROVE NoneForgotten'
  <2>1. PICK e \in Entries : /\ e.id = sequence /\ e.request = q
                             /\ e = [id |-> sequence, request |-> q]
    BY <1>1 DEF Entries
  <2>2. /\ up' = Append(up, e) /\ UNCHANGED <<socket, down>> /\ socket = "open"
        /\ \A r \in Requests : r # q => future'[r] = future[r]
        /\ future'[q] = "sent"
    BY <1>1, <1>8, <2>1 DEF Transmit
  <2>3. \A i \in DOMAIN queries : queries[i].id # sequence
    <3>1. \A i \in DOMAIN queries : queries[i] \in Entries
      BY <1>1
    <3>. QED
      BY <1>1, <1>2, <3>1 DEF PatientInv, Entries
  <2>4. queries' = Append(queries, e)
    BY <1>8, <2>1, <2>3 DEF Transmit, PutQuery
  <2>5. /\ \A i \in DOMAIN queries : i \in DOMAIN queries' /\ queries'[i] = queries[i]
        /\ \E i \in DOMAIN queries' : queries'[i] = e
    BY <1>1, <2>4, AppendEntries
  <2>6. /\ \A i \in DOMAIN up : \E j \in DOMAIN up' : up'[j] = up[i]
        /\ \E j \in DOMAIN up' : up'[j] = e
    BY <1>1, <2>2, AppendEntries
  <2>7. \E i \in DOMAIN queries' : queries'[i].request = q /\ Travels(queries[i])'
    BY <2>1, <2>5, <2>6 DEF Travels
  <2>8. ASSUME NEW r \in Requests, r # q, future'[r] = "sent"
        PROVE  \E i \in DOMAIN queries' : /\ queries'[i].request = r
                                          /\ socket' = "open" => Travels(queries[i])'
    BY <1>2, <2>2, <2>5, <2>6, <2>8, StillServed
  <2>. QED
    BY <1>2, <2>2, <2>7, <2>8 DEF NoneForgotten
<1>9. ASSUME NEW q \in Requests, Return(q) PROVE NoneForgotten'
  <2>1. /\ UNCHANGED <<socket, queries, up, down>> /\ future'[q] \notin {"sent", "waiting"}
        /\ \A r \in Requests : r # q => future'[r] = future[r]
    BY <1>1, <1>9 DEF Return
  <2>2. \A i \in DOMAIN queries : Travels(queries[i])' <=> Travels(queries[i])
    BY <2>1 DEF Travels
  <2>. QED
    BY <1>2, <2>1, <2>2 DEF NoneForgotten
<1>10. CASE Execute
  <2>1. /\ up # <<>> /\ up' = Tail(up) /\ UNCHANGED <<socket, queries, future>>
    BY <1>10 DEF Execute, appVars, mapVars
  <2>2. PICK a \in Answers : /\ a.kind = "answer" /\ a.id = up[1].id /\ 1 \in DOMAIN up
                             /\ down' = Append(down, a)
    <3>1. PICK m \in Entries, ok \in BOOLEAN :
              /\ m = up[1] /\ 1 \in DOMAIN up /\ m = Head(up)
              /\ down' = Append(down, [kind |-> "answer", id |-> m.id, request |-> m.request,
                                       ok |-> ok, run |-> executed[m.request] + 1])
      BY <1>10, <2>1, Executing DEF Execute
    <3>2. [kind |-> "answer", id |-> m.id, request |-> m.request, ok |-> ok,
           run |-> executed[m.request] + 1] \in Answers
      BY <2>1, <3>1, Executing DEF Answers
    <3>. QED
      BY <3>1, <3>2
  <2>3. \A i \in DOMAIN up : i # 1 => \E j \in DOMAIN up' : up'[j] = up[i]
    BY <1>1, <2>1, TailEntries
  <2>4. /\ \A i \in DOMAIN down : i \in DOMAIN down' /\ down'[i] = down[i]
        /\ \E i \in DOMAIN down' : down'[i] = a
    <3>1. a \in Answers \cup Notices
      OBVIOUS
    <3>. QED
      BY <1>1, <2>2, <3>1, AppendEntries
  <2>5. ASSUME NEW i \in DOMAIN queries, Travels(queries[i]) PROVE Travels(queries[i])'
    <3>1. CASE \E j \in DOMAIN up : up[j] = queries[i]
      <4>1. PICK j \in DOMAIN up : up[j] = queries[i]
        BY <3>1
      <4>2. CASE j = 1
        BY <2>1, <2>2, <2>4, <4>1, <4>2 DEF Travels
      <4>3. CASE j # 1
        BY <2>1, <2>3, <4>1, <4>3 DEF Travels
      <4>. QED
        BY <4>2, <4>3
    <3>2. CASE \E j \in DOMAIN down : down[j].kind = "answer" /\ down[j].id = queries[i].id
      BY <2>1, <2>4, <3>2 DEF Travels
    <3>. QED
      BY <2>5, <3>1, <3>2 DEF Travels
  <2>. QED
    BY <1>2, <2>1, <2>5 DEF NoneForgotten
<1>11. ASSUME NEW s \in Subscriptions, Notify(s) PROVE NoneForgotten'
  <2>1. UNCHANGED <<socket, queries, future, up>>
    BY <1>11 DEF Notify, appVars, mapVars
  <2>2. \A i \in DOMAIN down : i \in DOMAIN down' /\ down'[i] = down[i]
    <3>1. [kind |-> "notice", subscription |-> s] \in Answers \cup Notices
      BY DEF Notices
    <3>. QED
      BY <1>1, <1>11, <3>1, AppendEntries DEF Notify
  <2>3. \A i \in DOMAIN queries : Travels(queries[i]) => Travels(queries[i])'
    BY <2>1, <2>2 DEF Travels
  <2>. QED
    BY <1>2, <2>1, <2>3 DEF NoneForgotten
<1>12. CASE DeliverAnswer
  <2>1. down # <<>> /\ down' = Tail(down) /\ UNCHANGED <<socket, up>>
    BY <1>12 DEF DeliverAnswer
  <2>2. PICK m \in Answers :
            /\ m = down[1] /\ 1 \in DOMAIN down /\ m.kind = "answer"
            /\ future'[m.request] \in {"done", "answered", "failed"}
            /\ \A r \in Requests : r # m.request => future'[r] = future[r]
    BY <1>12, Delivering
  <2>3. queries' = RemoveEntry(queries, m.id)
    <3>1. m = Head(down)
      BY <1>1, <2>1, <2>2, TailEntries
    <3>. QED
      BY <1>12, <3>1 DEF DeliverAnswer, RemoveQuery
  <2>4. \A j \in DOMAIN queries : queries[j].id # m.id =>
            \E i \in DOMAIN queries' : queries'[i] = queries[j]
    BY <1>1, <2>3, RemoveEntries
  <2>5. \A i \in DOMAIN down : i # 1 => \E j \in DOMAIN down' : down'[j] = down[i]
    BY <1>1, <2>1, TailEntries
  <2>6. PICK k \in DOMAIN queries : queries[k].id = m.id /\ queries[k].request = m.request
    BY <1>2, <2>2 DEF PatientInv, AnswersExpected
  <2>7. ASSUME NEW r \in Requests, future'[r] = "sent"
        PROVE  /\ socket # "null" \/ LeavesPending
               /\ \E i \in DOMAIN queries' : /\ queries'[i].request = r
                                             /\ socket = "open" => Travels(queries[i])'
    <3>1. r # m.request /\ future[r] = "sent"
      BY <2>2, <2>7
    <3>2. PICK i \in DOMAIN queries : queries[i].request = r /\ (socket = "open" => Travels(queries[i]))
      BY <1>2, <3>1 DEF NoneForgotten
    <3>3. queries[i].id # m.id
      BY <1>2, <2>6, <3>1, <3>2 DEF QueriesInv
    <3>4. PICK j \in DOMAIN queries' : queries'[j] = queries[i]
      BY <2>4, <3>3
    <3>5. ASSUME Travels(queries[i]) PROVE Travels(queries[j])'
      <4>1. CASE \E l \in DOMAIN up : up[l] = queries[i]
        BY <2>1, <3>4, <4>1 DEF Travels
      <4>2. CASE \E l \in DOMAIN down : down[l].kind = "answer" /\ down[l].id = queries[i].id
        <5>1. PICK l \in DOMAIN down : down[l].kind = "answer" /\ down[l].id = queries[i].id
          BY <4>2
        <5>2. l # 1
          BY <2>2, <3>3, <5>1
        <5>. QED
          BY <2>5, <3>4, <5>1, <5>2 DEF Travels
      <4>. QED
        BY <3>5, <4>1, <4>2 DEF Travels
    <3>. QED
      BY <1>2, <3>1, <3>2, <3>4, <3>5 DEF NoneForgotten
  <2>8. \A r \in Requests : future'[r] = "waiting" => future[r] = "waiting"
    BY <2>2
  <2>. QED
    BY <1>2, <2>1, <2>7, <2>8 DEF NoneForgotten
<1>13. CASE DeliverNotice
  <2>1. /\ down # <<>> /\ down' = Tail(down) /\ Head(down).kind = "notice"
        /\ UNCHANGED <<socket, queries, future, up>>
    BY <1>13 DEF DeliverNotice, appVars, mapVars
  <2>2. /\ Head(down) = down[1]
        /\ \A i \in DOMAIN down : i # 1 => \E j \in DOMAIN down' : down'[j] = down[i]
    BY <1>1, <2>1, TailEntries
  <2>3. \A i \in DOMAIN down : down[i].kind = "answer" => \E j \in DOMAIN down' : down'[j] = down[i]
    BY <2>1, <2>2
  <2>4. \A i \in DOMAIN queries : Travels(queries[i]) => Travels(queries[i])'
    BY <2>1, <2>3 DEF Travels
  <2>. QED
    BY <1>2, <2>1, <2>4 DEF NoneForgotten
<1>14. CASE DisconnectCloses
  <2>1. /\ UNCHANGED queries /\ socket' = "null" /\ (LeavesPending \/ \A r \in Requests : ~Pending(r))
        /\ \A r \in Requests : future'[r] = IF future[r] = "waiting" THEN "failed" ELSE future[r]
    BY <1>14 DEF DisconnectCloses, MayDisconnect
  <2>2. \A r \in Requests : future'[r] # "waiting" /\ (future'[r] = "sent" => future[r] = "sent" /\ LeavesPending)
    BY <2>1 DEF Pending
  <2>. QED
    BY <1>2, <2>1, <2>2 DEF NoneForgotten
<1>15. CASE UNCHANGED <<socket, queries, future, up, down>>
  BY <1>2, <1>15 DEF NoneForgotten, Travels
<1>16. ASSUME \/ \E s \in Subscriptions : Listen(s) \/ Cancel(s)
              \/ DisconnectThrows \/ UNCHANGED vars
       PROVE  UNCHANGED <<socket, queries, future, up, down>>
  BY <1>16 DEF Listen, Cancel, DisconnectThrows, vars, mapVars, appVars
<1>. QED
  BY <1>3, <1>4, <1>5, <1>6, <1>7, <1>8, <1>9, <1>10, <1>11, <1>12, <1>13, <1>14, <1>15, <1>16 DEF Next

(* A stream that is listened to keeps its open controller.                 *)
LEMMA ListenedStep == ASSUME Inv, [Next]_vars PROVE ListenedIsRegistered'
<1>1. /\ subscriptions \in Seq(Controllers)
      /\ stream \in [Subscriptions -> {"none", "returned", "listening", "cancelled", "done"}]
      /\ \A i \in DOMAIN subscriptions : subscriptions[i].id \in Subscriptions
  <2>1. subscriptions \in Seq(Controllers) /\ \A i \in DOMAIN subscriptions : subscriptions[i] \in Controllers
    BY DEF Inv, TypeOK
  <2>. QED
    BY <2>1 DEF Inv, TypeOK, Controllers
<1>2. \A s \in Subscriptions : stream[s] = "listening" =>
          \E i \in DOMAIN subscriptions : subscriptions[i].id = s /\ ~subscriptions[i].closed
  BY DEF Inv, ListenedIsRegistered
<1>3. ASSUME NEW r \in Requests, Return(r) PROVE ListenedIsRegistered'
  <2>1. \A s \in Subscriptions : stream'[s] = "listening" => stream[s] = "listening"
    BY <1>3 DEF Return
  <2>2. \A i \in DOMAIN subscriptions :
            i \in DOMAIN subscriptions' /\ subscriptions'[i] = subscriptions[i]
    <3>1. CASE answer[r].request \in Subscribes /\ ~Registered(answer[r])
      <4>1. answer[r] \in Subscriptions
        BY <1>3, <3>1, Returning DEF Return
      <4>2. [id |-> answer[r], closed |-> FALSE] \in Controllers
        BY <4>1 DEF Controllers
      <4>3. subscriptions' = Append(subscriptions, [id |-> answer[r], closed |-> FALSE])
        BY <1>3, <3>1 DEF Return
      <4>. QED
        BY <1>1, <4>2, <4>3, AppendEntries
    <3>2. CASE subscriptions' = subscriptions
      BY <3>2
    <3>. QED
      BY <1>3, <3>1, <3>2 DEF Return
  <2>. QED
    BY <1>2, <2>1, <2>2 DEF ListenedIsRegistered
<1>4. ASSUME NEW s \in Subscriptions, Listen(s) PROVE ListenedIsRegistered'
  <2>1. /\ UNCHANGED subscriptions
        /\ \A t \in Subscriptions : t # s => stream'[t] = stream[t]
        /\ stream'[s] = "listening" =>
               \E i \in DOMAIN subscriptions : subscriptions[i].id = s /\ ~subscriptions[i].closed
    BY <1>1, <1>4 DEF Listen, mapVars
  <2>. QED
    BY <1>2, <2>1 DEF ListenedIsRegistered
<1>5. ASSUME NEW s \in Subscriptions, Cancel(s) PROVE ListenedIsRegistered'
  <2>1. /\ subscriptions' = RemoveEntry(subscriptions, s) /\ stream'[s] = "cancelled"
        /\ \A t \in Subscriptions : t # s => stream'[t] = stream[t]
    BY <1>1, <1>5 DEF Cancel, RemoveSubscription
  <2>2. \A j \in DOMAIN subscriptions : subscriptions[j].id # s =>
            \E i \in DOMAIN subscriptions' : subscriptions'[i] = subscriptions[j]
    BY <1>1, <2>1, RemoveEntries
  <2>3. ASSUME NEW t \in Subscriptions, stream'[t] = "listening"
        PROVE  \E i \in DOMAIN subscriptions' : subscriptions'[i].id = t /\ ~subscriptions'[i].closed
    <3>1. t # s /\ stream[t] = "listening"
      BY <2>1, <2>3
    <3>2. PICK j \in DOMAIN subscriptions : subscriptions[j].id = t /\ ~subscriptions[j].closed
      BY <1>2, <3>1
    <3>. QED
      BY <2>2, <3>1, <3>2
  <2>. QED
    BY <2>3 DEF ListenedIsRegistered
<1>6. CASE DisconnectCloses
  <2>1. Listened = {} /\ \A s \in Subscriptions : stream'[s] = "listening" => stream[s] = "listening"
    BY <1>6 DEF DisconnectCloses
  <2>2. \A s \in Subscriptions : stream[s] # "listening"
    BY <1>2, <2>1 DEF Listened
  <2>. QED
    BY <2>1, <2>2 DEF ListenedIsRegistered
<1>7. CASE DisconnectThrows
  <2>1. PICK first \in Listened :
            /\ \A i \in Listened : first <= i
            /\ subscriptions' = ClosedUpTo(first)
            /\ stream' = [stream EXCEPT ![subscriptions[first].id] = "done"]
    BY <1>7 DEF DisconnectThrows
  <2>2. first \in DOMAIN subscriptions
    BY DEF Listened
  <2>3. \A j \in DOMAIN subscriptions : j > first =>
            \E i \in DOMAIN subscriptions' : subscriptions'[i] = subscriptions[j]
    BY <1>1, <2>1, <2>2, ClosingEntries
  <2>4. /\ stream'[subscriptions[first].id] = "done"
        /\ \A t \in Subscriptions : t # subscriptions[first].id => stream'[t] = stream[t]
    BY <1>1, <2>1, <2>2
  <2>5. ASSUME NEW t \in Subscriptions, stream'[t] = "listening"
        PROVE  \E i \in DOMAIN subscriptions' : subscriptions'[i].id = t /\ ~subscriptions'[i].closed
    <3>1. t # subscriptions[first].id /\ stream[t] = "listening"
      BY <2>4, <2>5
    <3>2. PICK j \in DOMAIN subscriptions : subscriptions[j].id = t /\ ~subscriptions[j].closed
      BY <1>2, <3>1
    <3>3. j \in Listened /\ j # first /\ first <= j
      BY <2>1, <3>1, <3>2 DEF Listened
    <3>4. j \in Nat /\ first \in Nat
      BY <1>1, <2>2
    <3>. QED
      BY <2>3, <3>2, <3>3, <3>4
  <2>. QED
    BY <2>5 DEF ListenedIsRegistered
<1>8. CASE UNCHANGED <<stream, subscriptions>>
  BY <1>2, <1>8 DEF ListenedIsRegistered
<1>9. ASSUME \/ Connect \/ Connected \/ Drop \/ Reconnected \/ Execute
             \/ \E r \in Requests : Send(r) \/ Transmit(r)
             \/ \E s \in Subscriptions : Notify(s)
             \/ DeliverAnswer \/ DeliverNotice \/ UNCHANGED vars
      PROVE  UNCHANGED <<stream, subscriptions>>
  BY <1>9 DEF Connect, Connected, Drop, Reconnected, Execute, Send, Transmit, Notify, DeliverAnswer,
     DeliverNotice, vars, mapVars, appVars
<1>. QED
  BY <1>3, <1>4, <1>5, <1>6, <1>7, <1>8, <1>9 DEF Next

-----------------------------------------------------------------------------
LEMMA StepInv == Inv /\ [Next]_vars => Inv'
<1> SUFFICES ASSUME Inv, [Next]_vars PROVE Inv'
  OBVIOUS
<1>1. TypeOK' /\ QueriesInv' /\ TrafficInv' /\ RunsInv' /\ ListenedIsRegistered'
  BY TypeStep, QueriesStep, TrafficStep, RunsStep, ListenedStep
<1>2. Patient => UnconnectedInv' /\ PatientInv' /\ AnswersAreOwn' /\ NoneForgotten'
  BY UnconnectedStep, PatientStep, OwnStep, ForgottenStep
<1>3. Patient' <=> Patient
  BY DEF Patient
<1>. QED
  BY <1>1, <1>2, <1>3 DEF Inv

(* Theorem: whatever is lost and sent again, in any order of calls and     *)
(* answers, ids and requests are in the map of queries once, a connection  *)
(* carries a request once, and the node executes a request once more than  *)
(* the connection was lost at most: Inv is inductive.                      *)
THEOREM InvAlways == Spec => []Inv
<1>. QED
  BY InitInv, StepInv, PTL DEF Spec

(* Theorem: queries.remove(id)! finds the query of every answer, if the    *)
(* application never disconnects while a query is pending, or connects     *)
(* only once.                                                              *)
THEOREM AnswersExpectedAlways ==
    ASSUME Patient
    PROVE  Spec => []AnswersExpected
<1>1. Inv => AnswersExpected
  BY DEF Inv, PatientInv
<1>. QED
  BY <1>1, InvAlways, PTL

(* Theorem: for such an application, a future completes with the answer to *)
(* its own request, although ids start again at zero with every connect.   *)
THEOREM AnswersAreOwnAlways ==
    ASSUME Patient
    PROVE  Spec => []AnswersAreOwn
<1>1. Inv => AnswersAreOwn
  BY DEF Inv
<1>. QED
  BY <1>1, InvAlways, PTL

(* Theorem: for such an application no call is forgotten: what waits for a *)
(* connection can have one, and what was sent and is not answered is in    *)
(* the map that Reconnected sends again, and while the connection is open  *)
(* it or its answer is on its way.                                         *)
THEOREM NoneForgottenAlways ==
    ASSUME Patient
    PROVE  Spec => []NoneForgotten
<1>1. Inv => NoneForgotten
  BY DEF Inv
<1>. QED
  BY <1>1, InvAlways, PTL

(* Theorem: no failed disconnect, cancellation or reconnection takes the   *)
(* controller from under a stream that the application listens to.         *)
THEOREM ListenedIsRegisteredAlways == Spec => []ListenedIsRegistered
<1>1. Inv => ListenedIsRegistered
  BY DEF Inv
<1>. QED
  BY <1>1, InvAlways, PTL

-----------------------------------------------------------------------------
(* A call as RequestPromise sees it, by what its future and answer are.    *)
LEMMA Seen ==
    ASSUME Inv
    PROVE  /\ CallOf = [r \in Requests |-> CallOf[r]] /\ ResultOf = [r \in Requests |-> ResultOf[r]]
           /\ \A r \in Requests :
                  /\ ResultOf[r] = answer[r].run
                  /\ future[r] \in {"idle", "waiting"} => executed[r] = 0
                  /\ future[r] = "idle" => CallOf[r] = "idle"
                  /\ future[r] \in {"waiting", "sent"} => CallOf[r] = "pending"
                  /\ future[r] = "answered" => answer[r] # NoAnswer
                  /\ answer[r] # NoAnswer => CallOf[r] = "settled"
                  /\ answer[r] = NoAnswer /\ future[r] = "failed" => CallOf[r] = "failed"
<1>1. \A r \in Requests : future[r] = "answered" => answer[r] # NoAnswer
  BY DEF Inv, QueriesInv, NoAnswer
<1>. QED
  BY <1>1 DEF Inv, RunsInv, CallOf, ResultOf, Pending

LEMMA PromiseInit == Init => Promise!Init
<1> SUFFICES ASSUME Init PROVE Promise!Init
  OBVIOUS
<1>1. CallOf = [r \in Requests |-> "idle"] /\ ResultOf = [r \in Requests |-> 0]
  BY DEF Init, CallOf, ResultOf, Pending, NoAnswer
<1>. QED
  BY <1>1 DEF Init, Promise!Init

LEMMA PromiseStep == ASSUME Inv, Inv', [Next]_vars, Patient PROVE [Promise!Next]_Promise!promiseVars
<1>1. /\ CallOf = [r \in Requests |-> CallOf[r]] /\ CallOf' = [r \in Requests |-> CallOf'[r]]
      /\ ResultOf = [r \in Requests |-> ResultOf[r]] /\ ResultOf' = [r \in Requests |-> ResultOf'[r]]
  BY Seen DEF CallOf, ResultOf
<1>2. /\ future \in [Requests -> {"idle", "waiting", "sent", "answered", "done", "failed"}]
      /\ executed \in [Requests -> Nat]
      /\ answer \in [Requests -> [request : Requests, run : 1..(MaxDrops + 1)] \cup {NoAnswer}]
  BY DEF Inv, TypeOK
<1>3. \A r \in Requests : future'[r] = future[r] /\ answer'[r] = answer[r] => CallOf'[r] = CallOf[r]
  BY DEF CallOf, Pending
<1>4. ASSUME NEW r \in Requests, Send(r) PROVE Promise!Next
  <2>1. /\ future[r] = "idle" /\ UNCHANGED <<answer, executed, drops>> /\ UNCHANGED ResultOf
        /\ \A q \in Requests : q # r => future'[q] = future[q]
    BY <1>2, <1>4 DEF Send, nodeVars, boundVars, ResultOf
  <2>2. CallOf[r] = "idle" /\ executed[r] = 0 /\ answer[r] = NoAnswer
    BY <2>1, Seen DEF Inv, RunsInv
  <2>3. CASE socket = "null"
    <3>1. CallOf'[r] = "failed"
      BY <1>2, <1>4, <2>1, <2>2, <2>3 DEF Send, CallOf, Pending
    <3>2. CallOf' = [q \in Requests |-> IF q \in {r} THEN "failed" ELSE CallOf[q]]
      BY <1>1, <1>3, <2>1, <3>1
    <3>3. Promise!Refuse({r})
      BY <2>1, <2>2, <3>2 DEF Promise!Refuse
    <3>. QED
      BY <3>3 DEF Promise!Next
  <2>4. CASE socket # "null"
    <3>1. CallOf'[r] = "pending"
      BY <1>2, <1>4, <2>1, <2>2, <2>4 DEF Send, CallOf, Pending
    <3>2. CallOf' = [CallOf EXCEPT ![r] = "pending"]
      BY <1>1, <1>3, <2>1, <3>1
    <3>3. Promise!Ask(r)
      BY <2>1, <2>2, <3>2 DEF Promise!Ask
    <3>. QED
      BY <3>3 DEF Promise!Next
  <2>. QED
    BY <2>3, <2>4
<1>5. CASE \E r \in Requests : Transmit(r) \/ Return(r)
  <2>1. PICK r \in Requests : /\ \/ future[r] = "waiting" /\ future'[r] = "sent"
                                 \/ future[r] = "answered"
                              /\ \A q \in Requests : q # r => future'[q] = future[q]
    BY <1>2, <1>5 DEF Transmit, Return
  <2>2. UNCHANGED <<answer, executed, drops>> /\ UNCHANGED ResultOf
    BY <1>5 DEF Transmit, Return, nodeVars, boundVars, ResultOf
  <2>3. CallOf'[r] = CallOf[r]
    BY <2>1, <2>2, Seen DEF CallOf, Pending
  <2>4. CallOf' = CallOf
    BY <1>1, <1>3, <2>1, <2>2, <2>3
  <2>. QED
    BY <2>2, <2>4 DEF Promise!promiseVars
<1>6. CASE Execute
  <2>1. up # <<>> /\ UNCHANGED <<future, answer, drops>> /\ UNCHANGED <<CallOf, ResultOf>>
    BY <1>6 DEF Execute, appVars, boundVars, CallOf, ResultOf, Pending
  <2>2. PICK m \in Entries : /\ m = up[1] /\ 1 \in DOMAIN up /\ m.request \in Requests
                             /\ executed[m.request] <= drops
                             /\ executed' = [executed EXCEPT ![m.request] = @ + 1]
    BY <1>6, <2>1, Executing DEF Execute
  <2>3. future[m.request] = "sent"
    BY <2>2 DEF Inv, PatientInv, QueriesInv
  <2>4. Promise!Run(m.request)
    BY <2>1, <2>2, <2>3, Seen DEF Promise!Run
  <2>. QED
    BY <2>2, <2>4 DEF Promise!Next
<1>7. CASE DeliverAnswer
  <2>1. UNCHANGED <<executed, drops>>
    BY <1>7 DEF DeliverAnswer, nodeVars, boundVars
  <2>2. PICK m \in Answers :
            /\ m = down[1] /\ 1 \in DOMAIN down /\ m.kind = "answer" /\ future[m.request] = "sent"
            /\ answer' = [answer EXCEPT ![m.request] = [request |-> m.request, run |-> m.run]]
            /\ \A r \in Requests : r # m.request => future'[r] = future[r]
    BY <1>7, Delivering
  <2>3. m.request \in Requests /\ m.run \in Nat /\ m.run # 0
    BY BoundsAssumption DEF Answers
  <2>4. m.run \in 1..executed[m.request]
    BY <1>2, <2>2, <2>3 DEF Inv, RunsInv
  <2>5. /\ answer'[m.request].run = m.run /\ answer'[m.request] # NoAnswer
        /\ \A r \in Requests : r # m.request => answer'[r] = answer[r]
    BY <1>2, <2>2, <2>3 DEF NoAnswer
  <2>6. CallOf' = [CallOf EXCEPT ![m.request] = "settled"]
    <3>1. CallOf'[m.request] = "settled"
      BY <2>3, <2>5 DEF CallOf
    <3>. QED
      BY <1>1, <1>3, <2>2, <2>3, <2>5, <3>1
  <2>7. ResultOf' = [ResultOf EXCEPT ![m.request] = m.run]
    <3>1. \A r \in Requests : ResultOf'[r] = answer'[r].run /\ ResultOf[r] = answer[r].run
      BY DEF ResultOf
    <3>. QED
      BY <1>1, <2>3, <2>5, <3>1
  <2>8. Promise!Settle(m.request)
    BY <2>1, <2>2, <2>3, <2>4, <2>6, <2>7, Seen DEF Promise!Settle
  <2>. QED
    BY <2>3, <2>8 DEF Promise!Next
<1>8. CASE DisconnectCloses
  <2> DEFINE refused == {r \in Requests : future[r] = "waiting"}
  <2>1. /\ UNCHANGED <<answer, executed, drops>> /\ UNCHANGED ResultOf
        /\ \A r \in Requests : future'[r] = IF future[r] = "waiting" THEN "failed" ELSE future[r]
    BY <1>8 DEF DisconnectCloses, boundVars, ResultOf
  <2>2. \A r \in refused : CallOf[r] = "pending" /\ executed[r] = 0 /\ answer[r] = NoAnswer
    BY Seen DEF Inv, RunsInv
  <2>3. \A r \in refused : CallOf'[r] = "failed"
    BY <2>1, <2>2 DEF CallOf, Pending
  <2>4. \A r \in Requests : r \notin refused => CallOf'[r] = CallOf[r]
    BY <1>3, <2>1
  <2>5. CallOf' = [r \in Requests |-> IF r \in refused THEN "failed" ELSE CallOf[r]]
    BY <1>1, <2>3, <2>4
  <2>6. refused \in SUBSET Requests
    OBVIOUS
  <2>. HIDE DEF refused
  <2>7. Promise!Refuse(refused)
    BY <2>1, <2>2, <2>5 DEF Promise!Refuse
  <2>. QED
    BY <2>6, <2>7 DEF Promise!Next
<1>9. CASE Drop
  <2>1. drops' = drops + 1 /\ UNCHANGED <<future, answer, executed>> /\ UNCHANGED <<CallOf, ResultOf>>
    BY <1>9 DEF Drop, appVars, CallOf, ResultOf, Pending
  <2>. QED
    BY <2>1 DEF Promise!Next, Promise!Lose
<1>10. CASE UNCHANGED <<future, answer, executed, drops>>
  BY <1>10 DEF Promise!promiseVars, CallOf, ResultOf, Pending
<1>11. ASSUME \/ Connect \/ Connected \/ Reconnected \/ DeliverNotice \/ DisconnectThrows \/ UNCHANGED vars
              \/ \E s \in Subscriptions : Notify(s) \/ Listen(s) \/ Cancel(s)
       PROVE  UNCHANGED <<future, answer, executed, drops>>
  BY <1>11 DEF Connect, Connected, Reconnected, DeliverNotice, DisconnectThrows, Notify, Listen, Cancel, vars,
     appVars, nodeVars, boundVars
<1>. QED
  BY <1>4, <1>5, <1>6, <1>7, <1>8, <1>9, <1>10, <1>11 DEF Next

(* Theorem: for an application that does not disconnect while a query is   *)
(* pending, or connects only once, the node executes a request at most     *)
(* once more than the connection was lost and never when its answer is     *)
(* there, although everything pending is sent again after a reconnection;  *)
(* its future completes once, with the result of one of these executions.  *)
THEOREM PromiseKept ==
    ASSUME Patient
    PROVE  Spec => KeepsPromise
<1>1. Inv /\ Inv' /\ [Next]_vars => [Promise!Next]_Promise!promiseVars
  BY PromiseStep
<1>. QED
  BY <1>1, InvAlways, PromiseInit, PTL DEF Spec, KeepsPromise, Promise!Spec
=============================================================================
