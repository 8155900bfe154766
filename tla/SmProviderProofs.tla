--------------------------- MODULE SmProviderProofs ---------------------------
(***************************************************************************)
(* Proofs about SmProvider, for any connections, messages and bounds: what *)
(* is sent, how often the chain is closed, and what the read loops hear.   *)
(***************************************************************************)
EXTENDS SmProvider, SequenceTheorems, FiniteSetTheorems, TLAPS

-----------------------------------------------------------------------------
(* Sequences, by their places.                                             *)

LEMMA HeadEntries ==
    ASSUME NEW S, NEW s \in Seq(S), s # <<>>
    PROVE  /\ Tail(s) \in Seq(S) /\ 1 \in DOMAIN s /\ Head(s) = s[1] /\ s[1] \in S
           /\ Len(Tail(s)) < Len(s)
           /\ \A i \in DOMAIN Tail(s) :
                  i \in Nat \ {0} /\ i + 1 \in DOMAIN s /\ Tail(s)[i] = s[i + 1]
           /\ \A i \in DOMAIN s : i # 1 => i - 1 \in DOMAIN Tail(s) /\ Tail(s)[i - 1] = s[i]
OBVIOUS

LEMMA LastEntries ==
    ASSUME NEW S, NEW s \in Seq(S), NEW e \in S
    PROVE  /\ Append(s, e) \in Seq(S) /\ Len(Append(s, e)) = Len(s) + 1
           /\ \A i \in DOMAIN Append(s, e) :
                  /\ i \in Nat \ {0}
                  /\ \/ i \in DOMAIN s /\ Append(s, e)[i] = s[i] /\ i <= Len(s)
                     \/ i = Len(s) + 1 /\ Append(s, e)[i] = e
           /\ \A i \in DOMAIN s : i \in DOMAIN Append(s, e) /\ Append(s, e)[i] = s[i]
           /\ Len(s) + 1 \in DOMAIN Append(s, e) /\ Append(s, e)[Len(s) + 1] = e
<1>1. /\ Len(s) \in Nat /\ DOMAIN s = 1..Len(s)
  OBVIOUS
<1>2. /\ DOMAIN Append(s, e) = 1..(Len(s) + 1) /\ Append(s, e) \in Seq(S)
      /\ \A i \in 1..Len(s) : Append(s, e)[i] = s[i]
      /\ Append(s, e)[Len(s) + 1] = e /\ Len(Append(s, e)) = Len(s) + 1
  BY AppendProperties
<1> QED BY <1>1, <1>2

LEMMA LongerConcat ==
    ASSUME NEW S, NEW s \in Seq(S), NEW t \in Seq(S), NEW e \in S
    PROVE  s \o Append(t, e) = Append(s \o t, e)
<1>1. Append(t, e) = t \o <<e>> /\ Append(s \o t, e) = (s \o t) \o <<e>>
  BY AppendIsConcat, ConcatProperties
<1>2. <<e>> \in Seq(S) OBVIOUS
<1> QED BY <1>1, <1>2, ConcatAssociative

-----------------------------------------------------------------------------
LEMMA InitInv == Init => Inv
<1> SUFFICES ASSUME Init PROVE Inv OBVIOUS
<1>1. TypeOK BY BoundsAssumption DEF Init, TypeOK, Failure
<1>2. SentInOrder
  <2>1. \A k \in Connections : asked[k] = <<>> /\ accepted[k] = <<>> /\ buffered[k] = <<>>
    BY DEF Init
  <2>2. <<>> \o <<>> = <<>> OBVIOUS
  <2> QED BY <2>1, <2>2 DEF SentInOrder
<1>3. ClosingsInv
  <2>1. {k \in disconnected : connection[k] = "ready"} = {} BY DEF Init
  <2> QED BY <2>1, FS_EmptySet DEF Init, ClosingsInv
<1>4. StreamInv /\ HeardOnce BY DEF Init, StreamInv, HeardOnce, InHand
<1>5. NothingLost BY DEF Init, NothingLost
<1> QED BY <1>1, <1>2, <1>3, <1>4, <1>5 DEF Inv

-----------------------------------------------------------------------------
(* What _onReady does with the buffer.                                     *)

LEMMA TakenFits ==
    ASSUME TypeOK, NEW k \in Connections
    PROVE  /\ Taken(k) \in Seq(Messages)
           /\ accepted[k] \o Taken(k) \in Seq(Messages)
           /\ waiting \o Taken(k) \in Seq(Messages) /\ Len(waiting \o Taken(k)) <= MaxPending
<1> DEFINE s == buffered[k]
           n == IF Room < Len(s) THEN Room ELSE Len(s)
<1>1. s \in Seq(Messages) /\ Len(s) \in Nat /\ Len(waiting) \in Nat /\ MaxPending \in Nat
  BY BoundsAssumption DEF TypeOK
<1>2. Len(waiting) <= MaxPending BY DEF TypeOK
<1>3. Room \in Nat /\ Len(waiting) + Room <= MaxPending BY <1>1, <1>2 DEF Room
<1>4. n \in Nat /\ n <= Len(s) /\ n <= Room BY <1>1, <1>3
<1>5. Taken(k) = SubSeq(s, 1, n) BY DEF Taken
<1> HIDE DEF n, s
<1>6. \A i \in 1..n : s[i] \in Messages BY <1>1, <1>4
<1>7. Taken(k) \in Seq(Messages) /\ Len(Taken(k)) = IF 1 <= n THEN n - 1 + 1 ELSE 0
  BY <1>4, <1>5, <1>6, SubSeqProperties
<1>8. Len(Taken(k)) \in Nat /\ Len(Taken(k)) <= Room BY <1>3, <1>4, <1>7
<1>9. waiting \in Seq(Messages) /\ accepted[k] \in Seq(Messages) BY DEF TypeOK
<1>10. /\ accepted[k] \o Taken(k) \in Seq(Messages)
       /\ waiting \o Taken(k) \in Seq(Messages)
       /\ Len(waiting \o Taken(k)) = Len(waiting) + Len(Taken(k))
  BY <1>7, <1>9, ConcatProperties
<1> QED BY <1>1, <1>3, <1>7, <1>8, <1>10

LEMMA AttachTypes ==
    ASSUME TypeOK, NEW k \in Connections, Attach(k)
    PROVE  TypeOK'
<1>1. /\ Taken(k) \in Seq(Messages) /\ accepted[k] \o Taken(k) \in Seq(Messages)
      /\ waiting \o Taken(k) \in Seq(Messages) /\ Len(waiting \o Taken(k)) <= MaxPending
  BY TakenFits
<1>2. accepted' \in [Connections -> Seq(Messages)] BY <1>1 DEF Attach, TypeOK
<1>3. waiting' \in Seq(Messages) /\ Len(waiting') <= MaxPending BY <1>1 DEF Attach
<1>4. connection' \in [Connections -> {"unopened", "waiting", "ready"}] BY DEF Attach, TypeOK
<1>5. buffered' \in [Connections -> Seq(Messages)]
  <2>1. buffered' \in {buffered, [buffered EXCEPT ![k] = <<>>]} BY DEF Attach, ClearsBuffer
  <2>2. buffered \in [Connections -> Seq(Messages)] /\ <<>> \in Seq(Messages) BY DEF TypeOK
  <2>3. [buffered EXCEPT ![k] = <<>>] \in [Connections -> Seq(Messages)] BY <2>2
  <2> QED BY <2>1, <2>2, <2>3
<1>6. loop' \in [Connections -> {"none", "pulling", "pulled", "ended"}]
  BY DEF Attach, StartsReading, NextPull, TypeOK
<1>7. ASSUME NEW j \in Connections
      PROVE  /\ buffered'[j] # <<>> => connection'[j] = "waiting" \/ j \in threw'
             /\ loop'[j] # "none" => connection'[j] = "ready"
  <2>1. CASE j = k BY <2>1 DEF Attach, ClearsBuffer, TypeOK
  <2>2. CASE j # k
    <3>1. /\ buffered'[j] = buffered[j] /\ connection'[j] = connection[j]
          /\ loop'[j] = loop[j] /\ threw \subseteq threw'
      BY <2>2 DEF Attach, ClearsBuffer, TypeOK
    <3> QED BY <3>1 DEF TypeOK
  <2> QED BY <2>1, <2>2
<1>8. threw' \subseteq Connections BY DEF Attach, TypeOK
<1>9. UNCHANGED <<chain, stopped, inHand, asked, heard, disconnected, closings, made, stream>>
  BY DEF Attach, appVars
<1> QED BY <1>2, <1>3, <1>4, <1>5, <1>6, <1>7, <1>8, <1>9 DEF TypeOK

LEMMA CloseTypes ==
    ASSUME TypeOK, CloseChain
    PROVE  /\ loop' \in [Connections -> {"none", "pulling", "pulled", "ended"}]
           /\ inHand' \in [Connections -> Nat] /\ closings' \in Nat /\ made' \in Nat
           /\ waiting' \in Seq(Messages) /\ Len(waiting') <= MaxPending /\ stream' \in Seq(Nat)
           /\ \A j \in Connections : loop'[j] # "none" => loop[j] # "none"
BY BoundsAssumption DEF TypeOK, CloseChain, Failure

LEMMA TypeStep ==
    ASSUME Inv, [Next]_vars
    PROVE  TypeOK'
<1>0. TypeOK /\ ClosingsInv BY DEF Inv
<1>1. CASE UNCHANGED vars BY <1>0, <1>1 DEF TypeOK, vars, appVars, chainVars
<1>2. ASSUME NEW how \in {"resolved", "failed"}, Resolve(how)
      PROVE  TypeOK'
  BY <1>0, <1>2 DEF TypeOK, Resolve, appVars, chainVars
<1>3. ASSUME NEW k \in Connections, OpenGiven(k) \/ ReadyInTime(k)
      PROVE  TypeOK'
  BY <1>0, <1>3, AttachTypes DEF OpenGiven, ReadyInTime
<1>4. ASSUME NEW k \in Connections, OpenFuture(k)
      PROVE  TypeOK'
  BY <1>0, <1>4 DEF TypeOK, OpenFuture, Unopened, appVars, chainVars
<1>5. ASSUME NEW k \in Connections, ReadyTooLate(k)
      PROVE  TypeOK'
  <2>1. /\ connection' \in [Connections -> {"unopened", "waiting", "ready"}]
        /\ \A j \in Connections : connection[j] = "ready" => connection'[j] = "ready"
    BY <1>0, <1>5 DEF ReadyTooLate, TypeOK
  <2>2. UNCHANGED <<chain, stopped, buffered, accepted, threw, asked, heard, disconnected>>
    BY <1>0, <1>5 DEF ReadyTooLate, appVars
  <2>3. CloseChain BY <1>0, <1>5 DEF ReadyTooLate
  <2>4. \A j \in Connections \ {k} : connection'[j] = connection[j]
    BY <1>0, <1>5 DEF ReadyTooLate, TypeOK
  <2>5. buffered[k] = <<>> BY <1>0, <1>5 DEF ReadyTooLate, ClosingsInv
  <2> QED BY <1>0, <2>1, <2>2, <2>3, <2>4, <2>5, CloseTypes DEF TypeOK
<1>6. ASSUME NEW k \in Connections, NeverReady(k)
      PROVE  TypeOK'
  BY <1>0, <1>6 DEF TypeOK, NeverReady, appVars, chainVars
<1>7. ASSUME NEW k \in Connections, NEW m \in Messages, Send(k, m)
      PROVE  TypeOK'
  <2>1. asked' \in [Connections -> Seq(Messages)] BY <1>0, <1>7 DEF Send, TypeOK
  <2>2. CASE connection[k] = "ready" /\ UNCHANGED buffered
    <3>1. /\ Room > 0 /\ waiting' = Append(waiting, m)
          /\ accepted' = [accepted EXCEPT ![k] = Append(@, m)]
      BY <1>0, <1>7, <2>2 DEF Send
    <3>2. waiting' \in Seq(Messages) /\ Len(waiting') = Len(waiting) + 1
      BY <1>0, <3>1, LastEntries DEF TypeOK
    <3>3. Len(waiting') <= MaxPending BY <1>0, <3>1, <3>2, BoundsAssumption DEF Room, TypeOK
    <3>4. accepted' \in [Connections -> Seq(Messages)] BY <1>0, <3>1 DEF TypeOK
    <3> QED BY <1>0, <1>7, <2>1, <2>2, <3>2, <3>3, <3>4 DEF Send, TypeOK
  <2>3. CASE connection[k] = "waiting" /\ UNCHANGED <<accepted, waiting>>
    <3>1. buffered' = [buffered EXCEPT ![k] = Append(@, m)] BY <1>0, <1>7, <2>3 DEF Send
    <3>2. buffered' \in [Connections -> Seq(Messages)] BY <1>0, <3>1 DEF TypeOK
    <3>3. \A j \in Connections : buffered'[j] # <<>> => connection[j] = "waiting" \/ j \in threw
      BY <1>0, <2>3, <3>1 DEF TypeOK
    <3> QED BY <1>0, <1>7, <2>1, <2>3, <3>2, <3>3 DEF Send, TypeOK
  <2> QED BY <1>0, <1>7, <2>2, <2>3 DEF Send
<1>8. ASSUME NEW k \in Connections, Disconnect(k)
      PROVE  TypeOK'
  <2>1. /\ buffered' \in [Connections -> Seq(Messages)]
        /\ \A j \in Connections : buffered'[j] # <<>> => buffered[j] # <<>>
        /\ stopped' \subseteq Connections /\ disconnected' \subseteq stopped'
    BY <1>0, <1>8 DEF Disconnect, TypeOK
  <2>2. UNCHANGED <<chain, connection, accepted, threw, asked, heard>>
    BY <1>0, <1>8 DEF Disconnect
  <2>3. CASE connection[k] = "ready"
    <3>1. CloseChain BY <1>0, <1>8, <2>3 DEF Disconnect
    <3> QED BY <1>0, <2>1, <2>2, <3>1, CloseTypes DEF TypeOK
  <2>4. CASE connection[k] # "ready"
    <3>1. UNCHANGED <<loop, inHand, closings, waiting, made, stream>>
      BY <1>0, <1>8, <2>4 DEF Disconnect, chainVars
    <3> QED BY <1>0, <2>1, <2>2, <3>1 DEF TypeOK
  <2> QED BY <2>3, <2>4
<1>9. ASSUME NEW k \in Connections, ReadOn(k)
      PROVE  TypeOK'
  <2>1. /\ heard' \in [Connections -> Seq(Nat)]
        /\ loop' \in [Connections -> {"none", "pulling", "pulled", "ended"}]
        /\ \A j \in Connections : loop'[j] # "none" => loop[j] # "none"
    <3>1. CASE inHand[k] = Failure \/ k \in stopped BY <1>0, <1>9, <3>1 DEF ReadOn, TypeOK
    <3>2. CASE ~(inHand[k] = Failure \/ k \in stopped)
      <4>1. heard' = [heard EXCEPT ![k] = Append(heard[k], inHand[k])] BY <1>9, <3>2 DEF ReadOn
      <4>2. Append(heard[k], inHand[k]) \in Seq(Nat) BY <1>0 DEF TypeOK
      <4>3. heard' \in [Connections -> Seq(Nat)] BY <1>0, <4>1, <4>2 DEF TypeOK
      <4>4. loop' \in {[loop EXCEPT ![k] = "ended"], [loop EXCEPT ![k] = "pulling"]}
        BY <1>9, <3>2 DEF ReadOn, NextPull
      <4>5. loop[k] # "none" BY <1>9 DEF ReadOn
      <4> QED BY <1>0, <4>3, <4>4, <4>5 DEF TypeOK
    <3> QED BY <3>1, <3>2
  <2> QED BY <1>0, <1>9, <2>1 DEF ReadOn, TypeOK, chainVars
<1>10. ASSUME NEW k \in Connections, Give(k)
      PROVE  TypeOK'
  <2>1. Head(stream) \in Nat /\ Tail(stream) \in Seq(Nat)
    BY <1>0, <1>10, HeadEntries DEF Give, TypeOK
  <2>2. /\ inHand' \in [Connections -> Nat] /\ stream' \in Seq(Nat)
        /\ loop' \in [Connections -> {"none", "pulling", "pulled", "ended"}]
        /\ \A j \in Connections : loop'[j] # "none" => loop[j] # "none"
    BY <1>0, <1>10, <2>1 DEF Give, TypeOK
  <2> QED BY <1>0, <1>10, <2>2 DEF Give, TypeOK, appVars
<1>11. ASSUME Answer
      PROVE  TypeOK'
  <2>1. waiting' \in Seq(Messages) /\ Len(waiting') < Len(waiting) /\ Len(waiting') \in Nat
    BY <1>0, <1>11, HeadEntries DEF Answer, TypeOK
  <2>2. Len(waiting') <= MaxPending BY <1>0, <2>1, BoundsAssumption DEF TypeOK
  <2>3. made' \in Nat /\ stream' \in Seq(Nat)
    BY <1>0, <1>11 DEF Answer, TypeOK
  <2> QED BY <1>0, <1>11, <2>1, <2>2, <2>3 DEF Answer, TypeOK, appVars
<1>12. ASSUME Notify
      PROVE  TypeOK'
  <2>1. made' \in Nat /\ stream' \in Seq(Nat)
    BY <1>0, <1>12 DEF Notify, TypeOK
  <2> QED BY <1>0, <1>12, <2>1 DEF Notify, TypeOK, appVars
<1> QED BY <1>0, <1>1, <1>2, <1>3, <1>4, <1>5, <1>6, <1>7, <1>8, <1>9, <1>10, <1>11, <1>12 DEF Next

-----------------------------------------------------------------------------
(* What was asked was accepted or is still in the buffer.                  *)
LEMMA SentStep ==
    ASSUME Inv, [Next]_vars
    PROVE  SentInOrder'
<1>0. TypeOK /\ SentInOrder /\ TypeOK' BY TypeStep DEF Inv
<1>1. SUFFICES ASSUME NEW k \in Connections, k \notin stopped', k \notin threw'
               PROVE  asked'[k] = accepted'[k] \o buffered'[k]
  BY DEF SentInOrder
<1>2. stopped \subseteq stopped' /\ threw \subseteq threw'
  BY DEF Next, vars, appVars, chainVars, Resolve, OpenGiven, OpenFuture, ReadyInTime, Attach,
         ReadyTooLate, NeverReady, Send, Disconnect, ReadOn, Give, Answer, Notify
<1>3. asked[k] = accepted[k] \o buffered[k] BY <1>0, <1>1, <1>2 DEF SentInOrder
<1>4. CASE asked'[k] = asked[k] /\ accepted'[k] = accepted[k] /\ buffered'[k] = buffered[k]
  BY <1>3, <1>4
<1>5. ASSUME NEW j \in Connections, Attach(j)
      PROVE  asked'[k] = accepted'[k] \o buffered'[k]
  <2>1. CASE j # k
    <3>1. buffered' \in {buffered, [buffered EXCEPT ![j] = <<>>]} /\ asked' = asked
      BY <1>5 DEF Attach, ClearsBuffer, appVars
    <3>2. accepted' = [accepted EXCEPT ![j] = accepted[j] \o Taken(j)] BY <1>5 DEF Attach
    <3>3. accepted'[k] = accepted[k] /\ buffered'[k] = buffered[k]
      BY <1>0, <2>1, <3>1, <3>2 DEF TypeOK
    <3> QED BY <1>4, <3>1, <3>3
  <2>2. CASE j = k
    <3>1. Taken(k) = buffered[k] BY <1>1, <1>5, <2>2 DEF Attach
    <3>2. accepted'[k] = accepted[k] \o buffered[k] BY <1>0, <1>5, <2>2, <3>1 DEF Attach, TypeOK
    <3>3. buffered'[k] = <<>> /\ asked' = asked
      BY <1>0, <1>5, <2>2, <3>1 DEF Attach, ClearsBuffer, TypeOK, appVars
    <3>4. accepted'[k] \in Seq(Messages) BY <1>0 DEF TypeOK
    <3>5. accepted'[k] \o <<>> = accepted'[k] BY <3>4, ConcatEmptySeq
    <3> QED BY <1>3, <3>2, <3>3, <3>5
  <2> QED BY <2>1, <2>2
<1>6. ASSUME NEW j \in Connections, NEW m \in Messages, Send(j, m)
      PROVE  asked'[k] = accepted'[k] \o buffered'[k]
  <2>1. CASE j # k BY <1>0, <1>4, <1>6, <2>1 DEF Send, TypeOK
  <2>2. CASE j = k
    <3>1. asked'[k] = Append(asked[k], m) BY <1>0, <1>6, <2>2 DEF Send, TypeOK
    <3>2. accepted[k] \in Seq(Messages) /\ buffered[k] \in Seq(Messages) BY <1>0 DEF TypeOK
    <3>3. CASE connection[k] = "ready"
      <4>1. accepted'[k] = Append(accepted[k], m) /\ buffered' = buffered
        BY <1>0, <1>6, <2>2, <3>3 DEF Send, TypeOK
      <4>2. buffered[k] = <<>> BY <1>0, <1>1, <1>2, <3>3 DEF TypeOK
      <4>3. accepted'[k] \in Seq(Messages) BY <1>0 DEF TypeOK
      <4>4. accepted[k] \o <<>> = accepted[k] /\ accepted'[k] \o <<>> = accepted'[k]
        BY <3>2, <4>3, ConcatEmptySeq
      <4> QED BY <1>3, <3>1, <4>1, <4>2, <4>4
    <3>4. CASE connection[k] # "ready"
      <4>1. buffered'[k] = Append(buffered[k], m) /\ accepted' = accepted
        BY <1>0, <1>6, <2>2, <3>4 DEF Send, TypeOK
      <4>2. PICK s \in Seq(Messages), t \in Seq(Messages) : s = accepted[k] /\ t = buffered[k]
        BY <3>2
      <4>3. s \o Append(t, m) = Append(s \o t, m) BY <1>6, LongerConcat
      <4> QED BY <1>3, <3>1, <4>1, <4>2, <4>3
    <3> QED BY <3>3, <3>4
  <2> QED BY <2>1, <2>2
<1>7. ASSUME NEW j \in Connections, Disconnect(j)
      PROVE  asked'[k] = accepted'[k] \o buffered'[k]
  <2>1. j # k BY <1>1, <1>7 DEF Disconnect
  <2> QED BY <1>0, <1>4, <1>7, <2>1 DEF Disconnect, TypeOK
<1>8. ASSUME NEW j \in Connections,
             OpenFuture(j) \/ ReadyTooLate(j) \/ NeverReady(j) \/ ReadOn(j) \/ Give(j)
      PROVE  UNCHANGED <<asked, accepted, buffered>>
  BY <1>8 DEF OpenFuture, ReadyTooLate, NeverReady, ReadOn, Give, appVars
<1>9. ASSUME (\E how \in {"resolved", "failed"} : Resolve(how)) \/ Answer \/ Notify
                 \/ UNCHANGED vars
      PROVE  UNCHANGED <<asked, accepted, buffered>>
  BY <1>9 DEF Resolve, Answer, Notify, vars, appVars
<1> QED BY <1>4, <1>5, <1>6, <1>7, <1>8, <1>9 DEF Next, OpenGiven, ReadyInTime

-----------------------------------------------------------------------------
(* The closings, counted by the connections that had the chain when they   *)
(* were disconnected, or were disconnected when they got it.               *)

Closers == {k \in disconnected : connection[k] = "ready"}

LEMMA SameClosers ==
    ASSUME ClosingsInv, UNCHANGED <<closings, disconnected>>,
           \A k \in disconnected : connection'[k] = "ready" <=> connection[k] = "ready"
    PROVE  /\ IsFiniteSet(disconnected')
           /\ closings' = Cardinality({k \in disconnected' : connection'[k] = "ready"})
<1>1. {k \in disconnected' : connection'[k] = "ready"} = Closers BY DEF Closers
<1> QED BY <1>1 DEF ClosingsInv, Closers

LEMMA OneMoreCloser ==
    ASSUME ClosingsInv, NEW k, k \notin Closers, CloseChain,
           disconnected' \in {disconnected, disconnected \cup {k}},
           {j \in disconnected' : connection'[j] = "ready"} = Closers \cup {k}
    PROVE  /\ IsFiniteSet(disconnected')
           /\ closings' = Cardinality({j \in disconnected' : connection'[j] = "ready"})
<1>1. IsFiniteSet(disconnected) /\ closings = Cardinality(Closers) BY DEF ClosingsInv, Closers
<1>2. IsFiniteSet(disconnected') BY <1>1, FS_AddElement
<1>3. IsFiniteSet(Closers) BY <1>1, FS_Subset DEF Closers
<1>4. Cardinality(Closers \cup {k}) = Cardinality(Closers) + 1 BY <1>3, FS_AddElement
<1>5. closings' = closings + 1 BY DEF CloseChain
<1> QED BY <1>1, <1>2, <1>4, <1>5

LEMMA ClosingsStep ==
    ASSUME Inv, [Next]_vars
    PROVE  ClosingsInv'
<1>0. TypeOK /\ ClosingsInv BY DEF Inv
<1>1. CASE UNCHANGED <<closings, disconnected, connection, stopped, chain, buffered>>
  BY <1>0, <1>1 DEF ClosingsInv
<1>2. ASSUME NEW how \in {"resolved", "failed"}, Resolve(how)
      PROVE  ClosingsInv'
  BY <1>0, <1>2, SameClosers DEF Resolve, ClosingsInv, appVars, chainVars
<1>3. ASSUME NEW k \in Connections, Attach(k), k \notin stopped
      PROVE  ClosingsInv'
  <2>1. /\ UNCHANGED <<chain, closings, disconnected, stopped>> /\ k \notin disconnected
        /\ \A j \in Connections \ {k} : connection'[j] = connection[j] /\ buffered'[j] = buffered[j]
    BY <1>0, <1>3 DEF Attach, ClearsBuffer, TypeOK, appVars
  <2>2. disconnected \subseteq Connections /\ stopped \subseteq Connections BY <1>0 DEF TypeOK
  <2>3. \A j \in disconnected : connection'[j] = "ready" <=> connection[j] = "ready"
    BY <2>1, <2>2
  <2> QED BY <1>0, <1>3, <2>1, <2>2, <2>3, SameClosers DEF ClosingsInv
<1>4. ASSUME NEW k \in Connections, Unopened(k)
      PROVE  k \notin stopped
  BY <1>0, <1>4 DEF ClosingsInv, Unopened
<1>5. ASSUME NEW k \in Connections, OpenFuture(k)
      PROVE  ClosingsInv'
  <2>1. /\ UNCHANGED <<chain, closings, disconnected, stopped, buffered>> /\ k \notin stopped
        /\ \A j \in Connections \ {k} : connection'[j] = connection[j]
    BY <1>0, <1>4, <1>5 DEF OpenFuture, TypeOK, appVars, chainVars
  <2>2. disconnected \subseteq stopped /\ stopped \subseteq Connections BY <1>0 DEF TypeOK
  <2>3. \A j \in disconnected : connection'[j] = "ready" <=> connection[j] = "ready"
    BY <2>1, <2>2
  <2> QED BY <1>0, <2>1, <2>2, <2>3, SameClosers DEF ClosingsInv
<1>6. ASSUME NEW k \in Connections, ReadyTooLate(k)
      PROVE  ClosingsInv'
  <2>1. /\ UNCHANGED <<chain, disconnected, stopped, buffered>> /\ CloseChain
        /\ connection[k] = "waiting" /\ k \in stopped /\ chain = "resolved"
        /\ connection'[k] = "ready"
        /\ \A j \in Connections \ {k} : connection'[j] = connection[j]
    BY <1>0, <1>6 DEF ReadyTooLate, TypeOK, appVars
  <2>2. k \in disconnected /\ k \notin Closers BY <1>0, <2>1 DEF ClosingsInv, Closers
  <2>3. disconnected \subseteq stopped /\ stopped \subseteq Connections BY <1>0 DEF TypeOK
  <2>4. {j \in disconnected' : connection'[j] = "ready"} = Closers \cup {k}
    BY <2>1, <2>2, <2>3 DEF Closers
  <2>5. /\ IsFiniteSet(disconnected')
        /\ closings' = Cardinality({j \in disconnected' : connection'[j] = "ready"})
    BY <1>0, <2>1, <2>2, <2>4, OneMoreCloser
  <2> QED BY <1>0, <2>1, <2>3, <2>5 DEF ClosingsInv
<1>7. ASSUME NEW k \in Connections, NeverReady(k)
      PROVE  ClosingsInv'
  <2>1. /\ UNCHANGED <<chain, closings, disconnected, connection, buffered>>
        /\ stopped' = stopped \cup {k} /\ chain = "failed" /\ connection[k] = "waiting"
    BY <1>7 DEF NeverReady, appVars, chainVars
  <2> QED BY <1>0, <2>1, SameClosers DEF ClosingsInv
<1>8. ASSUME NEW k \in Connections, NEW m \in Messages, Send(k, m)
      PROVE  ClosingsInv'
  <2>1. /\ UNCHANGED <<chain, closings, disconnected, connection, stopped>> /\ k \notin stopped
        /\ \A j \in Connections \ {k} : buffered'[j] = buffered[j]
    BY <1>0, <1>8 DEF Send, TypeOK
  <2>2. disconnected \subseteq stopped /\ stopped \subseteq Connections BY <1>0 DEF TypeOK
  <2> QED BY <1>0, <2>1, <2>2, SameClosers DEF ClosingsInv
<1>9. ASSUME NEW k \in Connections, Disconnect(k)
      PROVE  ClosingsInv'
  <2>1. /\ UNCHANGED <<chain, connection>> /\ connection[k] # "unopened"
        /\ k \notin stopped /\ stopped' = stopped \cup {k}
        /\ disconnected' = disconnected \cup {k}
        /\ buffered'[k] = <<>> /\ \A j \in Connections \ {k} : buffered'[j] = buffered[j]
    BY <1>0, <1>9 DEF Disconnect, Unopened, TypeOK
  <2>2. disconnected \subseteq stopped /\ stopped \subseteq Connections BY <1>0 DEF TypeOK
  <2>3. /\ IsFiniteSet(disconnected')
        /\ closings' = Cardinality({j \in disconnected' : connection'[j] = "ready"})
    <3>1. CASE connection[k] = "ready"
      <4>1. CloseChain BY <1>9, <3>1 DEF Disconnect
      <4>2. k \notin Closers BY <2>1, <2>2 DEF Closers
      <4>3. {j \in disconnected' : connection'[j] = "ready"} = Closers \cup {k}
        BY <2>1, <3>1 DEF Closers
      <4> QED BY <1>0, <2>1, <4>1, <4>2, <4>3, OneMoreCloser
    <3>2. CASE connection[k] # "ready"
      <4>1. UNCHANGED closings BY <1>9, <3>2 DEF Disconnect, chainVars
      <4>2. {j \in disconnected' : connection'[j] = "ready"} = Closers
        BY <2>1, <3>2 DEF Closers
      <4>3. IsFiniteSet(disconnected') BY <1>0, <2>1, FS_AddElement DEF ClosingsInv
      <4> QED BY <1>0, <4>1, <4>2, <4>3 DEF ClosingsInv, Closers
    <3> QED BY <3>1, <3>2
  <2>4. connection[k] \in {"waiting", "ready"} BY <1>0, <2>1 DEF TypeOK
  <2> QED BY <1>0, <2>1, <2>2, <2>3, <2>4 DEF ClosingsInv
<1>10. ASSUME (\E k \in Connections : ReadOn(k) \/ Give(k)) \/ Answer \/ Notify \/ UNCHANGED vars
       PROVE  UNCHANGED <<closings, disconnected, connection, stopped, chain, buffered>>
  BY <1>10 DEF ReadOn, Give, Answer, Notify, vars, appVars, chainVars
<1> QED BY <1>1, <1>2, <1>3, <1>4, <1>5, <1>6, <1>7, <1>8, <1>9, <1>10
      DEF Next, OpenGiven, ReadyInTime

-----------------------------------------------------------------------------
(* The stream: its head is after all that was taken out before.            *)

LEMMA SameStream ==
    ASSUME StreamInv, HeardOnce, TypeOK, UNCHANGED <<heard, made>>, stream' \in {stream, <<>>},
           \A k \in Connections : InHand(k)' => InHand(k) /\ inHand'[k] = inHand[k]
    PROVE  StreamInv' /\ HeardOnce'
<1>1. HeardOnce' BY DEF HeardOnce
<1>2. ASSUME NEW n, Passed(n)
      PROVE  Passed(n)'
  BY <1>2 DEF Passed
<1>3. /\ \A i \in DOMAIN stream' : stream'[i] \in 1..made'
      /\ \A i, j \in DOMAIN stream' : i < j => stream'[i] < stream'[j]
  BY DEF StreamInv
<1>4. \A k \in Connections : \A i \in DOMAIN heard'[k] : Passed(heard[k][i])'
  BY <1>2 DEF StreamInv
<1>5. ASSUME NEW k \in Connections, InHand(k)'
      PROVE  /\ Passed(inHand[k])'
             /\ \A i \in DOMAIN heard'[k] : heard'[k][i] < inHand'[k]
             /\ \A l \in Connections \ {k} :
                    /\ InHand(l)' => inHand'[l] # inHand'[k]
                    /\ \A i \in DOMAIN heard'[l] : heard'[l][i] # inHand'[k]
  BY <1>2, <1>5 DEF StreamInv
<1> QED BY <1>1, <1>3, <1>4, <1>5 DEF StreamInv

LEMMA LongerStream ==
    ASSUME StreamInv, HeardOnce, TypeOK, UNCHANGED <<heard, inHand, loop>>,
           made' = made + 1, stream' = Append(stream, made')
    PROVE  StreamInv' /\ HeardOnce'
<1>0. made \in Nat /\ made' \in Nat /\ stream \in Seq(Nat) BY DEF TypeOK
<1>1. HeardOnce' BY DEF HeardOnce
<1>2. \A i \in DOMAIN stream' :
          /\ i \in Nat \ {0}
          /\ \/ i \in DOMAIN stream /\ stream'[i] = stream[i] /\ i <= Len(stream)
             \/ i = Len(stream) + 1 /\ stream'[i] = made'
  BY <1>0, LastEntries
<1>3. Len(stream) \in Nat BY <1>0
<1>4. \A i \in DOMAIN stream : stream[i] \in 1..made BY DEF StreamInv
<1>5. \A i \in DOMAIN stream' : stream'[i] \in 1..made' BY <1>0, <1>2, <1>4
<1>6. ASSUME NEW i \in DOMAIN stream', NEW j \in DOMAIN stream', i < j
      PROVE  stream'[i] < stream'[j]
  <2>1. i \in DOMAIN stream /\ stream'[i] = stream[i] BY <1>2, <1>3, <1>6
  <2>2. CASE j = Len(stream) + 1 /\ stream'[j] = made' BY <1>0, <1>4, <2>1, <2>2
  <2>3. CASE j \in DOMAIN stream /\ stream'[j] = stream[j] BY <1>6, <2>1, <2>3 DEF StreamInv
  <2> QED BY <1>2, <2>2, <2>3
<1>7. ASSUME NEW n, Passed(n)
      PROVE  Passed(n)'
  BY <1>0, <1>2, <1>7 DEF Passed
<1>8. \A k \in Connections : \A i \in DOMAIN heard'[k] : Passed(heard[k][i])'
  BY <1>7 DEF StreamInv
<1>9. ASSUME NEW k \in Connections, InHand(k)'
      PROVE  /\ Passed(inHand[k])'
             /\ \A i \in DOMAIN heard'[k] : heard'[k][i] < inHand'[k]
             /\ \A l \in Connections \ {k} :
                    /\ InHand(l)' => inHand'[l] # inHand'[k]
                    /\ \A i \in DOMAIN heard'[l] : heard'[l][i] # inHand'[k]
  BY <1>7, <1>9 DEF StreamInv, InHand
<1> QED BY <1>1, <1>5, <1>6, <1>8, <1>9 DEF StreamInv

LEMMA GiveStream ==
    ASSUME Inv, NEW k \in Connections, Give(k)
    PROVE  StreamInv' /\ HeardOnce'
<1>0. TypeOK /\ StreamInv /\ HeardOnce /\ stream \in Seq(Nat) BY DEF Inv, TypeOK
<1> DEFINE n == stream[1]
<1>1. /\ 1 \in DOMAIN stream /\ Head(stream) = n /\ n \in Nat
      /\ stream' = Tail(stream)
      /\ \A i \in DOMAIN stream' : i \in Nat \ {0} /\ i + 1 \in DOMAIN stream
                                   /\ stream'[i] = stream[i + 1]
  BY <1>0, HeadEntries DEF Give
<1>2. /\ UNCHANGED <<heard, made>> /\ inHand'[k] = n
      /\ \A l \in Connections \ {k} : inHand'[l] = inHand[l] /\ loop'[l] = loop[l]
  BY <1>0, <1>1 DEF Give, TypeOK, appVars
<1>3. n \in 1..made /\ \A i \in DOMAIN stream' : n < stream'[i] BY <1>0, <1>1 DEF StreamInv
<1> HIDE DEF n
<1>4. HeardOnce' BY <1>0, <1>2 DEF HeardOnce
<1>5. /\ \A i \in DOMAIN stream' : stream'[i] \in 1..made'
      /\ \A i, j \in DOMAIN stream' : i < j => stream'[i] < stream'[j]
  BY <1>0, <1>1, <1>2 DEF StreamInv
<1>6. ASSUME NEW p, Passed(p)
      PROVE  p \in 1..made' /\ \A i \in DOMAIN stream' : p < stream'[i]
  BY <1>1, <1>2, <1>6 DEF Passed
<1>7. ASSUME NEW p, Passed(p)
      PROVE  p < n
  BY <1>1, <1>7 DEF Passed, n
<1>8. \A l \in Connections : \A i \in DOMAIN heard'[l] : Passed(heard[l][i])'
  BY <1>0, <1>2, <1>6 DEF StreamInv, Passed
<1>9. \A l \in Connections \ {k} : InHand(l)' => InHand(l) BY <1>2 DEF InHand
<1>10. ASSUME NEW l \in Connections, InHand(l)'
       PROVE  /\ Passed(inHand[l])'
              /\ \A i \in DOMAIN heard'[l] : heard'[l][i] < inHand'[l]
              /\ \A j \in Connections \ {l} :
                     /\ InHand(j)' => inHand'[j] # inHand'[l]
                     /\ \A i \in DOMAIN heard'[j] : heard'[j][i] # inHand'[l]
  <2>1. CASE l = k
    <3>1. \A j \in Connections : \A i \in DOMAIN heard[j] : heard[j][i] < n
      BY <1>0, <1>7 DEF StreamInv
    <3>2. \A j \in Connections \ {k} : InHand(j)' => inHand'[j] < n
      BY <1>0, <1>2, <1>7, <1>9 DEF StreamInv
    <3>3. \A j \in Connections : \A i \in DOMAIN heard[j] : heard[j][i] \in Nat
      BY <1>0 DEF TypeOK
    <3>4. \A j \in Connections : inHand[j] \in Nat BY <1>0 DEF TypeOK
    <3> QED BY <1>1, <1>2, <1>3, <2>1, <3>1, <3>2, <3>3, <3>4 DEF Passed
  <2>2. CASE l # k
    <3>1. InHand(l) /\ inHand'[l] = inHand[l] BY <1>2, <1>9, <1>10, <2>2
    <3>2. Passed(inHand[l]) /\ inHand[l] < n BY <1>0, <1>7, <3>1 DEF StreamInv
    <3>3. inHand[l] \in Nat BY <1>0 DEF TypeOK
    <3>4. Passed(inHand[l])' BY <1>6, <3>1, <3>2 DEF Passed
    <3>5. \A j \in Connections \ {l} : InHand(j)' => inHand'[j] # inHand'[l]
      BY <1>0, <1>1, <1>2, <1>9, <3>1, <3>2, <3>3 DEF StreamInv
    <3> QED BY <1>0, <1>2, <3>1, <3>4, <3>5 DEF StreamInv
  <2> QED BY <2>1, <2>2
<1> QED BY <1>4, <1>5, <1>8, <1>10 DEF StreamInv

LEMMA HearStream ==
    ASSUME Inv, NEW k \in Connections, ReadOn(k)
    PROVE  StreamInv' /\ HeardOnce'
<1>0. TypeOK /\ StreamInv /\ HeardOnce BY DEF Inv
<1>1. UNCHANGED <<inHand, made, stream>> /\ loop[k] = "pulled"
  BY DEF ReadOn, chainVars
<1>2. \A l \in Connections \ {k} : loop'[l] = loop[l] BY <1>0 DEF ReadOn, TypeOK
<1>3. CASE inHand[k] = Failure \/ k \in stopped
  <2>1. UNCHANGED heard /\ loop'[k] = "ended" BY <1>0, <1>3 DEF ReadOn, TypeOK
  <2>2. \A l \in Connections : InHand(l)' => InHand(l) /\ inHand'[l] = inHand[l]
    BY <1>1, <1>2, <2>1 DEF InHand
  <2> QED BY <1>0, <1>1, <2>1, <2>2, SameStream
<1>4. CASE ~(inHand[k] = Failure \/ k \in stopped)
  <2> DEFINE n == inHand[k]
  <2>1. heard' = [heard EXCEPT ![k] = Append(heard[k], n)] BY <1>4 DEF ReadOn
  <2>2. loop'[k] \in {"pulling", "ended"} BY <1>0, <1>4 DEF ReadOn, NextPull, TypeOK
  <2>3. InHand(k) /\ ~InHand(k)' BY <1>1, <1>4, <2>2 DEF InHand
  <2>4. \A l \in Connections : InHand(l)' => l # k /\ InHand(l) /\ inHand'[l] = inHand[l]
    BY <1>1, <1>2, <2>3 DEF InHand
  <2>5. /\ n \in Nat /\ heard[k] \in Seq(Nat)
        /\ \A l \in Connections \ {k} : heard'[l] = heard[l]
        /\ heard'[k] = Append(heard[k], n)
    BY <1>0, <2>1 DEF TypeOK
  <2>6. \A i \in DOMAIN heard'[k] :
            /\ i \in Nat \ {0}
            /\ \/ i \in DOMAIN heard[k] /\ heard'[k][i] = heard[k][i] /\ i <= Len(heard[k])
               \/ i = Len(heard[k]) + 1 /\ heard'[k][i] = n
    BY <2>5, LastEntries
  <2>7. /\ Passed(n) /\ \A i \in DOMAIN heard[k] : heard[k][i] < n
        /\ \A l \in Connections \ {k} :
               /\ InHand(l) => inHand[l] # n
               /\ \A i \in DOMAIN heard[l] : heard[l][i] # n
    BY <1>0, <2>3 DEF StreamInv
  <2> HIDE DEF n
  <2>8. HeardOnce'
    <3>1. ASSUME NEW i \in DOMAIN heard'[k], NEW j \in DOMAIN heard'[k], i < j
          PROVE  heard'[k][i] < heard'[k][j]
      <4>1. Len(heard[k]) \in Nat BY <2>5
      <4>2. i \in DOMAIN heard[k] /\ heard'[k][i] = heard[k][i] BY <2>6, <3>1, <4>1
      <4>3. CASE j = Len(heard[k]) + 1 /\ heard'[k][j] = n BY <2>7, <4>2, <4>3
      <4>4. CASE j \in DOMAIN heard[k] /\ heard'[k][j] = heard[k][j]
        BY <1>0, <3>1, <4>2, <4>4 DEF HeardOnce
      <4> QED BY <2>6, <4>3, <4>4
    <3>2. ASSUME NEW l \in Connections \ {k}, NEW i \in DOMAIN heard'[k],
                 NEW j \in DOMAIN heard'[l]
          PROVE  heard'[k][i] # heard'[l][j]
      <4>1. j \in DOMAIN heard[l] /\ heard'[l][j] = heard[l][j] BY <2>5, <3>2
      <4>2. CASE heard'[k][i] = n BY <2>7, <4>1, <4>2
      <4>3. CASE i \in DOMAIN heard[k] /\ heard'[k][i] = heard[k][i]
        BY <1>0, <4>1, <4>3 DEF HeardOnce
      <4> QED BY <2>6, <3>2, <4>2, <4>3
    <3>3. ASSUME NEW l \in Connections
          PROVE  \A i, j \in DOMAIN heard'[l] : i < j => heard'[l][i] < heard'[l][j]
      <4>1. CASE l = k BY <3>1, <4>1
      <4>2. CASE l # k BY <1>0, <2>5, <4>2 DEF HeardOnce
      <4> QED BY <4>1, <4>2
    <3>4. ASSUME NEW l \in Connections, NEW r \in Connections, l # r,
                 NEW i \in DOMAIN heard'[l], NEW j \in DOMAIN heard'[r]
          PROVE  heard'[l][i] # heard'[r][j]
      <4>1. CASE l = k BY <3>2, <3>4, <4>1
      <4>2. CASE r = k BY <3>2, <3>4, <4>2
      <4>3. CASE l # k /\ r # k BY <1>0, <2>5, <3>4, <4>3 DEF HeardOnce
      <4> QED BY <4>1, <4>2, <4>3
    <3> QED BY <3>3, <3>4 DEF HeardOnce
  <2>9. ASSUME NEW p, Passed(p)
        PROVE  Passed(p)'
    BY <1>1, <2>9 DEF Passed
  <2>10. /\ \A i \in DOMAIN stream' : stream'[i] \in 1..made'
         /\ \A i, j \in DOMAIN stream' : i < j => stream'[i] < stream'[j]
    BY <1>0, <1>1 DEF StreamInv
  <2>11. \A l \in Connections : \A i \in DOMAIN heard'[l] : Passed(heard'[l][i])
    <3>1. \A i \in DOMAIN heard'[k] : Passed(heard'[k][i])
      BY <1>0, <2>6, <2>7 DEF StreamInv
    <3>2. \A l \in Connections \ {k} : \A i \in DOMAIN heard'[l] : Passed(heard'[l][i])
      BY <1>0, <2>5 DEF StreamInv
    <3> QED BY <3>1, <3>2
  <2>12. (\A l \in Connections : \A i \in DOMAIN heard[l] : Passed(heard[l][i]))'
    BY <1>1, <2>11 DEF Passed
  <2>13. ASSUME NEW l \in Connections, InHand(l)'
         PROVE  /\ Passed(inHand[l])'
                /\ \A i \in DOMAIN heard'[l] : heard'[l][i] < inHand'[l]
                /\ \A j \in Connections \ {l} :
                       /\ InHand(j)' => inHand'[j] # inHand'[l]
                       /\ \A i \in DOMAIN heard'[j] : heard'[j][i] # inHand'[l]
    <3>1. l # k /\ InHand(l) /\ inHand'[l] = inHand[l] /\ heard'[l] = heard[l]
      BY <2>4, <2>5, <2>13
    <3>2. Passed(inHand[l])' BY <1>0, <1>1, <3>1 DEF StreamInv, Passed
    <3>3. \A i \in DOMAIN heard'[l] : heard'[l][i] < inHand'[l] BY <1>0, <3>1 DEF StreamInv
    <3>4. ASSUME NEW j \in Connections \ {l}
          PROVE  /\ InHand(j)' => inHand'[j] # inHand'[l]
                 /\ \A i \in DOMAIN heard'[j] : heard'[j][i] # inHand'[l]
      <4>1. CASE j = k
        <5>1. inHand[l] # n BY <2>7, <3>1
        <5>2. \A i \in DOMAIN heard[k] : heard[k][i] # inHand[l] BY <1>0, <3>1 DEF StreamInv
        <5>3. \A i \in DOMAIN heard'[k] : heard'[k][i] # inHand[l] BY <2>6, <5>1, <5>2
        <5> QED BY <2>3, <3>1, <4>1, <5>3
      <4>2. CASE j # k BY <1>0, <2>4, <2>5, <3>1, <4>2 DEF StreamInv
      <4> QED BY <4>1, <4>2
    <3> QED BY <3>2, <3>3, <3>4
  <2> QED BY <2>8, <2>10, <2>12, <2>13 DEF StreamInv
<1> QED BY <1>3, <1>4

LEMMA StreamStep ==
    ASSUME Inv, [Next]_vars
    PROVE  StreamInv' /\ HeardOnce'
<1>0. TypeOK /\ StreamInv /\ HeardOnce BY DEF Inv
<1>1. CASE UNCHANGED <<heard, made, stream, loop, inHand>>
  BY <1>0, <1>1, SameStream DEF InHand
<1>2. ASSUME NEW k \in Connections, Attach(k), loop[k] = "none"
      PROVE  StreamInv' /\ HeardOnce'
  <2>1. UNCHANGED <<heard, made, stream, inHand>> BY <1>2 DEF Attach, appVars
  <2>2. loop' \in {loop, [loop EXCEPT ![k] = "ended"], [loop EXCEPT ![k] = "pulling"]}
    BY <1>2 DEF Attach, StartsReading, NextPull
  <2>3. \A l \in Connections : InHand(l)' => InHand(l) BY <1>0, <2>1, <2>2 DEF InHand, TypeOK
  <2> QED BY <1>0, <2>1, <2>3, SameStream
<1>3. ASSUME NEW k \in Connections, OpenGiven(k) \/ ReadyInTime(k)
      PROVE  Attach(k) /\ loop[k] = "none"
  BY <1>0, <1>3 DEF OpenGiven, ReadyInTime, Unopened, TypeOK
<1>4. ASSUME CloseChain, UNCHANGED heard
      PROVE  StreamInv' /\ HeardOnce'
  <2>1. UNCHANGED <<heard, made>> /\ stream' = <<>> BY <1>4 DEF CloseChain
  <2>2. \A l \in Connections : InHand(l)' => InHand(l) /\ inHand'[l] = inHand[l]
    BY <1>0, <1>4 DEF CloseChain, InHand, TypeOK
  <2> QED BY <1>0, <2>1, <2>2, SameStream
<1>5. ASSUME NEW k \in Connections, ReadyTooLate(k)
      PROVE  CloseChain /\ UNCHANGED heard
  BY <1>5 DEF ReadyTooLate, appVars
<1>6. ASSUME NEW k \in Connections, Disconnect(k)
      PROVE  StreamInv' /\ HeardOnce'
  <2>1. UNCHANGED heard BY <1>6 DEF Disconnect
  <2>2. CASE connection[k] = "ready" BY <1>4, <1>6, <2>1, <2>2 DEF Disconnect
  <2>3. CASE connection[k] # "ready" BY <1>1, <1>6, <2>1, <2>3 DEF Disconnect, chainVars
  <2> QED BY <2>2, <2>3
<1>7. ASSUME Answer \/ Notify
      PROVE  StreamInv' /\ HeardOnce'
  <2>1. /\ UNCHANGED <<heard, inHand, loop>> /\ made' = made + 1
        /\ stream' = Append(stream, made')
    BY <1>7 DEF Answer, Notify, appVars
  <2> QED BY <1>0, <2>1, LongerStream
<1>8. ASSUME NEW k \in Connections,
             OpenFuture(k) \/ NeverReady(k) \/ (\E m \in Messages : Send(k, m))
      PROVE  UNCHANGED <<heard, made, stream, loop, inHand>>
  BY <1>8 DEF OpenFuture, NeverReady, Send, appVars, chainVars
<1>9. ASSUME (\E how \in {"resolved", "failed"} : Resolve(how)) \/ UNCHANGED vars
      PROVE  UNCHANGED <<heard, made, stream, loop, inHand>>
  BY <1>9 DEF Resolve, vars, appVars, chainVars
<1> QED BY <1>1, <1>2, <1>3, <1>4, <1>5, <1>6, <1>7, <1>8, <1>9, HearStream, GiveStream DEF Next

-----------------------------------------------------------------------------
(* Nothing is lost before the chain is closed.                             *)

LEMMA KeptOn ==
    ASSUME NothingLost, ~Closed, UNCHANGED made,
           \A i \in DOMAIN stream : \E j \in DOMAIN stream' : stream'[j] = stream[i],
           \A k \in Connections :
               /\ InHand(k) => InHand(k)' /\ inHand'[k] = inHand[k]
               /\ heard'[k] = heard[k]
    PROVE  \A n \in 1..made' : Kept(n)'
BY DEF NothingLost, Kept

LEMMA LostStep ==
    ASSUME Inv, [Next]_vars
    PROVE  NothingLost'
<1>0. TypeOK /\ ClosingsInv /\ StreamInv /\ NothingLost BY DEF Inv
<1>1. closings \in Nat /\ made \in Nat /\ stream \in Seq(Nat) BY <1>0 DEF TypeOK
<1>2. CASE UNCHANGED <<closings, made, stream, inHand, loop, heard, connection, stopped, threw>>
  BY <1>0, <1>2 DEF NothingLost, Kept, Reads, InHand, Closed
<1>3. ASSUME NEW k \in Connections, Attach(k), k \notin stopped, loop[k] = "none"
      PROVE  NothingLost'
  <2>1. /\ UNCHANGED <<closings, made, stream, inHand, heard, stopped>> /\ threw \subseteq threw'
        /\ \A j \in Connections \ {k} : connection'[j] = connection[j] /\ loop'[j] = loop[j]
        /\ ~Closed => k \in threw' \/ loop'[k] = "pulling"
    BY <1>0, <1>3 DEF Attach, StartsReading, NextPull, TypeOK, appVars
  <2>2. \A j \in Connections : InHand(j) => InHand(j)' BY <1>3, <2>1 DEF InHand
  <2>3. ~Closed => \A n \in 1..made' : Kept(n)' BY <1>0, <2>1, <2>2, KeptOn
  <2>4. ASSUME ~Closed, NEW j \in Connections, connection'[j] = "ready"
        PROVE  Reads(j)'
    <3>1. CASE j = k BY <1>3, <2>1, <2>4, <3>1 DEF Reads
    <3>2. CASE j # k BY <1>0, <2>1, <2>2, <2>4, <3>2 DEF NothingLost, Reads
    <3> QED BY <3>1, <3>2
  <2>5. Closed' <=> Closed BY <2>1 DEF Closed
  <2> QED BY <2>3, <2>4, <2>5 DEF NothingLost
<1>4. ASSUME NEW k \in Connections, OpenGiven(k) \/ ReadyInTime(k)
      PROVE  Attach(k) /\ k \notin stopped /\ loop[k] = "none"
  BY <1>0, <1>4 DEF OpenGiven, ReadyInTime, Unopened, TypeOK, ClosingsInv
<1>5. ASSUME CloseChain
      PROVE  NothingLost'
  <2>1. closings' > 0 BY <1>1, <1>5 DEF CloseChain
  <2> QED BY <2>1 DEF NothingLost, Closed
<1>6. ASSUME NEW k \in Connections, OpenFuture(k)
      PROVE  NothingLost'
  <2>1. /\ UNCHANGED <<closings, made, stream, inHand, loop, heard, stopped, threw>>
        /\ \A j \in Connections : connection'[j] = "ready" => connection[j] = "ready"
    BY <1>0, <1>6 DEF OpenFuture, TypeOK, appVars, chainVars
  <2> QED BY <1>0, <2>1 DEF NothingLost, Kept, Reads, InHand, Closed
<1>7. ASSUME NEW k \in Connections, connection[k] # "ready", stopped' = stopped \cup {k},
             UNCHANGED <<closings, made, stream, inHand, loop, heard, connection, threw>>
      PROVE  NothingLost'
  BY <1>0, <1>7 DEF NothingLost, Kept, Reads, InHand, Closed
<1>8. ASSUME NEW k \in Connections, NeverReady(k)
      PROVE  NothingLost'
  BY <1>7, <1>8 DEF NeverReady, appVars, chainVars
<1>9. ASSUME NEW k \in Connections, Disconnect(k)
      PROVE  NothingLost'
  <2>1. stopped' = stopped \cup {k} /\ UNCHANGED <<connection, threw, heard>>
    BY <1>9 DEF Disconnect
  <2>2. CASE connection[k] = "ready" BY <1>5, <1>9, <2>2 DEF Disconnect
  <2>3. CASE connection[k] # "ready" BY <1>7, <1>9, <2>1, <2>3 DEF Disconnect, chainVars
  <2> QED BY <2>2, <2>3
<1>10. ASSUME NEW k \in Connections, ReadOn(k)
       PROVE  NothingLost'
  <2>1. /\ UNCHANGED <<closings, made, stream, inHand, connection, stopped, threw>>
        /\ loop[k] = "pulled"
        /\ \A j \in Connections \ {k} : loop'[j] = loop[j] /\ heard'[j] = heard[j]
    BY <1>0, <1>10 DEF ReadOn, TypeOK, chainVars
  <2>2. SUFFICES ASSUME ~Closed PROVE NothingLost' BY <2>1 DEF NothingLost, Closed
  <2>3. \A j \in Connections \ {k} : (InHand(j) <=> InHand(j)') /\ (Reads(j) <=> Reads(j)')
    BY <2>1 DEF InHand, Reads
  <2>4. connection[k] = "ready" /\ k \notin stopped
    BY <1>0, <2>1, <2>2 DEF TypeOK, NothingLost, Reads
  <2>5. CASE inHand[k] = Failure
    <3>1. heard'[k] = heard[k] /\ k \in threw /\ ~InHand(k)
      BY <1>0, <1>10, <2>1, <2>2, <2>4, <2>5 DEF ReadOn, NothingLost, Reads, InHand
    <3>2. \A n \in 1..made' : Kept(n)' BY <1>0, <2>1, <2>2, <2>3, <3>1, KeptOn
    <3>3. Reads(k)' BY <2>1, <2>4, <3>1 DEF Reads
    <3> QED BY <1>0, <2>1, <2>2, <2>3, <3>2, <3>3 DEF NothingLost
  <2>6. CASE inHand[k] # Failure
    <3>1. heard'[k] = Append(heard[k], inHand[k]) /\ loop'[k] = "pulling"
      BY <1>0, <1>10, <2>2, <2>4, <2>6 DEF ReadOn, NextPull, TypeOK
    <3>2. heard[k] \in Seq(Nat) /\ inHand[k] \in Nat BY <1>0 DEF TypeOK
    <3>3. /\ \A i \in DOMAIN heard[k] : i \in DOMAIN heard'[k] /\ heard'[k][i] = heard[k][i]
          /\ \E i \in DOMAIN heard'[k] : heard'[k][i] = inHand[k]
      BY <3>1, <3>2, LastEntries
    <3>4. ASSUME NEW n \in 1..made
          PROVE  Kept(n)'
      <4>1. CASE \E i \in DOMAIN stream : stream[i] = n BY <2>1, <4>1 DEF Kept
      <4>2. ASSUME NEW j \in Connections, InHand(j) /\ inHand[j] = n
            PROVE  Kept(n)'
        BY <2>1, <2>3, <3>3, <4>2 DEF Kept
      <4>3. ASSUME NEW j \in Connections, NEW i \in DOMAIN heard[j], heard[j][i] = n
            PROVE  Kept(n)'
        BY <2>1, <3>3, <4>3 DEF Kept
      <4> QED BY <1>0, <2>2, <4>1, <4>2, <4>3 DEF NothingLost, Kept
    <3>5. Reads(k)' BY <2>1, <2>4, <3>1 DEF Reads
    <3> QED BY <1>0, <2>1, <2>2, <2>3, <3>4, <3>5 DEF NothingLost
  <2> QED BY <2>5, <2>6
<1>11. ASSUME NEW k \in Connections, Give(k)
       PROVE  NothingLost'
  <2>1. /\ UNCHANGED <<closings, made, heard, connection, stopped, threw>>
        /\ loop[k] = "pulling" /\ loop'[k] = "pulled" /\ inHand'[k] = Head(stream)
        /\ stream # <<>> /\ stream' = Tail(stream)
        /\ \A j \in Connections \ {k} : loop'[j] = loop[j] /\ inHand'[j] = inHand[j]
    BY <1>0, <1>11 DEF Give, TypeOK, appVars
  <2>2. SUFFICES ASSUME ~Closed PROVE NothingLost' BY <2>1 DEF NothingLost, Closed
  <2>3. /\ Head(stream) = stream[1] /\ 1 \in DOMAIN stream
        /\ \A i \in DOMAIN stream : i # 1 => \E j \in DOMAIN stream' : stream'[j] = stream[i]
    <3>1. /\ Head(stream) = stream[1] /\ 1 \in DOMAIN stream
          /\ \A i \in DOMAIN stream : i # 1 => /\ i - 1 \in DOMAIN Tail(stream)
                                              /\ Tail(stream)[i - 1] = stream[i]
      BY <1>1, <2>1, HeadEntries
    <3> QED BY <2>1, <3>1
  <2>4. InHand(k)' /\ inHand'[k] = stream[1] /\ ~InHand(k)
    BY <1>0, <1>1, <2>1, <2>3 DEF StreamInv, InHand, Failure
  <2>5. \A j \in Connections : InHand(j) => InHand(j)' /\ inHand'[j] = inHand[j]
    BY <2>1, <2>4 DEF InHand
  <2>6. ASSUME NEW n \in 1..made
        PROVE  Kept(n)'
    <3>1. ASSUME NEW i \in DOMAIN stream, stream[i] = n
          PROVE  Kept(n)'
      BY <2>3, <2>4, <3>1 DEF Kept
    <3> QED BY <1>0, <2>1, <2>2, <2>5, <3>1 DEF NothingLost, Kept
  <2>7. \A j \in Connections : Reads(j) => Reads(j)' BY <2>1, <2>4, <2>5 DEF Reads
  <2> QED BY <1>0, <2>1, <2>2, <2>6, <2>7 DEF NothingLost
<1>12. ASSUME Answer \/ Notify
       PROVE  NothingLost'
  <2>1. /\ UNCHANGED <<closings, heard, inHand, loop, connection, stopped, threw>>
        /\ made' = made + 1 /\ stream' = Append(stream, made')
    BY <1>12 DEF Answer, Notify, appVars
  <2>2. /\ \A i \in DOMAIN stream : i \in DOMAIN stream' /\ stream'[i] = stream[i]
        /\ \E i \in DOMAIN stream' : stream'[i] = made'
    BY <1>1, <2>1, LastEntries
  <2>3. ASSUME ~Closed, NEW n \in 1..made'
        PROVE  Kept(n)'
    <3>1. CASE n = made' BY <2>2, <3>1 DEF Kept
    <3>2. CASE n # made'
      <4>1. Kept(n) BY <1>0, <1>1, <2>1, <2>3, <3>2 DEF NothingLost
      <4> QED BY <2>1, <2>2, <4>1 DEF Kept, InHand
    <3> QED BY <3>1, <3>2
  <2>4. \A j \in Connections : Reads(j) => Reads(j)' BY <2>1 DEF Reads, InHand
  <2>5. Closed' <=> Closed BY <2>1 DEF Closed
  <2> QED BY <1>0, <2>1, <2>3, <2>4, <2>5 DEF NothingLost
<1>13. ASSUME \/ \E how \in {"resolved", "failed"} : Resolve(how)
              \/ \E k \in Connections : \E m \in Messages : Send(k, m)
              \/ UNCHANGED vars
       PROVE  UNCHANGED <<closings, made, stream, inHand, loop, heard, connection, stopped, threw>>
  BY <1>13 DEF Resolve, Send, vars, appVars, chainVars
<1>14. ASSUME NEW k \in Connections, ReadyTooLate(k)
       PROVE  NothingLost'
  BY <1>5, <1>14 DEF ReadyTooLate
<1> QED BY <1>2, <1>3, <1>4, <1>6, <1>8, <1>9, <1>10, <1>11, <1>12, <1>13, <1>14 DEF Next

-----------------------------------------------------------------------------
(* The invariant is kept.                                                  *)
LEMMA InvStep == Inv /\ [Next]_vars => Inv'
<1> SUFFICES ASSUME Inv, [Next]_vars PROVE Inv' OBVIOUS
<1> QED BY TypeStep, SentStep, ClosingsStep, StreamStep, LostStep DEF Inv

(* In every behaviour of the connections and their chain: the types with   *)
(* the bound on what waits in the chain, and all of the parts below.       *)
THEOREM InvAlways == Spec => []Inv
BY InitInv, InvStep, PTL DEF Spec

(* "Messages sent before the chain resolves are buffered": every message   *)
(* of a connection reaches the chain once and in order, however many.      *)
THEOREM SentInOrderAlways == Spec => []SentInOrder
<1>1. Inv => SentInOrder BY DEF Inv
<1> QED BY <1>1, InvAlways, PTL

(* close is called once for each connection that was disconnected, at      *)
(* disconnect or when the chain resolves after it, never both.             *)
THEOREM ClosedOnceEachAlways == Spec => []ClosedOnceEach
<1>1. Inv => ClosedOnceEach
  <2> SUFFICES ASSUME Inv PROVE ClosedOnceEach OBVIOUS
  <2>1. IsFiniteSet(disconnected) /\ closings = Cardinality(Closers)
    BY DEF Inv, ClosingsInv, Closers
  <2>2. Cardinality(Closers) <= Cardinality(disconnected) BY <2>1, FS_Subset DEF Closers
  <2> QED BY <2>1, <2>2 DEF ClosedOnceEach
<1> QED BY <1>1, InvAlways, PTL

(* Connections hear the chain's messages in order, none of them twice.     *)
THEOREM HeardOnceAlways == Spec => []HeardOnce
<1>1. Inv => HeardOnce BY DEF Inv
<1> QED BY <1>1, InvAlways, PTL

(* Until the chain is closed, every message it made is in its stream, in   *)
(* the hand of a read loop or heard, and every connection that has the     *)
(* chain is reading from it and was not stopped, unless sending its buffer *)
(* failed: no await of the read loop and no disconnect loses a message.    *)
THEOREM NothingLostAlways == Spec => []NothingLost
<1>1. Inv => NothingLost BY DEF Inv
<1> QED BY <1>1, InvAlways, PTL

(* Once disconnect was called or the chain failed, onMessage is not called *)
(* any more, whatever the read loop had pulled.                            *)
THEOREM SilentOnceStoppedAlways == Spec => SilentOnceStopped
<1>1. ASSUME Inv, [Next]_vars, NEW k \in Connections, heard'[k] # heard[k]
      PROVE  k \notin stopped
  <2>0. TypeOK BY <1>1 DEF Inv
  <2>1. ASSUME NEW j \in Connections, ReadOn(j)
        PROVE  k \notin stopped
    <3>1. k = j BY <1>1, <2>0, <2>1 DEF ReadOn, TypeOK
    <3> QED BY <1>1, <2>1, <3>1 DEF ReadOn
  <2>2. ASSUME NEW j \in Connections,
               OpenGiven(j) \/ OpenFuture(j) \/ ReadyInTime(j) \/ ReadyTooLate(j)
                 \/ NeverReady(j) \/ (\E m \in Messages : Send(j, m)) \/ Disconnect(j) \/ Give(j)
        PROVE  UNCHANGED heard
    BY <2>2 DEF OpenGiven, OpenFuture, ReadyInTime, Attach, ReadyTooLate, NeverReady, Send,
         Disconnect, Give, appVars
  <2>3. ASSUME (\E how \in {"resolved", "failed"} : Resolve(how)) \/ Answer \/ Notify
                   \/ UNCHANGED vars
        PROVE  UNCHANGED heard
    BY <2>3 DEF Resolve, Answer, Notify, vars, appVars
  <2> QED BY <1>1, <2>1, <2>2, <2>3 DEF Next
<1>2. Inv /\ [Next]_vars =>
          [\A k \in Connections : heard'[k] # heard[k] => k \notin stopped]_vars
  BY <1>1
<1> QED BY <1>2, InvAlways, PTL DEF Spec, SilentOnceStopped
=============================================================================
