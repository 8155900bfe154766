------------------------- MODULE SmoldotClientProofs -------------------------
(***************************************************************************)
(* Proofs about SmoldotClient, for any number of calls of addChain in a    *)
(* process with one client.                                                *)
(***************************************************************************)
EXTENDS SmoldotClient, SequenceTheorems, TLAPS

(* The callback registry is shared by clients that each count from one:    *)
(* what follows is true of a process that has one client.                  *)
SingleClient == \A c, d \in Clients : c = d

-----------------------------------------------------------------------------
(* Taking a key out of a map, which has it once.                           *)
LEMMA WithoutKey ==
    ASSUME NEW S, NEW keys \in Seq(S), NEW h, \E i \in DOMAIN keys : keys[i] = h,
           \A i, j \in DOMAIN keys : keys[i] = keys[j] => i = j
    PROVE  /\ Without(keys, h) \in Seq(S)
           /\ \A i \in DOMAIN Without(keys, h) :
                  Without(keys, h)[i] # h /\ \E j \in DOMAIN keys : Without(keys, h)[i] = keys[j]
           /\ \A i, j \in DOMAIN Without(keys, h) :
                  Without(keys, h)[i] = Without(keys, h)[j] => i = j
<1> DEFINE at == CHOOSE i \in DOMAIN keys : keys[i] = h
           left == SubSeq(keys, 1, at - 1)
           right == SubSeq(keys, at + 1, Len(keys))
           rest == left \o right
<1>1. at \in 1..Len(keys) /\ keys[at] = h /\ Len(keys) \in Nat
  OBVIOUS
<1>2. Without(keys, h) = rest
  BY DEF Without
<1> HIDE DEF at
<1>3. /\ left \in Seq(S) /\ Len(left) = at - 1
      /\ \A i \in 1..(at - 1) : left[i] = keys[i]
  BY <1>1
<1>4. /\ right \in Seq(S) /\ Len(right) = Len(keys) - at
      /\ \A i \in 1..(Len(keys) - at) : right[i] = keys[at + i]
  BY <1>1
<1> HIDE DEF left, right
<1>5. /\ rest \in Seq(S) /\ Len(rest) = Len(keys) - 1
      /\ \A i \in 1..(at - 1) : rest[i] = left[i]
      /\ \A i \in at..(Len(keys) - 1) : rest[i] = right[i - at + 1]
  BY <1>1, <1>3, <1>4, ConcatProperties
<1> HIDE DEF rest
<1>6. /\ \A i \in 1..(at - 1) : rest[i] = keys[i]
      /\ \A i \in at..(Len(keys) - 1) : rest[i] = keys[i + 1]
  <2>1. ASSUME NEW i \in at..(Len(keys) - 1) PROVE rest[i] = keys[i + 1]
    <3>1. i - at + 1 \in 1..(Len(keys) - at) /\ at + (i - at + 1) = i + 1
      BY <1>1
    <3>. QED
      BY <1>4, <1>5, <3>1
  <2>. QED
    BY <1>3, <1>5, <2>1
<1>7. DOMAIN rest = 1..(Len(keys) - 1) /\ DOMAIN keys = 1..Len(keys)
  BY <1>5, LenProperties
<1>8. \A i \in DOMAIN rest :
          \E j \in DOMAIN keys : /\ rest[i] = keys[j] /\ j # at
                                 /\ j = IF i < at THEN i ELSE i + 1
  BY <1>1, <1>6, <1>7
<1>9. \A i \in DOMAIN rest : rest[i] # h /\ \E j \in DOMAIN keys : rest[i] = keys[j]
  BY <1>1, <1>7, <1>8
<1>10. \A i, j \in DOMAIN rest : rest[i] = rest[j] => i = j
  BY <1>1, <1>7, <1>8
<1>. QED
  BY <1>2, <1>5, <1>9, <1>10

-----------------------------------------------------------------------------
LEMMA InitInv == Init => Inv
<1> SUFFICES ASSUME Init PROVE Inv
  OBVIOUS
<1>1. \A S : <<>> \in Seq(S) /\ DOMAIN <<>> = {} /\ Len(<<>>) = 0
  OBVIOUS
<1>2. TypeOK
  <2>1. owner \in [Adds -> Clients]
    BY ClientsAssumption DEF Init
  <2>2. registry \in [DOMAIN registry -> Adds]
    BY <1>1 DEF Init
  <2>3. chains \in [Clients -> Seq(Adds)] /\ \A c \in Clients : position[c] <= Len(chains[c])
    BY <1>1 DEF Init
  <2>4. DOMAIN registry \subseteq Nat /\ tasks = {} /\ inbox \in Seq(Messages)
    BY <1>1 DEF Init
  <2>5. client \in [Clients -> {"new", "ready", "looping", "ending", "gone"}]
    BY DEF Init
  <2>6. /\ nextCallbackId \in [Clients -> Nat \ {0}]
        /\ position \in [Clients -> Nat] /\ changed \in [Clients -> BOOLEAN]
    BY DEF Init
  <2>. QED
    BY <2>1, <2>2, <2>3, <2>4, <2>5, <2>6 DEF Init, TypeOK
<1>3. RegistryInv /\ TasksInv /\ InboxInv /\ CallsInv
  BY DEF Init, RegistryInv, TasksInv, InboxInv, CallsInv
<1>4. ChainsInv /\ Served /\ NothingLeft /\ CallbacksOpen /\ DisposeCompletes
  BY DEF Init, ChainsInv, Served, NothingLeft, CallbacksOpen, DisposeCompletes, Handles,
     Initialized
<1>. QED
  BY <1>2, <1>3, <1>4 DEF Inv, CallbackInv, ClientInv

-----------------------------------------------------------------------------
(* Type correctness.                                                       *)

LEMMA LoopType ==
    ASSUME TypeOK, NEW c \in Clients, NEW i \in Nat \ {0}, Loop(c, i)
    PROVE  /\ client' \in [Clients -> {"new", "ready", "looping", "ending", "gone"}]
           /\ chains' \in [Clients -> Seq(Adds)]
           /\ position' \in [Clients -> Nat]
           /\ \A d \in Clients : position'[d] <= Len(chains'[d])
           /\ changed' = changed
           /\ disposed' \subseteq Clients \X Adds /\ disposed \subseteq disposed'
           /\ nativeClients' \subseteq Clients /\ nativeChains' \subseteq nativeChains
<1>1. /\ client \in [Clients -> {"new", "ready", "looping", "ending", "gone"}]
      /\ chains \in [Clients -> Seq(Adds)] /\ position \in [Clients -> Nat]
      /\ \A d \in Clients : position[d] <= Len(chains[d])
      /\ disposed \subseteq Clients \X Adds /\ nativeClients \subseteq Clients
  BY DEF TypeOK
<1>2. <<>> \in Seq(Adds) /\ Len(<<>>) = 0
  OBVIOUS
<1>3. CASE i <= Len(chains[c])
  <2>1. chains[c][i] \in Adds
    BY <1>1, <1>3
  <2>2. /\ client' = [client EXCEPT ![c] = "looping"] /\ position' = [position EXCEPT ![c] = i]
        /\ disposed' = disposed \cup {<<c, chains[c][i]>>}
        /\ UNCHANGED <<chains, changed, nativeClients, nativeChains>>
    BY <1>3 DEF Loop
  <2>. QED
    BY <1>1, <1>3, <2>1, <2>2
<1>4. CASE ~(i <= Len(chains[c]))
  <2>1. /\ client' = [client EXCEPT ![c] = "ending"] /\ position' = [position EXCEPT ![c] = 0]
        /\ chains' = [chains EXCEPT ![c] = <<>>]
        /\ nativeClients' \subseteq nativeClients /\ nativeChains' \subseteq nativeChains
        /\ UNCHANGED <<changed, disposed>>
    BY <1>4 DEF Loop, KeptByDestroy
  <2>. QED
    BY <1>1, <1>2, <2>1
<1>. QED
  BY <1>3, <1>4

LEMMA StepType ==
    ASSUME TypeOK, NEW t \in tasks, NEW s \in {"adding", "added", "failed", "called"}, Step(t, s)
    PROVE  tasks' \subseteq [add : Adds, id : Nat, client : Clients,
                            step : {"adding", "added", "failed", "called"}]
BY DEF TypeOK, Step

(* A map has each of its keys once.                                        *)
KeysOnce == \A c \in Clients : \A i, j \in DOMAIN chains[c] : chains[c][i] = chains[c][j] => i = j

LEMMA TypeStep == ASSUME TypeOK, KeysOnce, [Next]_vars PROVE TypeOK'
<1>1. TypeOK
  OBVIOUS
<1>2. ASSUME NEW c \in Clients, Initialize(c) PROVE TypeOK'
  BY <1>1, <1>2 DEF TypeOK, Initialize
<1>3. ASSUME NEW c \in Clients, NEW a \in Adds, AddChain(a, c) PROVE TypeOK'
  <2>1. tasks' \subseteq [add : Adds, id : Nat, client : Clients,
                         step : {"adding", "added", "failed", "called"}]
    BY <1>1, <1>3 DEF TypeOK, AddChain
  <2>2. DOMAIN registry' \subseteq Nat /\ registry' \in [DOMAIN registry' -> Adds]
    BY <1>1, <1>3 DEF TypeOK, AddChain, Register
  <2>3. call' \in [Adds -> {"idle", "waiting", "resolved", "done", "failed"}]
    BY <1>1, <1>3 DEF TypeOK, AddChain
  <2>4. nextCallbackId' \in [Clients -> Nat \ {0}] /\ owner' \in [Adds -> Clients]
    BY <1>1, <1>3 DEF TypeOK, AddChain
  <2>. QED
    BY <1>1, <1>3, <2>1, <2>2, <2>3, <2>4 DEF TypeOK, AddChain
<1>4. ASSUME NEW c \in Clients, NEW h \in Adds, RemoveChain(c, h) PROVE TypeOK'
  <2>1. disposed' \subseteq Clients \X Adds /\ removing' \subseteq disposed'
    BY <1>1, <1>4 DEF TypeOK, RemoveChain
  <2>2. nativeChains' \subseteq nativeChains
    BY <1>4 DEF RemoveChain
  <2>. QED
    BY <1>1, <1>4, <2>1, <2>2 DEF TypeOK, RemoveChain
<1>5. ASSUME NEW c \in Clients, NEW h \in Adds, FinishRemove(c, h) PROVE TypeOK'
  <2>1. chains' \in [Clients -> Seq(Adds)]
    <3>1. CASE h \notin Handles(c)
      BY <1>1, <1>5, <3>1 DEF TypeOK, FinishRemove
    <3>2. CASE h \in Handles(c)
      <4>1. chains[c] \in Seq(Adds) /\ \E i \in DOMAIN chains[c] : chains[c][i] = h
        BY <1>1, <3>2 DEF TypeOK, Handles
      <4>2. \A i, j \in DOMAIN chains[c] : chains[c][i] = chains[c][j] => i = j
        BY DEF KeysOnce
      <4>3. Without(chains[c], h) \in Seq(Adds)
        BY <4>1, <4>2, WithoutKey
      <4>. QED
        BY <1>1, <1>5, <3>2, <4>3 DEF TypeOK, FinishRemove
    <3>. QED
      BY <3>1, <3>2
  <2>2. position' \in [Clients -> Nat] /\ changed' \in [Clients -> BOOLEAN]
    BY <1>1, <1>5 DEF TypeOK, FinishRemove
  <2>3. \A d \in Clients : position'[d] <= Len(chains'[d])
    <3>1. /\ position' = [position EXCEPT ![c] = 0]
          /\ \A d \in Clients : d # c => chains'[d] = chains[d]
      BY <1>1, <1>5 DEF TypeOK, FinishRemove
    <3>. QED
      BY <1>1, <2>1, <3>1, LenProperties DEF TypeOK
  <2>. QED
    BY <1>1, <1>5, <2>1, <2>2, <2>3 DEF TypeOK, FinishRemove, nativeVars
<1>6. ASSUME NEW c \in Clients, Dispose(c) PROVE TypeOK'
  <2>1. Loop(c, 1)
    BY <1>6 DEF Dispose
  <2>2. /\ client' \in [Clients -> {"new", "ready", "looping", "ending", "gone"}]
        /\ chains' \in [Clients -> Seq(Adds)]
        /\ position' \in [Clients -> Nat]
        /\ \A d \in Clients : position'[d] <= Len(chains'[d])
        /\ changed' = changed
        /\ disposed' \subseteq Clients \X Adds /\ disposed \subseteq disposed'
        /\ nativeClients' \subseteq Clients /\ nativeChains' \subseteq nativeChains
    BY <1>1, <2>1, LoopType
  <2>. QED
    BY <1>1, <1>6, <2>2 DEF TypeOK, Dispose
<1>7. ASSUME NEW c \in Clients, DisposeNext(c) PROVE TypeOK'
  <2>1. Loop(c, position[c] + 1) /\ position[c] + 1 \in Nat \ {0}
    BY <1>1, <1>7 DEF DisposeNext, TypeOK
  <2>2. /\ client' \in [Clients -> {"new", "ready", "looping", "ending", "gone"}]
        /\ chains' \in [Clients -> Seq(Adds)]
        /\ position' \in [Clients -> Nat]
        /\ \A d \in Clients : position'[d] <= Len(chains'[d])
        /\ changed' = changed
        /\ disposed' \subseteq Clients \X Adds /\ disposed \subseteq disposed'
        /\ nativeClients' \subseteq Clients /\ nativeChains' \subseteq nativeChains
    BY <1>1, <2>1, LoopType
  <2>. QED
    BY <1>1, <1>7, <2>2 DEF TypeOK, DisposeNext
<1>8. ASSUME NEW c \in Clients, DisposeThrows(c) \/ DisposeEnds(c) PROVE TypeOK'
  <2>1. client' \in [Clients -> {"new", "ready", "looping", "ending", "gone"}]
    BY <1>1, <1>8 DEF TypeOK, DisposeThrows, DisposeEnds
  <2>2. /\ chains' = chains /\ changed' \in [Clients -> BOOLEAN]
        /\ position' \in [Clients -> Nat] /\ \A d \in Clients : position'[d] <= Len(chains'[d])
    <3>1. /\ \A d \in Clients : Len(chains[d]) \in Nat /\ position[d] <= Len(chains[d])
          /\ changed \in [Clients -> BOOLEAN] /\ position \in [Clients -> Nat]
      BY <1>1 DEF TypeOK
    <3>2. /\ chains' = chains
          /\ changed' = changed \/ changed' = [changed EXCEPT ![c] = FALSE]
          /\ position' = position \/ position' = [position EXCEPT ![c] = 0]
      BY <1>8 DEF DisposeThrows, DisposeEnds
    <3>3. \A d \in Clients : position'[d] \in {position[d], 0}
      BY <3>1, <3>2
    <3>4. \A d \in Clients : position'[d] <= Len(chains[d])
      BY <3>1, <3>3
    <3>5. changed' \in [Clients -> BOOLEAN]
      BY <3>1, <3>2
    <3>6. position' \in [Clients -> Nat]
      BY <3>1, <3>2
    <3>. QED
      BY <3>2, <3>4, <3>5, <3>6
  <2>. QED
    BY <1>1, <1>8, <2>1, <2>2 DEF TypeOK, DisposeThrows, DisposeEnds, nativeVars
<1>9. ASSUME NEW t \in tasks, RustAdds(t) \/ RustFails(t) \/ RustEnds(t) PROVE TypeOK'
  <2>1. tasks' \subseteq [add : Adds, id : Nat, client : Clients,
                         step : {"adding", "added", "failed", "called"}]
    BY <1>1, <1>9, StepType DEF RustAdds, RustFails, RustEnds, TypeOK
  <2>2. nativeChains' \subseteq [chain : Adds, client : Clients]
    <3>1. t.add \in Adds /\ t.client \in Clients
      BY <1>1 DEF TypeOK
    <3>2. nativeChains' \subseteq nativeChains \cup {[chain |-> t.add, client |-> t.client]}
      BY <1>9 DEF RustAdds, RustFails, RustEnds
    <3>. QED
      BY <1>1, <3>1, <3>2 DEF TypeOK
  <2>. QED
    BY <1>1, <1>9, <2>1, <2>2 DEF TypeOK, RustAdds, RustFails, RustEnds, dartVars
<1>10. ASSUME NEW t \in tasks, RustCalls(t) PROVE TypeOK'
  <2>1. tasks' \subseteq [add : Adds, id : Nat, client : Clients,
                         step : {"adding", "added", "failed", "called"}]
    BY <1>1, <1>10, StepType DEF RustCalls
  <2>2. inbox' \in Seq(Messages)
    <3>1. t.add \in Adds /\ t.client \in Clients /\ t.id \in Nat /\ inbox \in Seq(Messages)
      BY <1>1 DEF TypeOK
    <3>2. inbox' = inbox \/ \E m \in Messages : inbox' = Append(inbox, m)
      BY <1>10, <3>1 DEF RustCalls, Messages
    <3>. QED
      BY <3>1, <3>2
  <2>. QED
    BY <1>1, <1>10, <2>1, <2>2 DEF TypeOK, RustCalls, dartVars
<1>11. ASSUME DartCallback PROVE TypeOK'
  <2>1. inbox' \in Seq(Messages) /\ Head(inbox) \in Messages
    BY <1>1, <1>11 DEF DartCallback, TypeOK
  <2>2. DOMAIN registry' \subseteq Nat /\ registry' \in [DOMAIN registry' -> Adds]
    BY <1>1, <1>11 DEF DartCallback, TypeOK
  <2>3. /\ result' \in [Adds -> Adds \cup {NoChain}]
        /\ call' \in [Adds -> {"idle", "waiting", "resolved", "done", "failed"}]
    <3>1. /\ registry \in [DOMAIN registry -> Adds]
          /\ result \in [Adds -> Adds \cup {NoChain}]
          /\ call \in [Adds -> {"idle", "waiting", "resolved", "done", "failed"}]
      BY <1>1 DEF TypeOK
    <3>2. Head(inbox).chain \in Adds \cup {NoChain}
      BY <2>1 DEF Messages
    <3>. QED
      BY <1>11, <3>1, <3>2 DEF DartCallback
  <2>. QED
    BY <1>1, <1>11, <2>1, <2>2, <2>3 DEF TypeOK, DartCallback
<1>12. ASSUME NEW a \in Adds, Resume(a) PROVE TypeOK'
  <2>1. call' \in [Adds -> {"idle", "waiting", "resolved", "done", "failed"}]
    BY <1>1, <1>12 DEF TypeOK, Resume
  <2>2. /\ chains \in [Clients -> Seq(Adds)] /\ changed \in [Clients -> BOOLEAN]
        /\ owner[a] \in Clients /\ result[a] \in Adds \cup {NoChain}
    BY <1>1 DEF TypeOK
  <2>3. /\ changed' \in [Clients -> BOOLEAN]
        /\ \/ chains' = chains
           \/ \E h \in Adds : chains' = [chains EXCEPT ![owner[a]] = Append(@, h)]
    BY <1>12, <2>2 DEF Resume
  <2>5. /\ chains' \in [Clients -> Seq(Adds)]
        /\ \A d \in Clients : Len(chains[d]) <= Len(chains'[d])
    <3>1. CASE chains' = chains
      BY <2>2, <3>1
    <3>2. ASSUME NEW h \in Adds, chains' = [chains EXCEPT ![owner[a]] = Append(@, h)]
          PROVE  /\ chains' \in [Clients -> Seq(Adds)]
                 /\ \A d \in Clients : Len(chains[d]) <= Len(chains'[d])
      <4>1. \A d \in Clients : chains[d] \in Seq(Adds) /\ Len(chains[d]) \in Nat
        BY <2>2
      <4>2. /\ Append(chains[owner[a]], h) \in Seq(Adds)
            /\ Len(Append(chains[owner[a]], h)) = Len(chains[owner[a]]) + 1
        BY <2>2, <4>1, AppendProperties
      <4>. QED
        BY <2>2, <3>2, <4>1, <4>2
    <3>. QED
      BY <2>3, <3>1, <3>2
  <2>4. \A d \in Clients : position[d] <= Len(chains'[d])
    BY <1>1, <2>2, <2>5, LenProperties DEF TypeOK
  <2>. QED
    BY <1>1, <1>12, <2>1, <2>3, <2>4, <2>5 DEF TypeOK, Resume, nativeVars
<1>13. CASE UNCHANGED vars
  BY <1>1, <1>13 DEF TypeOK, vars, dartVars, nativeVars
<1>. QED
  BY <1>2, <1>3, <1>4, <1>5, <1>6, <1>7, <1>8, <1>9, <1>10, <1>11, <1>12, <1>13 DEF Next

-----------------------------------------------------------------------------
(* The calls of addChain, their tasks and messages.                        *)

(* A step that concerns none of them disturbs none, as long as the chains  *)
(* that calls are about to list stay, and dispose passes no call by.       *)
LEMMA UndisturbedCalls ==
    ASSUME Inv,
           UNCHANGED <<registry, call, owner, result, nextCallbackId, tasks, inbox>>,
           \A a \in Adds : call[a] \in {"waiting", "resolved"} =>
               Waits(owner[a])' /\ (Kept(a, owner[a]) => Kept(a, owner[a])'),
           \A c \in Clients : client'[c] = "new" => client[c] = "new"
    PROVE  CallbackInv'
<1>1. RegistryInv'
  BY DEF Inv, CallbackInv, RegistryInv
<1>2. TasksInv'
  <2>1. ASSUME NEW t \in tasks, t.step = "added"
        PROVE  t.add \in Adds /\ Kept(t.add, t.client)'
    BY <2>1 DEF Inv, CallbackInv, TasksInv, TypeOK
  <2>. QED
    BY <2>1 DEF Inv, CallbackInv, TasksInv
<1>3. InboxInv'
  <2>1. ASSUME NEW i \in DOMAIN inbox, inbox[i].chain # NoChain
        PROVE  Kept(inbox[i].chain, inbox[i].client)'
    <3>1. /\ inbox[i].chain = registry[inbox[i].id]
          /\ registry[inbox[i].id] \in Adds
          /\ call[inbox[i].chain] = "waiting"
          /\ owner[inbox[i].chain] = inbox[i].client
          /\ Kept(inbox[i].chain, inbox[i].client)
      BY <2>1 DEF Inv, CallbackInv, InboxInv, TypeOK
    <3>. QED
      BY <3>1
  <2>. QED
    BY <2>1 DEF Inv, CallbackInv, InboxInv
<1>4. CallsInv'
  BY DEF Inv, CallbackInv, CallsInv, TypeOK
<1>. QED
  BY <1>1, <1>2, <1>3, <1>4 DEF CallbackInv

(* What is known of a task that has yet to call back.                      *)
LEMMA AwaitedCall ==
    ASSUME Inv, NEW t \in tasks, t.step # "called"
    PROVE  /\ t.add \in Adds /\ t.client \in Clients /\ t.id \in DOMAIN registry
           /\ registry[t.id] = t.add /\ call[t.add] = "waiting" /\ owner[t.add] = t.client
           /\ Waits(t.client) /\ client[t.client] # "new"
           /\ t.step = "added" => Kept(t.add, t.client)
BY DEF Inv, CallbackInv, TasksInv, CallsInv, TypeOK

(* And of a message on its way.                                            *)
LEMMA PostedCall ==
    ASSUME Inv, NEW i \in DOMAIN inbox
    PROVE  /\ inbox[i] \in Messages /\ inbox[i].id \in DOMAIN registry
           /\ registry[inbox[i].id] \in Adds
           /\ call[registry[inbox[i].id]] = "waiting"
           /\ owner[registry[inbox[i].id]] = inbox[i].client
           /\ inbox[i].chain \in {registry[inbox[i].id], NoChain}
           /\ inbox[i].chain # NoChain => Kept(inbox[i].chain, inbox[i].client)
BY DEF Inv, CallbackInv, InboxInv, TypeOK

LEMMA AddChainCalls ==
    ASSUME Inv, SingleClient, NEW c \in Clients, NEW a \in Adds, AddChain(a, c)
    PROVE  CallbackInv'
<1> DEFINE id == nextCallbackId[c]
           t == [add |-> a, id |-> id, client |-> c, step |-> "adding"]
<1>1. /\ id \in Nat \ {0} /\ id \notin DOMAIN registry
      /\ \A d \in Clients : nextCallbackId'[d] = id + 1 /\ nextCallbackId[d] = id
      /\ \A i \in DOMAIN registry : i \in Nat /\ i < id
  BY DEF Inv, CallbackInv, RegistryInv, TypeOK, AddChain, SingleClient
<1>2. /\ call[a] = "idle" /\ Initialized(c)
      /\ DOMAIN registry' = DOMAIN registry \cup {id}
      /\ registry'[id] = a /\ \A i \in DOMAIN registry : registry'[i] = registry[i]
      /\ owner' = [owner EXCEPT ![a] = c]
      /\ \/ call' = [call EXCEPT ![a] = "waiting"] /\ tasks' = tasks \cup {t}
         \/ call' = [call EXCEPT ![a] = "failed"] /\ tasks' = tasks
      /\ overlapped' = IF client[c] = "looping" THEN overlapped \cup {c} ELSE overlapped
      /\ UNCHANGED <<client, result, nativeChains, inbox>>
  BY <1>1 DEF AddChain, Register, Overlap
<1>3. call'[a] \in {"waiting", "failed"} /\ owner'[a] = c
      /\ \A b \in Adds : b # a => call'[b] = call[b] /\ owner'[b] = owner[b]
  BY <1>2 DEF Inv, TypeOK
<1>4. \A i \in DOMAIN registry : registry[i] \in Adds /\ registry[i] # a
  BY <1>2 DEF Inv, CallbackInv, RegistryInv, TypeOK
<1>5. RegistryInv'
  BY <1>1, <1>2, <1>3, <1>4 DEF Inv, CallbackInv, RegistryInv
<1>6. ASSUME NEW h, NEW d PROVE Kept(h, d)' <=> Kept(h, d)
  BY <1>2 DEF Kept, Initialized
<1>7. TasksInv'
  <2>1. ASSUME NEW u \in tasks, u.step # "called"
        PROVE  u.add # a /\ u.id # id /\ u.id \in DOMAIN registry /\ u.add \in Adds
    BY <1>1, <1>2, <2>1, AwaitedCall
  <2>. QED
    <3>1. ASSUME NEW u \in tasks, u.step # "called"
          PROVE  /\ u.id \in DOMAIN registry' /\ registry'[u.id] = u.add
                 /\ call'[u.add] = "waiting" /\ owner'[u.add] = u.client
                 /\ u.step = "added" => Kept(u.add, u.client)'
      BY <1>2, <1>3, <1>6, <2>1, <3>1, AwaitedCall
    <3>2. ASSUME t \in tasks'
          PROVE  /\ id \in DOMAIN registry' /\ registry'[id] = a
                 /\ t \in tasks \/ (call'[a] = "waiting" /\ owner'[a] = c)
      BY <1>2, <1>3, <3>2 DEF Inv, TypeOK
    <3>3. \A u, v \in tasks : u.step # "called" /\ v.step # "called" /\ u.id = v.id => u = v
      BY DEF Inv, CallbackInv, TasksInv
    <3>4. /\ tasks' = tasks \/ tasks' = tasks \cup {t}
          /\ t.step = "adding" /\ t.add = a /\ t.id = id /\ t.client = c
      BY <1>2
    <3>. HIDE DEF t
    <3>. QED
      BY <2>1, <3>1, <3>2, <3>3, <3>4 DEF TasksInv
<1>8. InboxInv'
  BY <1>1, <1>2, <1>3, <1>4, <1>6 DEF Inv, CallbackInv, InboxInv
<1>9. CallsInv'
  <2>1. c \in Clients /\ client[c] \in {"ready", "looping"}
    BY <1>2 DEF Initialized
  <2>. QED
    BY <1>2, <1>3, <1>6, <2>1 DEF Inv, CallbackInv, CallsInv, Waits, TypeOK
<1>. QED
  BY <1>5, <1>7, <1>8, <1>9 DEF CallbackInv

(* The task's step from "adding", and its end, once it has called back.    *)
LEMMA TaskCalls ==
    ASSUME Inv, NEW t \in tasks, RustAdds(t) \/ RustFails(t) \/ RustEnds(t)
    PROVE  CallbackInv'
<1>1. /\ UNCHANGED <<dartVars, nativeClients, inbox, overlapped>>
      /\ nativeChains \subseteq nativeChains'
  BY DEF RustAdds, RustFails, RustEnds
<1>2. \A h, d : Kept(h, d) => Kept(h, d)'
  BY <1>1 DEF Kept, Initialized, dartVars
<1>3. RegistryInv' /\ CallsInv'
  BY <1>1, <1>2 DEF Inv, CallbackInv, RegistryInv, CallsInv, Waits, dartVars
<1>4. ASSUME RustEnds(t) PROVE TasksInv' /\ InboxInv'
  <2>1. tasks' \subseteq tasks
    BY <1>4 DEF RustEnds
  <2>. QED
    BY <1>1, <1>2, <2>1 DEF Inv, CallbackInv, TasksInv, InboxInv, dartVars
<1>5. ASSUME NEW s \in {"added", "failed"}, t.step = "adding", Step(t, s),
             s = "added" => Kept(t.add, t.client)'
      PROVE  TasksInv' /\ InboxInv'
  <2> DEFINE u == [t EXCEPT !.step = s]
  <2>1. t \in [add : Adds, id : Nat, client : Clients,
              step : {"adding", "added", "failed", "called"}]
    BY DEF Inv, TypeOK
  <2>2. /\ u.id = t.id /\ u.add = t.add /\ u.client = t.client /\ u.step = s
        /\ tasks' = (tasks \ {t}) \cup {u}
    BY <1>5, <2>1 DEF Step
  <2>. HIDE DEF u
  <2>3. \A v, w \in tasks : v.step # "called" /\ w.step # "called" /\ w.id = v.id => w = v
    BY DEF Inv, CallbackInv, TasksInv
  <2>4. ASSUME NEW v \in tasks, v.step # "called"
        PROVE  /\ v.id \in DOMAIN registry' /\ registry'[v.id] = v.add
               /\ call'[v.add] = "waiting" /\ owner'[v.add] = v.client
               /\ v.step = "added" => Kept(v.add, v.client)'
    BY <1>1, <1>2, <2>4, AwaitedCall DEF dartVars
  <2>5. TasksInv'
    BY <1>5, <2>2, <2>3, <2>4 DEF TasksInv
  <2>6. ASSUME NEW i \in DOMAIN inbox, NEW w \in tasks', w.step # "called"
        PROVE  w.id # inbox[i].id
    BY <1>5, <2>2, <2>6 DEF Inv, CallbackInv, InboxInv
  <2>7. InboxInv'
    BY <1>1, <1>2, <2>6 DEF Inv, CallbackInv, InboxInv, dartVars
  <2>. QED
    BY <2>5, <2>7
<1>6. TasksInv' /\ InboxInv'
  <2>1. RustAdds(t) => Kept(t.add, t.client)'
    BY DEF RustAdds, Kept
  <2>. QED
    BY <1>4, <1>5, <2>1 DEF RustAdds, RustFails
<1>. QED
  BY <1>3, <1>6 DEF CallbackInv

(* The callback: the task is done, and its message on its way.             *)
LEMMA TaskCallsBack ==
    ASSUME Inv, NEW t \in tasks, RustCalls(t)
    PROVE  CallbackInv'
<1> DEFINE u == [t EXCEPT !.step = "called"]
<1>0. PICK m \in Messages :
          /\ m.id = t.id /\ m.client = t.client
          /\ m.chain = (IF t.step = "added" THEN t.add ELSE NoChain)
          /\ inbox' = inbox \/ inbox' = Append(inbox, m)
  <2> DEFINE n == [id |-> t.id, client |-> t.client,
                   chain |-> IF t.step = "added" THEN t.add ELSE NoChain]
  <2>1. n \in Messages /\ (inbox' = inbox \/ inbox' = Append(inbox, n))
    BY DEF RustCalls, Messages, Inv, TypeOK
  <2>. QED
    BY <2>1
<1>1. /\ UNCHANGED <<dartVars, nativeClients, nativeChains, overlapped>>
      /\ t.step \in {"added", "failed"}
      /\ tasks' = (tasks \ {t}) \cup {u}
      /\ inbox' = inbox \/ inbox' = Append(inbox, m)
  BY <1>0 DEF RustCalls, Step
<1>2. \A h, d : Kept(h, d) <=> Kept(h, d)'
  BY <1>1 DEF Kept, Initialized, dartVars
<1>3. RegistryInv' /\ CallsInv'
  BY <1>1, <1>2 DEF Inv, CallbackInv, RegistryInv, CallsInv, Waits, dartVars
<1>4. u.step = "called" /\ \A w \in tasks' : w.step # "called" => w \in tasks /\ w # t
  <2>1. t \in [add : Adds, id : Nat, client : Clients,
              step : {"adding", "added", "failed", "called"}]
    BY DEF Inv, TypeOK
  <2>. QED
    BY <1>1, <2>1
<1>. HIDE DEF u
<1>5. TasksInv'
  BY <1>1, <1>2, <1>4 DEF Inv, CallbackInv, TasksInv, dartVars
<1>6. InboxInv'
  <2>1. /\ t.step # "called" /\ t.add \in Adds /\ t.id \in DOMAIN registry
        /\ registry[t.id] = t.add /\ call[t.add] = "waiting" /\ owner[t.add] = t.client
        /\ t.step = "added" => Kept(t.add, t.client)
    BY <1>1, AwaitedCall
  <2>2. \A w \in tasks' : w.step # "called" => w.id # t.id
    BY <1>1, <1>4 DEF Inv, CallbackInv, TasksInv
  <2>3. \A i \in DOMAIN inbox : inbox[i].id # t.id
    BY <1>1 DEF Inv, CallbackInv, InboxInv
  <2>4. /\ m.id = t.id /\ m.client = t.client
        /\ m.chain \in {registry[t.id], NoChain}
        /\ m.chain # NoChain => Kept(m.chain, t.client)'
        /\ inbox \in Seq(Messages)
    BY <1>0, <1>2, <2>1 DEF Inv, TypeOK
  <2>5. \A i \in DOMAIN inbox : \A w \in tasks' : w.step # "called" => w.id # inbox[i].id
    BY <1>4 DEF Inv, CallbackInv, InboxInv
  <2>6. /\ UNCHANGED <<registry, call, owner>>
        /\ \A i \in DOMAIN inbox :
               /\ inbox[i].id \in DOMAIN registry'
               /\ inbox[i].chain \in {registry'[inbox[i].id], NoChain}
               /\ call'[registry'[inbox[i].id]] = "waiting"
               /\ owner'[registry'[inbox[i].id]] = inbox[i].client
               /\ inbox[i].chain # NoChain => Kept(inbox[i].chain, inbox[i].client)'
               /\ \A j \in DOMAIN inbox : inbox[j].id = inbox[i].id => j = i
    BY <1>1, <1>2 DEF Inv, CallbackInv, InboxInv, dartVars
  <2>7. CASE inbox' = inbox
    BY <2>5, <2>6, <2>7 DEF InboxInv
  <2>8. CASE inbox' = Append(inbox, m)
    <3>1. \A i \in DOMAIN inbox' :
              \/ i \in DOMAIN inbox /\ inbox'[i] = inbox[i]
              \/ i = Len(inbox) + 1 /\ inbox'[i] = m
      <4>1. /\ Len(inbox) \in Nat /\ DOMAIN inbox = 1..Len(inbox)
            /\ DOMAIN inbox' = 1..(Len(inbox) + 1)
            /\ \A i \in 1..Len(inbox) : inbox'[i] = inbox[i]
            /\ inbox'[Len(inbox) + 1] = m
        BY <2>4, <2>8, AppendProperties, LenProperties
      <4>. QED
        BY <4>1
    <3>2. ASSUME NEW i \in DOMAIN inbox'
          PROVE  /\ inbox'[i].id \in DOMAIN registry'
                 /\ inbox'[i].chain \in {registry'[inbox'[i].id], NoChain}
                 /\ call'[registry'[inbox'[i].id]] = "waiting"
                 /\ owner'[registry'[inbox'[i].id]] = inbox'[i].client
                 /\ inbox'[i].chain # NoChain => Kept(inbox[i].chain, inbox[i].client)'
                 /\ \A w \in tasks' : w.step # "called" => w.id # inbox'[i].id
      <4>1. CASE i \in DOMAIN inbox /\ inbox'[i] = inbox[i]
        BY <2>5, <2>6, <4>1
      <4>2. CASE inbox'[i] = m
        <5>1. registry' = registry /\ call' = call /\ owner' = owner
          BY <1>1 DEF dartVars
        <5>2. /\ inbox'[i].id = t.id /\ inbox'[i].client = t.client /\ inbox'[i].chain = m.chain
              /\ t.id \in DOMAIN registry'
          BY <2>1, <2>4, <4>2, <5>1
        <5>3. inbox'[i].chain # NoChain => Kept(inbox[i].chain, inbox[i].client)'
          BY <2>4, <5>2 DEF Kept, Initialized
        <5>. QED
          BY <2>1, <2>2, <2>4, <5>1, <5>2, <5>3 DEF Kept, Initialized
      <4>. QED
        BY <3>1, <4>1, <4>2
    <3>3. \A i, j \in DOMAIN inbox' : inbox'[j].id = inbox'[i].id => j = i
      BY <2>3, <2>4, <2>6, <3>1
    <3>. QED
      BY <3>2, <3>3 DEF InboxInv
  <2>. QED
    BY <1>1, <2>7, <2>8
<1>. QED
  BY <1>3, <1>5, <1>6 DEF CallbackInv

(* The isolate takes the first message: its call resolves, or its client   *)
(* is gone and the registration stays.                                     *)
LEMMA MessageResolves ==
    ASSUME Inv, DartCallback
    PROVE  CallbackInv'
<1>0. PICK m \in Messages, a \in Adds : m = Head(inbox) /\ a = registry[m.id]
  <2>1. /\ inbox \in Seq(Messages) /\ inbox # <<>> /\ 1 \in DOMAIN inbox /\ Head(inbox) = inbox[1]
    BY DEF DartCallback, Inv, TypeOK
  <2>. QED
    BY <2>1, PostedCall
<1>1. /\ inbox \in Seq(Messages) /\ inbox # <<>> /\ inbox' = Tail(inbox)
      /\ 1 \in DOMAIN inbox /\ m = inbox[1]
      /\ \A i \in DOMAIN inbox' : i + 1 \in DOMAIN inbox /\ inbox'[i] = inbox[i + 1] /\ i \in Nat \ {0}
  BY <1>0 DEF DartCallback, Inv, TypeOK
<1>2. /\ m.id \in DOMAIN registry /\ a \in Adds /\ call[a] = "waiting" /\ owner[a] = m.client
      /\ m.chain \in {a, NoChain}
      /\ m.chain # NoChain => Kept(m.chain, m.client)
  BY <1>0, <1>1, PostedCall
<1>3. /\ UNCHANGED <<client, nextCallbackId, owner, nativeChains, tasks, overlapped>>
      /\ \/ UNCHANGED <<registry, call, result>>
         \/ /\ registry' = [id \in DOMAIN registry \ {m.id} |-> registry[id]]
            /\ result' = [result EXCEPT ![a] = m.chain]
            /\ call' = [call EXCEPT ![a] = "resolved"]
  BY <1>0, <1>2 DEF DartCallback
<1>4. \A h, d : Kept(h, d) <=> Kept(h, d)'
  BY <1>3 DEF Kept, Initialized
<1>5. \A i \in DOMAIN inbox' :
          /\ inbox'[i].id \in DOMAIN registry /\ inbox'[i].id # m.id
          /\ inbox'[i].chain \in {registry[inbox'[i].id], NoChain}
          /\ registry[inbox'[i].id] \in Adds
          /\ call[registry[inbox'[i].id]] = "waiting"
          /\ owner[registry[inbox'[i].id]] = inbox'[i].client
          /\ inbox'[i].chain # NoChain => Kept(inbox[i].chain, inbox[i].client)'
          /\ \A j \in DOMAIN inbox' : inbox'[j].id = inbox'[i].id => j = i
          /\ \A t \in tasks : t.step # "called" => t.id # inbox'[i].id
  <2>1. \A i, j \in DOMAIN inbox : inbox[i].id = inbox[j].id => i = j
    BY DEF Inv, CallbackInv, InboxInv
  <2>2. \A i, j \in DOMAIN inbox' : inbox'[i].id # inbox[1].id /\ (inbox'[i].id = inbox'[j].id => i = j)
    <3>1. ASSUME NEW i \in DOMAIN inbox', NEW j \in DOMAIN inbox'
          PROVE  /\ i + 1 # 1 /\ (i + 1 = j + 1 => i = j)
                 /\ i + 1 \in DOMAIN inbox /\ j + 1 \in DOMAIN inbox /\ 1 \in DOMAIN inbox
                 /\ inbox'[i] = inbox[i + 1] /\ inbox'[j] = inbox[j + 1]
      BY <1>1
    <3>. QED
      BY <2>1, <3>1
  <2>3. \A i \in DOMAIN inbox : \A t \in tasks : t.step # "called" => t.id # inbox[i].id
    BY DEF Inv, CallbackInv, InboxInv
  <2>4. \A i \in DOMAIN inbox' : \E k \in DOMAIN inbox : inbox'[i] = inbox[k]
    BY <1>1
  <2>5. m = inbox[1]
    BY <1>1
  <2>6. ASSUME NEW i \in DOMAIN inbox'
        PROVE  /\ inbox'[i].id \in DOMAIN registry
               /\ inbox'[i].chain \in {registry[inbox'[i].id], NoChain}
               /\ registry[inbox'[i].id] \in Adds
               /\ call[registry[inbox'[i].id]] = "waiting"
               /\ owner[registry[inbox'[i].id]] = inbox'[i].client
               /\ inbox'[i].chain # NoChain => Kept(inbox[i].chain, inbox[i].client)'
    <3>1. PICK k \in DOMAIN inbox : inbox'[i] = inbox[k]
      BY <2>4
    <3>. QED
      BY <1>4, <3>1, PostedCall
  <2>. QED
    BY <2>2, <2>3, <2>4, <2>5, <2>6
<1>6. \A t \in tasks : t.step # "called" => t.id # m.id
  BY <1>1 DEF Inv, CallbackInv, InboxInv
<1>7. \A id \in DOMAIN registry : registry[id] = a => id = m.id
  BY <1>0, <1>2 DEF Inv, CallbackInv, RegistryInv
<1>9. call \in [Adds -> {"idle", "waiting", "resolved", "done", "failed"}]
      /\ result \in [Adds -> Adds \cup {NoChain}] /\ registry \in [DOMAIN registry -> Adds]
  BY DEF Inv, TypeOK
<1>10. CASE UNCHANGED <<registry, call, result>>
  <2>1. RegistryInv' /\ TasksInv' /\ CallsInv'
    BY <1>3, <1>4, <1>10 DEF Inv, CallbackInv, RegistryInv, TasksInv, CallsInv, Waits
  <2>2. InboxInv'
    <3>1. registry' = registry /\ call' = call /\ owner' = owner /\ tasks' = tasks
      BY <1>3, <1>10
    <3>. QED
      BY <1>5, <3>1 DEF InboxInv
  <2>. QED
    BY <2>1, <2>2 DEF CallbackInv
<1>11. CASE /\ registry' = [id \in DOMAIN registry \ {m.id} |-> registry[id]]
            /\ result' = [result EXCEPT ![a] = m.chain]
            /\ call' = [call EXCEPT ![a] = "resolved"]
  <2>1. /\ call'[a] = "resolved" /\ result'[a] = m.chain
        /\ \A b \in Adds : b # a => call'[b] = call[b] /\ result'[b] = result[b]
        /\ DOMAIN registry' = DOMAIN registry \ {m.id}
        /\ \A id \in DOMAIN registry' : registry'[id] = registry[id] /\ registry[id] # a
                                        /\ registry[id] \in Adds
    BY <1>2, <1>7, <1>9, <1>11
  <2>2. RegistryInv'
    BY <1>3, <2>1 DEF Inv, CallbackInv, RegistryInv
  <2>3. TasksInv'
    <3>1. ASSUME NEW t \in tasks, t.step # "called"
          PROVE  /\ t.id \in DOMAIN registry' /\ registry'[t.id] = t.add
                 /\ call'[t.add] = "waiting" /\ owner'[t.add] = t.client
                 /\ t.step = "added" => Kept(t.add, t.client)'
      BY <1>3, <1>4, <1>6, <2>1, <3>1, AwaitedCall
    <3>2. \A t, v \in tasks : t.step # "called" /\ v.step # "called" /\ v.id = t.id => v = t
      BY DEF Inv, CallbackInv, TasksInv
    <3>. QED
      BY <1>3, <3>1, <3>2 DEF TasksInv
  <2>4. InboxInv'
    <3>1. ASSUME NEW i \in DOMAIN inbox'
          PROVE  /\ inbox'[i].id \in DOMAIN registry'
                 /\ registry'[inbox'[i].id] = registry[inbox'[i].id]
                 /\ call'[registry'[inbox'[i].id]] = call[registry[inbox'[i].id]]
      BY <1>5, <2>1
    <3>2. owner' = owner /\ tasks' = tasks
      BY <1>3
    <3>. QED
      BY <1>5, <3>1, <3>2 DEF InboxInv
  <2>5. CallsInv'
    <3>1. \A b \in Adds : Waits(owner[b])' <=> Waits(owner[b])
      BY <1>3 DEF Waits
    <3>2. CallsInv
      BY DEF Inv, CallbackInv
    <3>3. ASSUME NEW b \in Adds, b # a
          PROVE  /\ call'[b] # "idle" => client'[owner'[b]] # "new"
                 /\ call'[b] \in {"waiting", "resolved"} => Waits(owner[b])'
                 /\ call'[b] = "resolved" => result'[b] \in {b, NoChain}
                 /\ call'[b] = "resolved" /\ result'[b] # NoChain => Kept(b, owner[b])'
                 /\ call'[b] = "done" => result'[b] = b
      BY <1>3, <1>4, <2>1, <3>1, <3>2, <3>3 DEF CallsInv
    <3>4. /\ client'[owner'[a]] # "new" /\ Waits(owner[a])'
          /\ result'[a] \in {a, NoChain} /\ (result'[a] # NoChain => Kept(a, owner[a])')
      <4>1. /\ client[owner[a]] # "new" /\ Waits(owner[a]) /\ m.client = owner[a]
            /\ m.chain \in {a, NoChain} /\ (m.chain # NoChain => Kept(a, owner[a]))
        BY <1>2, <3>2 DEF CallsInv, Kept, Initialized
      <4>2. result'[a] # NoChain => Kept(a, owner[a])'
        BY <1>3, <2>1, <4>1 DEF Kept, Initialized
      <4>. QED
        BY <1>3, <2>1, <3>1, <4>1, <4>2
    <3>5. owner' = owner /\ call'[a] = "resolved"
      BY <1>3, <2>1
    <3>. QED
      BY <3>3, <3>4, <3>5 DEF CallsInv
  <2>. QED
    BY <2>2, <2>3, <2>4, <2>5 DEF CallbackInv
<1>. QED
  BY <1>3, <1>10, <1>11

(* addChain goes on after its await.                                       *)
LEMMA ResumeCalls ==
    ASSUME Inv, NEW a \in Adds, Resume(a)
    PROVE  CallbackInv'
<1>1. /\ call[a] = "resolved" /\ result[a] \in {a, NoChain}
      /\ client[owner[a]] # "new"
      /\ call \in [Adds -> {"idle", "waiting", "resolved", "done", "failed"}]
  BY DEF Inv, CallbackInv, CallsInv, Resume, TypeOK
<1>2. /\ call'[a] \in {"done", "failed"} /\ (call'[a] = "done" => result[a] = a)
      /\ \A b \in Adds : b # a => call'[b] = call[b]
      /\ UNCHANGED <<registry, nextCallbackId, client, owner, result, tasks, inbox, overlapped,
                     nativeChains>>
  BY <1>1 DEF Resume, nativeVars
<1>3. \A h, d : Kept(h, d)' <=> Kept(h, d)
  BY <1>2 DEF Kept, Initialized
<1>4. \A id \in DOMAIN registry : registry[id] \in Adds /\ registry[id] # a
  BY <1>1 DEF Inv, CallbackInv, RegistryInv, TypeOK
<1>5. RegistryInv'
  BY <1>2, <1>4 DEF Inv, CallbackInv, RegistryInv
<1>6. TasksInv'
  <2>1. ASSUME NEW t \in tasks, t.step # "called" PROVE call'[t.add] = "waiting"
    BY <1>1, <1>2, <2>1, AwaitedCall
  <2>2. /\ tasks' = tasks /\ registry' = registry /\ owner' = owner
    BY <1>2
  <2>. QED
    BY <1>3, <2>1, <2>2 DEF Inv, CallbackInv, TasksInv
<1>7. InboxInv'
  BY <1>2, <1>3, <1>4 DEF Inv, CallbackInv, InboxInv
<1>8. CallsInv'
  BY <1>1, <1>2, <1>3 DEF Inv, CallbackInv, CallsInv, Waits
<1>. QED
  BY <1>5, <1>6, <1>7, <1>8 DEF CallbackInv

LEMMA LoopEffect ==
    ASSUME TypeOK, NEW c \in Clients, NEW i \in Nat, Loop(c, i)
    PROVE  /\ client'[c] \in {"looping", "ending"}
           /\ \A d \in Clients : d # c => client'[d] = client[d]
           /\ client'[c] = "looping" => nativeChains' = nativeChains
           /\ client'[c] = "ending" => nativeChains' = {e \in nativeChains : e.client # c}
BY DEF TypeOK, Loop, KeptByDestroy

(* What the client does besides addChain takes no chain from a call that   *)
(* is about to list it, and dispose passes no call by.                     *)
LEMMA ClientCalls ==
    ASSUME Inv, NEW c \in Clients,
           \/ Initialize(c)
           \/ \E h \in Adds : RemoveChain(c, h) \/ FinishRemove(c, h)
           \/ Dispose(c) \/ DisposeNext(c) \/ DisposeThrows(c) \/ DisposeEnds(c)
    PROVE  CallbackInv'
<1>1. UNCHANGED <<registry, call, owner, result, tasks, inbox>>
  BY DEF Initialize, RemoveChain, FinishRemove, Dispose, DisposeNext, DisposeThrows,
     DisposeEnds, nativeVars
<1>2. UNCHANGED nextCallbackId
  BY DEF Initialize, RemoveChain, FinishRemove, Dispose, DisposeNext, DisposeThrows, DisposeEnds
<1>3. /\ TypeOK /\ owner \in [Adds -> Clients]
      /\ client \in [Clients -> {"new", "ready", "looping", "ending", "gone"}]
  BY DEF Inv, TypeOK
<1>4. \A a \in Adds : call[a] \in {"waiting", "resolved"} =>
          owner[a] \in Clients /\ client[owner[a]] # "new" /\ Waits(owner[a])
  BY <1>3 DEF Inv, CallbackInv, CallsInv
<1>5. SUFFICES /\ \A a \in Adds : call[a] \in {"waiting", "resolved"} =>
                      Waits(owner[a])' /\ (Kept(a, owner[a]) => Kept(a, owner[a])')
               /\ \A d \in Clients : client'[d] = "new" => client[d] = "new"
  BY <1>1, <1>2, UndisturbedCalls
<1>6. CASE Initialize(c)
  <2>1. /\ client[c] = "new" /\ client' = [client EXCEPT ![c] = "ready"]
        /\ UNCHANGED <<nativeChains, overlapped, owner>>
    BY <1>6 DEF Initialize
  <2>. QED
    BY <1>3, <1>4, <2>1 DEF Waits, Kept, Initialized
<1>7. ASSUME NEW h \in Adds, RemoveChain(c, h)
      PROVE  /\ \A a \in Adds : call[a] \in {"waiting", "resolved"} =>
                    Waits(owner[a])' /\ (Kept(a, owner[a]) => Kept(a, owner[a])')
             /\ \A d \in Clients : client'[d] = "new" => client[d] = "new"
  <2>1. call[h] = "done"
    BY <1>7 DEF RemoveChain, Inv, ClientInv, ChainsInv
  <2>2. /\ UNCHANGED <<client, owner>> /\ overlapped \subseteq overlapped'
        /\ \E e \in nativeChains : e.chain = h /\ nativeChains' = nativeChains \ {e}
    BY <1>7 DEF RemoveChain, Overlap
  <2>. QED
    BY <1>4, <2>1, <2>2 DEF Waits, Kept, Initialized
<1>8. ASSUME NEW h \in Adds, FinishRemove(c, h)
      PROVE  /\ \A a \in Adds : call[a] \in {"waiting", "resolved"} =>
                    Waits(owner[a])' /\ (Kept(a, owner[a]) => Kept(a, owner[a])')
             /\ \A d \in Clients : client'[d] = "new" => client[d] = "new"
  <2>1. UNCHANGED <<client, owner, overlapped, nativeChains>>
    BY <1>8 DEF FinishRemove, nativeVars
  <2>. QED
    BY <1>4, <2>1 DEF Waits, Kept, Initialized
<1>9. CASE Dispose(c) \/ DisposeNext(c)
  <2>1. PICK i \in Nat : Loop(c, i)
    <3>1. position[c] + 1 \in Nat
      BY <1>3 DEF TypeOK
    <3>. QED
      BY <1>9, <3>1 DEF Dispose, DisposeNext
  <2>2. /\ client'[c] \in {"looping", "ending"}
        /\ \A d \in Clients : d # c => client'[d] = client[d]
        /\ client'[c] = "looping" => nativeChains' = nativeChains
        /\ client'[c] = "ending" => nativeChains' = {e \in nativeChains : e.client # c}
    BY <1>3, <2>1, LoopEffect
  <2>3. ASSUME NEW a \in Adds, call[a] \in {"waiting", "resolved"}
        PROVE  owner[a] = c => c \in overlapped'
    BY <1>4, <1>9, <2>3 DEF Dispose, DisposeNext, Overlap, Idle, Waits
  <2>4. overlapped \subseteq overlapped' /\ client[c] # "new" /\ client[c] \in {"ready", "looping"}
    BY <1>9 DEF Dispose, DisposeNext, Overlap
  <2>. QED
    BY <1>1, <1>4, <2>2, <2>3, <2>4 DEF Waits, Kept, Initialized
<1>10. CASE DisposeThrows(c)
  <2>1. /\ client[c] = "looping" /\ client' = [client EXCEPT ![c] = "ready"]
        /\ UNCHANGED <<nativeChains, overlapped, owner>>
    BY <1>10 DEF DisposeThrows, nativeVars
  <2>. QED
    BY <1>3, <1>4, <2>1 DEF Waits, Kept, Initialized
<1>11. CASE DisposeEnds(c)
  <2>1. /\ client[c] = "ending" /\ client' = [client EXCEPT ![c] = "gone"]
        /\ UNCHANGED <<nativeChains, overlapped, owner>>
    BY <1>11 DEF DisposeEnds, nativeVars
  <2>. QED
    BY <1>3, <1>4, <2>1 DEF Waits, Kept, Initialized
<1>. QED
  BY <1>6, <1>7, <1>8, <1>9, <1>10, <1>11

(* Every step.                                                             *)
LEMMA CallbackStep == ASSUME Inv, SingleClient, [Next]_vars PROVE CallbackInv'
<1>1. ASSUME NEW c \in Clients, NEW a \in Adds, AddChain(a, c) PROVE CallbackInv'
  BY <1>1, AddChainCalls
<1>2. ASSUME NEW c \in Clients,
             \/ Initialize(c)
             \/ \E h \in Adds : RemoveChain(c, h) \/ FinishRemove(c, h)
             \/ Dispose(c) \/ DisposeNext(c) \/ DisposeThrows(c) \/ DisposeEnds(c)
      PROVE CallbackInv'
  BY <1>2, ClientCalls
<1>3. ASSUME NEW t \in tasks, RustAdds(t) \/ RustFails(t) \/ RustCalls(t) \/ RustEnds(t)
      PROVE  CallbackInv'
  BY <1>3, TaskCalls, TaskCallsBack
<1>4. CASE DartCallback
  BY <1>4, MessageResolves
<1>5. ASSUME NEW a \in Adds, Resume(a) PROVE CallbackInv'
  BY <1>5, ResumeCalls
<1>6. CASE UNCHANGED vars
  <2>1. UNCHANGED <<registry, call, owner, result, nextCallbackId, tasks, inbox, client,
                    overlapped, nativeChains>>
    BY <1>6 DEF vars, dartVars, nativeVars
  <2>2. \A a \in Adds : call[a] \in {"waiting", "resolved"} =>
            Waits(owner[a])' /\ (Kept(a, owner[a]) => Kept(a, owner[a])')
    BY <2>1 DEF Waits, Kept, Initialized, Inv, CallbackInv, CallsInv
  <2>. QED
    BY <2>1, <2>2, UndisturbedCalls
<1>. QED
  BY <1>1, <1>2, <1>3, <1>4, <1>5, <1>6 DEF Next

-----------------------------------------------------------------------------
(* The chains, on both sides.                                              *)

LEMMA HandlesAreAdds == ASSUME TypeOK PROVE \A c \in Clients : Handles(c) \subseteq Adds
<1>1. chains \in [Clients -> Seq(Adds)]
  BY DEF TypeOK
<1>. QED
  BY <1>1 DEF Handles

LEMMA InitializeChains ==
    ASSUME Inv, NEW c \in Clients, Initialize(c)
    PROVE  ClientInv'
<1>1. /\ client[c] = "new" /\ client' = [client EXCEPT ![c] = "ready"]
      /\ nativeClients' = nativeClients \cup {c}
      /\ UNCHANGED <<chains, changed, disposed, removing, threw, call, nativeChains, faults,
                     overlapped>>
      /\ client \in [Clients -> {"new", "ready", "looping", "ending", "gone"}]
  BY DEF Initialize, Inv, TypeOK
<1>2. ChainsInv'
  BY <1>1 DEF Inv, ClientInv, ChainsInv, Handles, Initialized, Waits
<1>3. Served' /\ NothingLeft' /\ CallbacksOpen' /\ DisposeCompletes'
  BY <1>1 DEF Inv, ClientInv, Served, NothingLeft, CallbacksOpen, DisposeCompletes, Handles
<1>. QED
  BY <1>2, <1>3 DEF ClientInv

(* addChain and its callback touch no call that has listed its chain.      *)
LEMMA CallingChains ==
    ASSUME Inv,
           (\E c \in Clients, a \in Adds : AddChain(a, c)) \/ DartCallback
    PROVE  ClientInv'
<1>1. /\ UNCHANGED <<client, nativeClients, chains, changed, disposed, removing, threw,
                     nativeChains, faults>>
      /\ overlapped \subseteq overlapped'
  BY DEF AddChain, DartCallback, Overlap
<1>2. \A h \in Adds : call[h] = "done" => call'[h] = "done"
  <2>1. call \in [Adds -> {"idle", "waiting", "resolved", "done", "failed"}]
    BY DEF Inv, TypeOK
  <2>2. CASE \E c \in Clients, a \in Adds : AddChain(a, c)
    BY <2>1, <2>2 DEF AddChain
  <2>3. CASE DartCallback
    BY <2>1, <2>3 DEF DartCallback
  <2>. QED
    BY <2>2, <2>3
<1>3. \A c \in Clients : Handles(c) \subseteq Adds
  BY HandlesAreAdds DEF Inv
<1>4. ChainsInv'
  BY <1>1, <1>2, <1>3 DEF Inv, ClientInv, ChainsInv, Handles, Initialized, Waits
<1>5. Served' /\ NothingLeft' /\ CallbacksOpen' /\ DisposeCompletes'
  BY <1>1 DEF Inv, ClientInv, Served, NothingLeft, CallbacksOpen, DisposeCompletes, Handles
<1>. QED
  BY <1>4, <1>5 DEF ClientInv

(* A task's client is there, or was disposed of while the task ran.        *)
LEMMA TaskChains ==
    ASSUME Inv, NEW t \in tasks,
           RustAdds(t) \/ RustFails(t) \/ RustCalls(t) \/ RustEnds(t)
    PROVE  ClientInv'
<1>1. /\ UNCHANGED <<client, nativeClients, chains, changed, disposed, removing, threw, call,
                     overlapped>>
      /\ nativeChains \subseteq nativeChains'
  BY DEF RustAdds, RustFails, RustCalls, RustEnds, dartVars
<1>2. ChainsInv'
  BY <1>1 DEF Inv, ClientInv, ChainsInv, Handles, Initialized, Waits
<1>3. Served' /\ DisposeCompletes'
  BY <1>1 DEF Inv, ClientInv, Served, DisposeCompletes, Handles
<1>4. t.step # "called" => t.client \in Clients /\ Waits(t.client)
  BY AwaitedCall
<1>5. NothingLeft'
  <2>1. \A e \in nativeChains' :
            e \in nativeChains \/ (e.client = t.client /\ t.step = "adding")
    <3>1. CASE RustAdds(t)
      BY <3>1 DEF RustAdds
    <3>2. CASE ~RustAdds(t)
      BY <3>2 DEF RustFails, RustCalls, RustEnds
    <3>. QED
      BY <3>1, <3>2
  <2>2. t.step = "adding" => t.client \in nativeClients \cup overlapped
    BY <1>4 DEF Waits, Inv, ClientInv, ChainsInv, Initialized
  <2>. QED
    BY <1>1, <2>1, <2>2 DEF Inv, ClientInv, NothingLeft
<1>6. CallbacksOpen'
  <2>1. \/ faults' = faults
        \/ /\ faults' = faults \cup {<<"closed callable called", t.client>>}
           /\ client[t.client] = "gone" /\ t.step # "called"
        \/ faults' = faults \cup {<<"runtime dropped by its own thread", t.client>>}
    BY DEF RustAdds, RustFails, RustCalls, RustEnds
  <2>2. ASSUME NEW c \in Clients, <<"closed callable called", c>> \in faults'
        PROVE  \/ <<"closed callable called", c>> \in faults
               \/ c = t.client /\ client[t.client] = "gone" /\ t.step # "called"
    <3>1. "closed callable called" # "runtime dropped by its own thread"
      OBVIOUS
    <3>2. <<"closed callable called", c>> # <<"runtime dropped by its own thread", t.client>>
      BY <3>1
    <3>. QED
      <4>1. faults' = faults \cup {<<"closed callable called", t.client>>}
            => <<"closed callable called", c>> \in faults \/ c = t.client
        <5>1. \A x, y, z : <<x, y>> = <<x, z>> => y = z
          OBVIOUS
        <5>2. ASSUME NEW s, NEW x, x \in faults', faults' = faults \cup {s}
              PROVE  x \in faults \/ x = s
          BY <5>2
        <5>. QED
          BY <2>2, <5>1, <5>2
      <4>. QED
        BY <2>1, <2>2, <3>2, <4>1
  <2>. QED
    BY <1>1, <1>4, <2>2 DEF Inv, ClientInv, CallbacksOpen, Waits
<1>. QED
  BY <1>2, <1>3, <1>5, <1>6 DEF ClientInv

(* What is listed is the call's own chain, and the library has it.         *)
LEMMA ResumeChains ==
    ASSUME Inv, NEW a \in Adds, Resume(a)
    PROVE  ClientInv'
<1>1. PICK c \in Clients : c = owner[a]
  BY DEF Inv, TypeOK
<1>2. /\ call[a] = "resolved" /\ result[a] \in {a, NoChain} /\ Waits(c)
      /\ result[a] # NoChain => Kept(a, c)
      /\ call \in [Adds -> {"idle", "waiting", "resolved", "done", "failed"}]
      /\ chains \in [Clients -> Seq(Adds)] /\ changed \in [Clients -> BOOLEAN]
  BY <1>1 DEF Inv, CallbackInv, CallsInv, Resume, TypeOK, Kept, Initialized
<1>3. \A d \in Clients : a \notin Handles(d)
  BY <1>2 DEF Inv, ClientInv, ChainsInv
<1>4. /\ UNCHANGED <<client, nativeClients, disposed, removing, threw, nativeChains, faults,
                     overlapped>>
      /\ \A b \in Adds : b # a => call'[b] = call[b]
  BY <1>2 DEF Resume, nativeVars
<1>5. \/ UNCHANGED <<chains, changed>>
      \/ /\ chains' = [chains EXCEPT ![c] = Append(chains[c], a)]
         /\ changed' = [changed EXCEPT ![c] = changed[c] \/ client[c] = "looping"]
         /\ call'[a] = "done" /\ result[a] = a /\ Initialized(c)
  <2>1. CASE result[a] # NoChain /\ Initialized(c)
    <3>1. result[a] = a /\ call' = [call EXCEPT ![a] = "done"]
      BY <1>1, <1>2, <2>1 DEF Resume
    <3>2. chains' = [chains EXCEPT ![c] = Append(chains[c], a)]
      <4>1. a \notin Handles(c)
        BY <1>3
      <4>2. chains' = [chains EXCEPT ![c] = IF a \in Handles(c) THEN @ ELSE Append(@, a)]
        BY <1>1, <2>1, <3>1 DEF Resume
      <4>. QED
        BY <4>1, <4>2
    <3>3. changed' = [changed EXCEPT ![c] = changed[c] \/ client[c] = "looping"]
      BY <1>1, <1>2, <1>3, <2>1, <3>1 DEF Resume
    <3>. QED
      BY <1>2, <2>1, <3>1, <3>2, <3>3
  <2>2. CASE ~(result[a] # NoChain /\ Initialized(c))
    BY <1>1, <2>2 DEF Resume
  <2>. QED
    BY <2>1, <2>2
<1>6. NothingLeft' /\ CallbacksOpen' /\ DisposeCompletes'
  BY <1>4 DEF Inv, ClientInv, NothingLeft, CallbacksOpen, DisposeCompletes
<1>7. CASE UNCHANGED <<chains, changed>>
  <2>1. ChainsInv'
    <3>1. \A d \in Clients : Handles(d)' = Handles(d) /\ Handles(d) \subseteq Adds \ {a}
      BY <1>3, <1>7, HandlesAreAdds DEF Handles, Inv
    <3>2. \A d \in Clients : \A h \in Handles(d)' : call'[h] = "done"
      BY <1>4, <3>1 DEF Inv, ClientInv, ChainsInv
    <3>. QED
      BY <1>4, <1>7, <3>2 DEF Inv, ClientInv, ChainsInv, Initialized, Waits
  <2>2. Served'
    BY <1>4, <1>7 DEF Inv, ClientInv, Served, Handles
  <2>. QED
    BY <1>6, <2>1, <2>2 DEF ClientInv
<1>8. CASE /\ chains' = [chains EXCEPT ![c] = Append(chains[c], a)]
           /\ changed' = [changed EXCEPT ![c] = changed[c] \/ client[c] = "looping"]
           /\ call'[a] = "done" /\ result[a] = a /\ Initialized(c)
  <2>1. /\ chains'[c] = Append(chains[c], a) /\ chains[c] \in Seq(Adds)
        /\ \A d \in Clients : d # c => chains'[d] = chains[d]
    BY <1>2, <1>8
  <2>2. /\ Len(chains[c]) \in Nat /\ DOMAIN chains[c] = 1..Len(chains[c])
        /\ DOMAIN chains'[c] = 1..(Len(chains[c]) + 1)
        /\ \A i \in 1..Len(chains[c]) : chains'[c][i] = chains[c][i] /\ chains[c][i] # a
        /\ chains'[c][Len(chains[c]) + 1] = a
    <3>1. /\ Len(chains[c]) \in Nat /\ DOMAIN chains[c] = 1..Len(chains[c])
          /\ \A i \in 1..Len(chains[c]) : chains[c][i] # a
      BY <1>3, <2>1 DEF Handles
    <3>. QED
      BY <2>1, <3>1, AppendProperties
  <2>3. /\ \A d \in Clients : d # c => Handles(d)' = Handles(d)
        /\ Handles(c)' = Handles(c) \cup {a}
    BY <2>1, <2>2 DEF Handles
  <2>4. \A d \in Clients : \A i, j \in DOMAIN chains'[d] :
            chains'[d][i] = chains'[d][j] => i = j
    <3>1. \A d \in Clients : \A i, j \in DOMAIN chains[d] :
              chains[d][i] = chains[d][j] => i = j
      BY DEF Inv, ClientInv, ChainsInv
    <3>2. \A i, j \in DOMAIN chains'[c] : chains'[c][i] = chains'[c][j] => i = j
      BY <2>2, <3>1
    <3>. QED
      BY <2>1, <3>1, <3>2
  <2>5. \A d \in Clients : changed'[d] => client[d] = "looping" /\ d \in overlapped
    BY <1>2, <1>8 DEF Inv, ClientInv, ChainsInv, Waits
  <2>6. ChainsInv'
    <3>1. nativeClients' = {d \in Clients : Initialized(d)}'
      BY <1>4 DEF Inv, ClientInv, ChainsInv, Initialized
    <3>2. \A d \in Clients : \A h \in Handles(d)' : call'[h] = "done"
      <4>1. \A d \in Clients : Handles(d) \subseteq Adds
        BY <1>2 DEF Handles
      <4>. QED
        BY <1>3, <1>4, <1>8, <2>3, <4>1 DEF Inv, ClientInv, ChainsInv
    <3>3. \A d \in Clients : chains'[d] # <<>> => Initialized(d)'
      <4>1. \A d \in Clients : Initialized(d)' <=> Initialized(d)
        BY <1>4 DEF Initialized
      <4>. QED
        BY <1>8, <2>1, <4>1 DEF Inv, ClientInv, ChainsInv
    <3>4. \A d \in Clients : \A h \in Adds : <<d, h>> \in removing' => Waits(d)'
      BY <1>4 DEF Inv, ClientInv, ChainsInv, Waits
    <3>. QED
      BY <1>4, <2>4, <2>5, <3>1, <3>2, <3>3, <3>4 DEF ChainsInv
  <2>7. Served'
    <3>1. [chain |-> a, client |-> c] \in nativeChains
      BY <1>2, <1>8, NoChainAssumption DEF Kept
    <3>. QED
      BY <1>4, <2>3, <3>1 DEF Inv, ClientInv, Served
  <2>. QED
    BY <1>6, <2>6, <2>7 DEF ClientInv
<1>. QED
  BY <1>5, <1>7, <1>8

(* The chain taken from the library is one its client has disposed of.     *)
LEMMA RemoveChainChains ==
    ASSUME Inv, SingleClient, NEW c \in Clients, NEW h \in Adds, RemoveChain(c, h)
    PROVE  ClientInv'
<1>1. PICK e \in nativeChains : e.chain = h /\ nativeChains' = nativeChains \ {e}
                                /\ IF e.client \in nativeClients
                                   THEN /\ disposed' = disposed \cup {<<c, h>>}
                                        /\ removing' = removing \cup {<<c, h>>}
                                   ELSE UNCHANGED <<disposed, removing>>
  BY DEF RemoveChain
<1>2. /\ Initialized(c)
      /\ UNCHANGED <<client, nativeClients, chains, changed, threw, call, faults>>
      /\ overlapped' = IF client[c] = "looping" THEN overlapped \cup {c} ELSE overlapped
  BY DEF RemoveChain, Overlap
<1>3. disposed' = disposed \cup {<<c, h>>} /\ removing' = removing \cup {<<c, h>>}
  BY <1>1, <1>2 DEF Inv, TypeOK, ClientInv, ChainsInv, SingleClient
<1>4. ChainsInv'
  <2>1. Waits(c)' /\ \A d \in Clients : Waits(d) => Waits(d)'
    BY <1>2 DEF Waits, Initialized
  <2>2. \A d \in Clients : \A k \in Adds : <<d, k>> \in removing' => Waits(d)'
    BY <1>3, <2>1 DEF Inv, ClientInv, ChainsInv
  <2>3. \A d \in Clients : Handles(d)' = Handles(d) /\ (Initialized(d)' <=> Initialized(d))
    BY <1>2 DEF Handles, Initialized
  <2>4. overlapped \subseteq overlapped'
    BY <1>2
  <2>. QED
    BY <1>2, <2>2, <2>3, <2>4 DEF Inv, ClientInv, ChainsInv, Initialized
<1>5. Served'
  <2>1. ASSUME NEW d \in Clients, NEW k \in Handles(d), <<d, k>> \notin disposed'
        PROVE  [chain |-> k, client |-> d] \in nativeChains'
    <3>1. d = c /\ k # h /\ [chain |-> k, client |-> d] \in nativeChains
      BY <1>3, <2>1 DEF SingleClient, Inv, ClientInv, Served
    <3>. QED
      BY <1>1, <3>1
  <2>. QED
    BY <1>2, <2>1 DEF Served, Handles
<1>6. NothingLeft' /\ CallbacksOpen' /\ DisposeCompletes'
  BY <1>1, <1>2 DEF Inv, ClientInv, NothingLeft, CallbacksOpen, DisposeCompletes
<1>. QED
  BY <1>4, <1>5, <1>6 DEF ClientInv

LEMMA FinishRemoveChains ==
    ASSUME Inv, NEW c \in Clients, NEW h \in Adds, FinishRemove(c, h)
    PROVE  ClientInv'
<1>1. /\ UNCHANGED <<client, nativeClients, disposed, threw, call, nativeChains, faults,
                     overlapped>>
      /\ removing' \subseteq removing /\ Waits(c)
      /\ changed' = [changed EXCEPT ![c] = changed[c] \/ client[c] = "looping"]
      /\ changed \in [Clients -> BOOLEAN] /\ chains \in [Clients -> Seq(Adds)]
  BY DEF FinishRemove, nativeVars, Inv, TypeOK, ClientInv, ChainsInv
<1>2. \A d \in Clients : \A i, j \in DOMAIN chains[d] : chains[d][i] = chains[d][j] => i = j
  BY DEF Inv, ClientInv, ChainsInv
<1>3. /\ \A d \in Clients : Handles(d)' \subseteq Handles(d)
      /\ \A d \in Clients : \A i, j \in DOMAIN chains'[d] :
             chains'[d][i] = chains'[d][j] => i = j
      /\ \A d \in Clients : chains'[d] # <<>> => chains[d] # <<>>
  <2>1. CASE chains' = chains
    BY <1>2, <2>1 DEF Handles
  <2>2. CASE h \in Handles(c)
    <3>1. chains[c] \in Seq(Adds) /\ \E i \in DOMAIN chains[c] : chains[c][i] = h
      BY <1>1, <2>2 DEF Handles
    <3>2. /\ chains'[c] = Without(chains[c], h)
          /\ \A d \in Clients : d # c => chains'[d] = chains[d]
      BY <1>1, <2>2 DEF FinishRemove
    <3>3. /\ \A i \in DOMAIN chains'[c] : \E j \in DOMAIN chains[c] : chains'[c][i] = chains[c][j]
          /\ \A i, j \in DOMAIN chains'[c] : chains'[c][i] = chains'[c][j] => i = j
      BY <1>2, <3>1, <3>2, WithoutKey
    <3>4. chains[c] # <<>>
      BY <3>1
    <3>. QED
      BY <1>2, <3>2, <3>3, <3>4 DEF Handles
  <2>. QED
    BY <2>1, <2>2 DEF FinishRemove
<1>4. \A d \in Clients : changed'[d] => client[d] = "looping" /\ d \in overlapped
  BY <1>1 DEF Inv, ClientInv, ChainsInv, Waits
<1>5. ChainsInv'
  <2>1. \A d \in Clients : (Initialized(d)' <=> Initialized(d)) /\ (Waits(d)' <=> Waits(d))
    BY <1>1 DEF Initialized, Waits
  <2>2. nativeClients' = {d \in Clients : Initialized(d)}'
    BY <1>1 DEF Inv, ClientInv, ChainsInv, Initialized
  <2>3. \A d \in Clients : \A k \in Handles(d)' : call'[k] = "done"
    BY <1>1, <1>3 DEF Inv, ClientInv, ChainsInv
  <2>4. \A d \in Clients : chains'[d] # <<>> => Initialized(d)'
    BY <1>3, <2>1 DEF Inv, ClientInv, ChainsInv
  <2>5. \A d \in Clients : \A k \in Adds : <<d, k>> \in removing' => Waits(d)'
    BY <1>1, <2>1 DEF Inv, ClientInv, ChainsInv
  <2>. QED
    BY <1>1, <1>3, <1>4, <2>2, <2>3, <2>4, <2>5 DEF ChainsInv
<1>6. Served' /\ NothingLeft' /\ CallbacksOpen' /\ DisposeCompletes'
  BY <1>1, <1>3 DEF Inv, ClientInv, Served, NothingLeft, CallbacksOpen, DisposeCompletes
<1>. QED
  BY <1>5, <1>6 DEF ClientInv

(* The loop of dispose, and smoldot_client_destroy after it.               *)
LEMMA LoopChains ==
    ASSUME Inv, NEW c \in Clients, Dispose(c) \/ DisposeNext(c)
    PROVE  ClientInv'
<1>1. /\ client[c] \in {"ready", "looping"} /\ ~changed[c]
      /\ \A h \in Adds : <<c, h>> \in removing => c \in overlapped'
      /\ overlapped \subseteq overlapped'
      /\ UNCHANGED <<removing, threw, call, faults>>
      /\ client \in [Clients -> {"new", "ready", "looping", "ending", "gone"}]
      /\ chains \in [Clients -> Seq(Adds)]
  BY DEF Dispose, DisposeNext, Overlap, Idle, Inv, TypeOK, ClientInv, ChainsInv, Waits
<1>2. PICK i \in Nat : Loop(c, i)
  <2>1. position[c] + 1 \in Nat
    BY DEF Inv, TypeOK
  <2>. QED
    BY <2>1 DEF Dispose, DisposeNext
<1>3. changed' = changed /\ CallbacksOpen' /\ DisposeCompletes'
  BY <1>1, <1>2 DEF Loop, Inv, ClientInv, CallbacksOpen, DisposeCompletes
<1>4. \A d \in Clients : \A h \in Adds : <<d, h>> \in removing /\ d # c => Waits(d)
  BY DEF Inv, ClientInv, ChainsInv
<1>5. CASE i <= Len(chains[c])
  <2>1. /\ client' = [client EXCEPT ![c] = "looping"] /\ disposed \subseteq disposed'
        /\ UNCHANGED <<chains, nativeClients, nativeChains>>
    BY <1>2, <1>5 DEF Loop
  <2>2. \A d \in Clients : (Initialized(d)' <=> Initialized(d)) /\ Handles(d)' = Handles(d)
    BY <1>1, <2>1 DEF Initialized, Handles
  <2>3. \A d \in Clients : \A h \in Adds : <<d, h>> \in removing' => Waits(d)'
    BY <1>1, <1>4, <2>1 DEF Waits
  <2>4. \A d \in Clients : changed'[d] => client'[d] = "looping" /\ d \in overlapped'
    BY <1>1, <1>3, <2>1 DEF Inv, ClientInv, ChainsInv
  <2>5. nativeClients' = {d \in Clients : Initialized(d)}'
    BY <1>1, <2>1 DEF Inv, ClientInv, ChainsInv, Initialized
  <2>6. ChainsInv'
    BY <1>1, <2>1, <2>2, <2>3, <2>4, <2>5 DEF Inv, ClientInv, ChainsInv
  <2>7. Served' /\ NothingLeft'
    BY <1>1, <2>1, <2>2 DEF Inv, ClientInv, Served, NothingLeft
  <2>. QED
    BY <1>3, <2>6, <2>7 DEF ClientInv
<1>6. CASE ~(i <= Len(chains[c]))
  <2>1. /\ client' = [client EXCEPT ![c] = "ending"] /\ disposed' = disposed
        /\ chains' = [chains EXCEPT ![c] = <<>>]
        /\ nativeChains' = {e \in nativeChains : e.client # c}
        /\ nativeClients' = nativeClients \ {c}
    BY <1>2, <1>6 DEF Loop, KeptByDestroy
  <2>2. /\ Handles(c)' = {} /\ chains'[c] = <<>>
        /\ \A d \in Clients : d # c => /\ Handles(d)' = Handles(d) /\ chains'[d] = chains[d]
                                       /\ (Initialized(d)' <=> Initialized(d))
    BY <1>1, <2>1 DEF Initialized, Handles
  <2>3. \A d \in Clients : \A h \in Adds : <<d, h>> \in removing' => Waits(d)'
    BY <1>1, <1>4, <2>1 DEF Waits
  <2>4. \A d \in Clients : changed'[d] => client'[d] = "looping" /\ d \in overlapped'
    BY <1>1, <1>3, <2>1 DEF Inv, ClientInv, ChainsInv
  <2>5. nativeClients' = {d \in Clients : Initialized(d)}'
    BY <1>1, <2>1 DEF Inv, ClientInv, ChainsInv, Initialized
  <2>6. ChainsInv'
    <3>1. \A d \in Clients : /\ \A h \in Handles(d)' : call'[h] = "done"
                             /\ \A k, j \in DOMAIN chains'[d] :
                                    chains'[d][k] = chains'[d][j] => k = j
                             /\ chains'[d] # <<>> => Initialized(d)'
      BY <1>1, <2>2 DEF Inv, ClientInv, ChainsInv
    <3>. QED
      BY <2>3, <2>4, <2>5, <3>1 DEF ChainsInv
  <2>7. Served'
    BY <2>1, <2>2 DEF Inv, ClientInv, Served
  <2>8. NothingLeft'
    BY <1>1, <2>1 DEF Inv, ClientInv, NothingLeft
  <2>. QED
    BY <1>3, <2>6, <2>7, <2>8 DEF ClientInv
<1>. QED
  BY <1>5, <1>6

LEMMA DisposedChains ==
    ASSUME Inv, NEW c \in Clients, DisposeThrows(c) \/ DisposeEnds(c)
    PROVE  ClientInv'
<1>1. /\ client \in [Clients -> {"new", "ready", "looping", "ending", "gone"}]
      /\ changed \in [Clients -> BOOLEAN]
      /\ UNCHANGED <<chains, disposed, removing, call, nativeClients, nativeChains, faults,
                     overlapped>>
  BY DEF Inv, TypeOK, DisposeThrows, DisposeEnds, nativeVars
<1>2. /\ \A d \in Clients : d # c => client'[d] = client[d] /\ changed'[d] = changed[d]
      /\ Initialized(c)' <=> Initialized(c)
      /\ ~changed'[c]
      /\ Waits(c) => Waits(c)'
      /\ threw' \subseteq threw \cup overlapped
  BY <1>1 DEF DisposeThrows, DisposeEnds, Inv, ClientInv, ChainsInv, Initialized, Waits
<1>3. ChainsInv'
  <2>1. \A d \in Clients : /\ Handles(d)' = Handles(d) /\ (Initialized(d)' <=> Initialized(d))
                           /\ Waits(d) => Waits(d)'
    BY <1>1, <1>2 DEF Handles, Initialized, Waits
  <2>2. nativeClients' = {d \in Clients : Initialized(d)}'
    BY <1>1, <1>2 DEF Inv, ClientInv, ChainsInv, Initialized
  <2>. QED
    BY <1>1, <1>2, <2>1, <2>2 DEF Inv, ClientInv, ChainsInv
<1>4. Served' /\ NothingLeft' /\ CallbacksOpen' /\ DisposeCompletes'
  BY <1>1, <1>2 DEF Inv, ClientInv, Served, NothingLeft, CallbacksOpen, DisposeCompletes, Handles
<1>. QED
  BY <1>3, <1>4 DEF ClientInv

(* Every step.                                                             *)
LEMMA ClientStep == ASSUME Inv, SingleClient, [Next]_vars PROVE ClientInv'
<1>1. ASSUME NEW c \in Clients, NEW a \in Adds, AddChain(a, c) PROVE ClientInv'
  BY <1>1, CallingChains
<1>2. ASSUME NEW c \in Clients, NEW h \in Adds, RemoveChain(c, h) \/ FinishRemove(c, h)
      PROVE  ClientInv'
  BY <1>2, RemoveChainChains, FinishRemoveChains
<1>3. ASSUME NEW c \in Clients, Initialize(c) PROVE ClientInv'
  BY <1>3, InitializeChains
<1>4. ASSUME NEW c \in Clients,
             Dispose(c) \/ DisposeNext(c) \/ DisposeThrows(c) \/ DisposeEnds(c)
      PROVE  ClientInv'
  BY <1>4, LoopChains, DisposedChains
<1>5. ASSUME NEW t \in tasks, RustAdds(t) \/ RustFails(t) \/ RustCalls(t) \/ RustEnds(t)
      PROVE  ClientInv'
  BY <1>5, TaskChains
<1>6. CASE DartCallback
  BY <1>6, CallingChains
<1>7. ASSUME NEW a \in Adds, Resume(a) PROVE ClientInv'
  BY <1>7, ResumeChains
<1>8. CASE UNCHANGED vars
  <2>1. ChainsInv'
    BY <1>8 DEF vars, dartVars, nativeVars, Inv, ClientInv, ChainsInv, Handles, Initialized,
       Waits
  <2>2. Served' /\ NothingLeft' /\ CallbacksOpen' /\ DisposeCompletes'
    BY <1>8 DEF vars, dartVars, nativeVars, Inv, ClientInv, Served, NothingLeft,
       CallbacksOpen, DisposeCompletes, Handles
  <2>. QED
    BY <2>1, <2>2 DEF ClientInv
<1>. QED
  BY <1>1, <1>2, <1>3, <1>4, <1>5, <1>6, <1>7, <1>8 DEF Next

-----------------------------------------------------------------------------
(* The inductive invariant: the registry, the tasks of the library, the    *)
(* messages to the isolate and the calls that wait describe the same calls *)
(* of addChain, and so do both sides' chains.                              *)
THEOREM InvAlways == ASSUME SingleClient PROVE Spec => []Inv
<1>1. Inv /\ [Next]_vars => Inv'
  <2>1. Inv => TypeOK /\ KeysOnce
    BY DEF Inv, ClientInv, ChainsInv, KeysOnce
  <2>. QED
    BY <2>1, TypeStep, CallbackStep, ClientStep DEF Inv
<1>. QED
  BY <1>1, InitInv, PTL DEF Spec

(* A chain that the client lists and that is not disposed of has its       *)
(* handle in the library, kept for this client: addChain, removeChain and  *)
(* smoldot_client_destroy leave none without.                              *)
THEOREM ServedAlways == ASSUME SingleClient PROVE Spec => []Served
<1>1. Inv => Served
  BY DEF Inv, ClientInv
<1>. QED
  BY <1>1, InvAlways, PTL

(* addChain returns the chain it asked for: _globalCallbackRegistry hands  *)
(* each callback to the call that was given its id.                        *)
THEOREM OwnChainAlways == ASSUME SingleClient PROVE Spec => []OwnChain
<1>1. Inv => OwnChain
  BY DEF Inv, CallbackInv, CallsInv, OwnChain
<1>. QED
  BY <1>1, InvAlways, PTL

(* After dispose the library keeps no chain of the client, unless a call   *)
(* was under way when it began or in its loop.                             *)
THEOREM NothingLeftAlways == ASSUME SingleClient PROVE Spec => []NothingLeft
<1>1. Inv => NothingLeft
  BY DEF Inv, ClientInv
<1>. QED
  BY <1>1, InvAlways, PTL

(* Nor does a task of smoldot_add_chain call the closed NativeCallable.    *)
THEOREM CallbacksOpenAlways == ASSUME SingleClient PROVE Spec => []CallbacksOpen
<1>1. Inv => CallbacksOpen
  BY DEF Inv, ClientInv
<1>. QED
  BY <1>1, InvAlways, PTL

-----------------------------------------------------------------------------
(* Any number of clients.  They share the registry of callbacks, but each  *)
(* has its own map and its own dispose.                                    *)

(* A call that waits, and a map that changes, under dispose are counted as *)
(* overlapping with it.                                                    *)
OverlapInv ==
    /\ \A a \in Adds : call[a] \in {"waiting", "resolved"} => Waits(owner[a])
    /\ \A c \in Clients, h \in Adds : <<c, h>> \in removing => Waits(c)
    /\ \A c \in Clients : changed[c] => client[c] = "looping" /\ c \in overlapped

DisposeInv == TypeOK /\ KeysOnce /\ OverlapInv /\ DisposeCompletes

LEMMA DisposeInit == Init => DisposeInv
<1>1. Init => TypeOK
  BY InitInv DEF Inv
<1>2. Init => KeysOnce /\ OverlapInv /\ DisposeCompletes
  BY DEF Init, KeysOnce, OverlapInv, DisposeCompletes
<1>. QED
  BY <1>1, <1>2 DEF DisposeInv

LEMMA KeysOnceStep == ASSUME TypeOK, KeysOnce, [Next]_vars PROVE KeysOnce'
<1>1. /\ chains \in [Clients -> Seq(Adds)] /\ owner \in [Adds -> Clients]
      /\ result \in [Adds -> Adds \cup {NoChain}]
  BY DEF TypeOK
<1>2. CASE UNCHANGED chains
  BY <1>2 DEF KeysOnce
<1>3. ASSUME NEW c \in Clients, NEW keys, chains' = [chains EXCEPT ![c] = keys],
             \A i, j \in DOMAIN keys : keys[i] = keys[j] => i = j
      PROVE  KeysOnce'
  <2>1. chains'[c] = keys /\ \A d \in Clients : d # c => chains'[d] = chains[d]
    BY <1>1, <1>3
  <2>. QED
    BY <1>3, <2>1 DEF KeysOnce
<1>4. ASSUME NEW c \in Clients, NEW h \in Adds, FinishRemove(c, h) PROVE KeysOnce'
  <2>1. CASE h \notin Handles(c)
    BY <1>2, <1>4, <2>1 DEF FinishRemove
  <2>2. CASE h \in Handles(c)
    <3>1. chains[c] \in Seq(Adds) /\ \E i \in DOMAIN chains[c] : chains[c][i] = h
      BY <1>1, <2>2 DEF Handles
    <3>2. \A i, j \in DOMAIN chains[c] : chains[c][i] = chains[c][j] => i = j
      BY DEF KeysOnce
    <3>3. \A i, j \in DOMAIN Without(chains[c], h) :
              Without(chains[c], h)[i] = Without(chains[c], h)[j] => i = j
      BY <3>1, <3>2, WithoutKey
    <3>4. chains' = [chains EXCEPT ![c] = Without(chains[c], h)]
      BY <1>4, <2>2 DEF FinishRemove
    <3>. QED
      BY <1>3, <3>3, <3>4
  <2>. QED
    BY <2>1, <2>2
<1>5. ASSUME NEW a \in Adds, Resume(a) PROVE KeysOnce'
  <2> DEFINE c == owner[a]
             h == result[a]
  <2>1. CASE chains' = chains
    BY <1>2, <2>1
  <2>2. CASE chains' # chains
    <3>1. /\ c \in Clients /\ h \in Adds /\ h \notin Handles(c)
          /\ chains' = [chains EXCEPT ![c] = Append(chains[c], h)]
      BY <1>1, <1>5, <2>2 DEF Resume
    <3>2. chains[c] \in Seq(Adds)
      BY <1>1, <3>1
    <3>3. \A i \in DOMAIN chains[c] : chains[c][i] # h
      BY <3>1 DEF Handles
    <3>4. \A i, j \in DOMAIN chains[c] : chains[c][i] = chains[c][j] => i = j
      BY <3>1 DEF KeysOnce
    <3> HIDE DEF c, h
    <3>5. \A i, j \in DOMAIN Append(chains[c], h) :
              Append(chains[c], h)[i] = Append(chains[c], h)[j] => i = j
      BY <3>1, <3>2, <3>3, <3>4
    <3>. QED
      BY <1>3, <3>1, <3>5
  <2>. QED
    BY <2>1, <2>2
<1>6. ASSUME NEW c \in Clients, Dispose(c) \/ DisposeNext(c) PROVE KeysOnce'
  <2>1. chains' = chains \/ chains' = [chains EXCEPT ![c] = <<>>]
    BY <1>6 DEF Dispose, DisposeNext, Loop
  <2>2. \A i, j \in DOMAIN <<>> : <<>>[i] = <<>>[j] => i = j
    OBVIOUS
  <2>. QED
    BY <1>2, <1>3, <2>1, <2>2
<1>7. ASSUME NEW c \in Clients, Initialize(c) \/ DisposeThrows(c) \/ DisposeEnds(c) PROVE KeysOnce'
  BY <1>2, <1>7 DEF Initialize, DisposeThrows, DisposeEnds
<1>8. ASSUME NEW c \in Clients, NEW a \in Adds, AddChain(a, c) \/ RemoveChain(c, a) PROVE KeysOnce'
  BY <1>2, <1>8 DEF AddChain, RemoveChain
<1>9. ASSUME NEW t \in tasks, RustAdds(t) \/ RustFails(t) \/ RustCalls(t) \/ RustEnds(t)
      PROVE  KeysOnce'
  BY <1>2, <1>9 DEF RustAdds, RustFails, RustCalls, RustEnds, dartVars
<1>10. CASE DartCallback
  BY <1>2, <1>10 DEF DartCallback
<1>11. CASE UNCHANGED vars
  BY <1>2, <1>11 DEF vars, dartVars
<1>. QED
  BY <1>4, <1>5, <1>6, <1>7, <1>8, <1>9, <1>10, <1>11 DEF Next

(* Each step changes little of what OverlapInv is about.                   *)
LEMMA OverlapStep ==
    ASSUME TypeOK, OverlapInv, DisposeCompletes, [Next]_vars
    PROVE  OverlapInv' /\ DisposeCompletes'
<1>1. /\ client \in [Clients -> {"new", "ready", "looping", "ending", "gone"}]
      /\ changed \in [Clients -> BOOLEAN] /\ owner \in [Adds -> Clients]
      /\ call \in [Adds -> {"idle", "waiting", "resolved", "done", "failed"}]
  BY DEF TypeOK
<1>2. ASSUME UNCHANGED <<call, owner, removing, changed, client, overlapped, threw>>
      PROVE  OverlapInv' /\ DisposeCompletes'
  BY <1>2 DEF OverlapInv, DisposeCompletes, Waits
<1>3. ASSUME NEW c \in Clients, Initialize(c) PROVE OverlapInv' /\ DisposeCompletes'
  BY <1>1, <1>3 DEF Initialize, OverlapInv, DisposeCompletes, Waits
<1>4. ASSUME NEW c \in Clients, NEW a \in Adds, AddChain(a, c)
      PROVE  OverlapInv' /\ DisposeCompletes'
  <2>1. /\ \A b \in Adds : b # a => call'[b] = call[b] /\ owner'[b] = owner[b]
        /\ owner'[a] = c /\ Initialized(c)
        /\ overlapped' = IF client[c] = "looping" THEN overlapped \cup {c} ELSE overlapped
        /\ UNCHANGED <<client, removing, changed, threw>>
    BY <1>1, <1>4 DEF AddChain, Overlap
  <2>2. Waits(c)' /\ \A d \in Clients : Waits(d) => Waits(d)'
    BY <2>1 DEF Waits, Initialized
  <2>3. \A b \in Adds : owner[b] \in Clients
    BY <1>1
  <2>. QED
    BY <2>1, <2>2, <2>3 DEF OverlapInv, DisposeCompletes
<1>5. ASSUME NEW c \in Clients, NEW h \in Adds, RemoveChain(c, h)
      PROVE  OverlapInv' /\ DisposeCompletes'
  <2>1. /\ removing' \subseteq removing \cup {<<c, h>>} /\ Initialized(c)
        /\ overlapped' = IF client[c] = "looping" THEN overlapped \cup {c} ELSE overlapped
        /\ UNCHANGED <<client, call, owner, changed, threw>>
    BY <1>5 DEF RemoveChain, Overlap
  <2>2. Waits(c)' /\ \A d \in Clients : Waits(d) => Waits(d)'
    BY <2>1 DEF Waits, Initialized
  <2>3. \A b \in Adds : owner[b] \in Clients
    BY <1>1
  <2>. QED
    BY <2>1, <2>2, <2>3 DEF OverlapInv, DisposeCompletes
<1>6. ASSUME NEW c \in Clients, NEW h \in Adds, FinishRemove(c, h)
      PROVE  OverlapInv' /\ DisposeCompletes'
  <2>1. /\ <<c, h>> \in removing /\ removing' \subseteq removing
        /\ changed' = [changed EXCEPT ![c] = changed[c] \/ client[c] = "looping"]
        /\ UNCHANGED <<client, call, owner, threw, overlapped>>
    BY <1>6 DEF FinishRemove
  <2>2. Waits(c)
    BY <2>1 DEF OverlapInv
  <2>. QED
    BY <1>1, <2>1, <2>2 DEF OverlapInv, DisposeCompletes, Waits
<1>7. ASSUME NEW a \in Adds, Resume(a) PROVE OverlapInv' /\ DisposeCompletes'
  <2> DEFINE c == owner[a]
  <2>1. /\ call[a] = "resolved" /\ c \in Clients
        /\ call'[a] \in {"done", "failed"} /\ \A b \in Adds : b # a => call'[b] = call[b]
        /\ UNCHANGED <<client, owner, removing, threw, overlapped>>
    BY <1>1, <1>7 DEF Resume
  <2>2. Waits(c)
    BY <2>1 DEF OverlapInv
  <2>3. \A d \in Clients : changed'[d] => changed[d] \/ (d = c /\ client[c] = "looping")
    BY <1>1, <1>7 DEF Resume
  <2>. QED
    BY <2>1, <2>2, <2>3 DEF OverlapInv, DisposeCompletes, Waits
<1>8. CASE DartCallback
  <2>1. \A a \in Adds : call'[a] \in {"waiting", "resolved"} => call[a] \in {"waiting", "resolved"}
    BY <1>1, <1>8 DEF DartCallback
  <2>2. UNCHANGED <<client, owner, removing, changed, threw, overlapped>>
    BY <1>8 DEF DartCallback
  <2>. QED
    BY <2>1, <2>2 DEF OverlapInv, DisposeCompletes, Waits
<1>9. ASSUME NEW c \in Clients, Dispose(c) \/ DisposeNext(c)
      PROVE  OverlapInv' /\ DisposeCompletes'
  <2>1. PICK i \in Nat : Loop(c, i)
    <3>1. position[c] + 1 \in Nat
      BY DEF TypeOK
    <3>. QED
      BY <1>9, <3>1 DEF Dispose, DisposeNext
  <2>2. \A d \in Clients : d # c => client'[d] = client[d]
    BY <2>1, LoopEffect
  <2>3. /\ UNCHANGED <<call, owner, removing, threw>> /\ overlapped \subseteq overlapped'
        /\ changed' = changed /\ ~changed[c]
    BY <1>9, <2>1 DEF Dispose, DisposeNext, Overlap, Loop, OverlapInv
  <2>4. /\ \A a \in Adds : owner[a] = c /\ call[a] \in {"waiting", "resolved"} => c \in overlapped'
        /\ \A h \in Adds : <<c, h>> \in removing => c \in overlapped'
    <3>1. CASE Dispose(c)
      BY <3>1 DEF Dispose, Overlap, Idle
    <3>2. CASE DisposeNext(c)
      BY <3>2 DEF DisposeNext, OverlapInv, Waits
    <3>. QED
      BY <1>9, <3>1, <3>2
  <2>5. \A a \in Adds : owner[a] \in Clients
    BY <1>1
  <2>. QED
    BY <2>2, <2>3, <2>4, <2>5 DEF OverlapInv, DisposeCompletes, Waits
<1>10. ASSUME NEW c \in Clients, DisposeThrows(c) \/ DisposeEnds(c)
       PROVE  OverlapInv' /\ DisposeCompletes'
  <2>1. /\ \A d \in Clients : d # c => client'[d] = client[d] /\ changed'[d] = changed[d]
        /\ ~changed'[c]
        /\ (client'[c] = "ready" \/ client[c] = "ending")
        /\ UNCHANGED <<call, owner, removing, overlapped>>
        /\ threw' \subseteq threw \cup overlapped
    <3>1. CASE DisposeThrows(c)
      BY <1>1, <3>1 DEF DisposeThrows, OverlapInv, nativeVars
    <3>2. CASE DisposeEnds(c)
      BY <1>1, <3>2 DEF DisposeEnds, OverlapInv, nativeVars
    <3>. QED
      BY <1>10, <3>1, <3>2
  <2>2. \A d \in Clients : Waits(d) => Waits(d)'
    BY <2>1 DEF Waits
  <2>3. \A a \in Adds : owner[a] \in Clients
    BY <1>1
  <2>. QED
    BY <2>1, <2>2, <2>3 DEF OverlapInv, DisposeCompletes
<1>11. ASSUME NEW t \in tasks, RustAdds(t) \/ RustFails(t) \/ RustCalls(t) \/ RustEnds(t)
       PROVE  OverlapInv' /\ DisposeCompletes'
  BY <1>2, <1>11 DEF RustAdds, RustFails, RustCalls, RustEnds, dartVars
<1>12. CASE UNCHANGED vars
  BY <1>2, <1>12 DEF vars, dartVars
<1>. QED
  BY <1>3, <1>4, <1>5, <1>6, <1>7, <1>8, <1>9, <1>10, <1>11, <1>12 DEF Next

(* dispose's loop finds its map changed only if a call was under way,      *)
(* however many clients there are.                                         *)
THEOREM DisposeCompletesAlways == Spec => []DisposeCompletes
<1>1. DisposeInv /\ [Next]_vars => DisposeInv'
  BY TypeStep, KeysOnceStep, OverlapStep DEF DisposeInv
<1>2. DisposeInv => DisposeCompletes
  BY DEF DisposeInv
<1>. QED
  BY <1>1, <1>2, DisposeInit, PTL DEF Spec
=============================================================================
