-------------------------- MODULE SmoldotPumpProofs --------------------------
(***************************************************************************)
(* Proofs about SmoldotPump, for any numbers of chains, pulls and          *)
(* responses.                                                              *)
(***************************************************************************)
EXTENDS SmoldotPump, SequenceTheorems, TLAPS

-----------------------------------------------------------------------------
LEMMA InitInv == Init => Inv
<1> SUFFICES ASSUME Init PROVE Inv
  OBVIOUS
<1>1. \A S : <<>> \in Seq(S) /\ DOMAIN <<>> = {}
  OBVIOUS
<1>2. PICK c \in Chains : c = (CHOOSE d \in Chains : TRUE)
  BY ChainsAssumption
<1>3. TypeOK
  <2>1. /\ value \in [Pulls -> [chain : Chains, number : 0..MaxResponses]]
        /\ of \in [Pulls -> Chains]
    BY <1>2, ResponsesAssumption DEF Init, NoResponse
  <2>2. /\ nextCallbackId \in Nat
        /\ DOMAIN registry \subseteq Nat /\ registry \in [DOMAIN registry -> Pulls]
        /\ queue \in [Chains -> Seq(Pulls)] /\ inbox \in Seq(Messages)
    BY <1>1 DEF Init
  <2>3. /\ pull \in [Pulls -> {"idle", "waiting", "received", "failed"}]
        /\ task \in [Pulls -> Steps]
        /\ id \in [Pulls -> Nat] /\ earlier \in [Pulls -> SUBSET (1..MaxResponses)]
    BY DEF Init, Steps
  <2>4. /\ carried \in [Pulls -> 0..MaxResponses]
        /\ taken \in [Chains -> Nat] /\ produced \in [Chains -> 0..MaxResponses]
        /\ \A d \in Chains : taken[d] <= produced[d]
        /\ disposed = removed /\ removed \subseteq Chains
    BY ResponsesAssumption DEF Init
  <2>. QED
    BY <2>1, <2>2, <2>3, <2>4 DEF TypeOK
<1>4. RegistryInv /\ LockInv /\ TasksInv /\ InboxInv /\ EndedInv /\ WaitingIsServed
  BY <1>1 DEF Init, RegistryInv, LockInv, TasksInv, InboxInv, EndedInv, WaitingIsServed
<1>. QED
  BY <1>3, <1>4 DEF Inv

(* Who holds a stream's lock is at the head of its queue, which releasing  *)
(* it leaves to the others.                                                *)
LEMMA Holding ==
    ASSUME Inv, NEW p \in Pulls, Holds(p)
    PROVE  /\ of[p] \in Chains /\ queue[of[p]] \in Seq(Pulls) /\ queue[of[p]] # <<>>
           /\ task[p] = "queued" /\ p = queue[of[p]][1]
           /\ Tail(queue[of[p]]) \in Seq(Pulls)
           /\ \A i \in DOMAIN Tail(queue[of[p]]) :
                  i + 1 \in DOMAIN queue[of[p]] /\ Tail(queue[of[p]])[i] = queue[of[p]][i + 1]
           /\ \A i \in DOMAIN queue[of[p]] : i # 1 => i - 1 \in DOMAIN Tail(queue[of[p]])
<1>1. of[p] \in Chains /\ queue[of[p]] \in Seq(Pulls)
  BY DEF Inv, TypeOK
<1>2. queue[of[p]] # <<>>
  BY DEF Inv, LockInv, Holds
<1>. QED
  BY <1>1, <1>2 DEF Holds

-----------------------------------------------------------------------------
(* Type correctness.                                                       *)

LEMMA TypeStep == ASSUME Inv, [Next]_vars PROVE TypeOK'
<1>1. TypeOK
  BY DEF Inv
<1>2. ASSUME NEW p \in Pulls, NEW c \in Chains, Pull(p, c) PROVE TypeOK'
  <2>1. /\ nextCallbackId' \in Nat /\ id' \in [Pulls -> Nat]
        /\ pull' \in [Pulls -> {"idle", "waiting", "received", "failed"}]
        /\ of' \in [Pulls -> Chains]
    BY <1>1, <1>2 DEF TypeOK, Pull, FreshId
  <2>2. DOMAIN registry' \subseteq Nat /\ registry' \in [DOMAIN registry' -> Pulls]
    BY <1>1, <1>2 DEF TypeOK, Pull, FreshId
  <2>3. task' \in [Pulls -> Steps]
    BY <1>1, <1>2 DEF TypeOK, Pull, Steps
  <2>4. Received(c) \subseteq 1..MaxResponses
    <3>1. \A q \in Pulls : pull[q] = "received" =>
              value[q].number = carried[q] /\ carried[q] # 0 /\ carried[q] \in 0..MaxResponses
      BY <1>1 DEF Inv, TasksInv, TypeOK
    <3>2. \A q \in Pulls : pull[q] = "received" => value[q].number \in 1..MaxResponses
      BY <3>1, ResponsesAssumption
    <3>. QED
      BY <3>2 DEF Received
  <2>5. earlier' \in [Pulls -> SUBSET (1..MaxResponses)]
    BY <1>1, <1>2, <2>4 DEF TypeOK, Pull
  <2>. QED
    BY <1>1, <1>2, <2>1, <2>2, <2>3, <2>5 DEF TypeOK, Pull
<1>3. ASSUME NEW p \in Pulls, RustLocks(p) PROVE TypeOK'
  <2>1. task' \in [Pulls -> Steps]
    BY <1>1, <1>3 DEF TypeOK, RustLocks, Steps
  <2>2. queue' \in [Chains -> Seq(Pulls)]
    BY <1>1, <1>3 DEF TypeOK, RustLocks
  <2>. QED
    BY <1>1, <1>3, <2>1, <2>2 DEF TypeOK, RustLocks, dartVars
<1>4. ASSUME NEW p \in Pulls, RustTakes(p) PROVE TypeOK'
  <2>1. Holds(p)
    BY <1>4 DEF RustTakes
  <2>2. task' \in [Pulls -> Steps]
    BY <1>1, <1>4 DEF TypeOK, RustTakes, Steps
  <2>3. queue' \in [Chains -> Seq(Pulls)]
    BY <1>1, <1>4, <2>1, Holding DEF TypeOK, RustTakes, Release
  <2>4. /\ taken' \in [Chains -> Nat] /\ carried' \in [Pulls -> 0..MaxResponses]
        /\ \A c \in Chains : taken'[c] <= produced[c]
    <3>1. /\ of[p] \in Chains /\ taken \in [Chains -> Nat]
          /\ carried \in [Pulls -> 0..MaxResponses]
          /\ \A c \in Chains : taken[c] <= produced[c] /\ produced[c] \in 0..MaxResponses
      BY <1>1 DEF TypeOK
    <3>2. /\ taken[of[p]] < produced[of[p]]
          /\ taken' = [taken EXCEPT ![of[p]] = taken[of[p]] + 1]
          /\ carried' = [carried EXCEPT ![p] = taken'[of[p]]]
      BY <1>4 DEF RustTakes
    <3>3. taken[of[p]] \in Nat /\ taken'[of[p]] = taken[of[p]] + 1
      BY <3>1, <3>2
    <3>4. taken'[of[p]] \in 0..MaxResponses /\ taken'[of[p]] <= produced[of[p]]
      BY <3>1, <3>2, <3>3, ResponsesAssumption
    <3>. QED
      BY <3>1, <3>2, <3>3, <3>4
  <2>. QED
    BY <1>1, <1>4, <2>2, <2>3, <2>4 DEF TypeOK, RustTakes, dartVars
<1>5. ASSUME NEW p \in Pulls, RustEnds(p) PROVE TypeOK'
  <2>1. Holds(p)
    BY <1>5 DEF RustEnds
  <2>2. task' \in [Pulls -> Steps]
    BY <1>1, <1>5 DEF TypeOK, RustEnds, Steps
  <2>3. queue' \in [Chains -> Seq(Pulls)]
    BY <1>1, <1>5, <2>1, Holding DEF TypeOK, RustEnds, Release
  <2>. QED
    BY <1>1, <1>5, <2>2, <2>3 DEF TypeOK, RustEnds, dartVars
<1>6. ASSUME NEW p \in Pulls, RustCalls(p) PROVE TypeOK'
  <2>1. task' \in [Pulls -> Steps]
    BY <1>1, <1>6 DEF TypeOK, RustCalls, Steps
  <2>2. inbox' \in Seq(Messages)
    <3> DEFINE m == [id |-> id[p], chain |-> of[p],
                     number |-> IF task[p] = "answered" THEN carried[p] ELSE 0]
    <3>1. m \in Messages /\ inbox \in Seq(Messages)
      BY <1>1, ResponsesAssumption DEF TypeOK, Messages
    <3>2. inbox' = inbox \/ inbox' = Append(inbox, m)
      BY <1>6 DEF RustCalls
    <3>. HIDE DEF m
    <3>. QED
      BY <3>1, <3>2
  <2>. QED
    BY <1>1, <1>6, <2>1, <2>2 DEF TypeOK, RustCalls, dartVars
<1>7. ASSUME NEW c \in Chains, Produce(c) PROVE TypeOK'
  <2>1. /\ produced \in [Chains -> 0..MaxResponses] /\ produced[c] < MaxResponses
        /\ produced' = [produced EXCEPT ![c] = produced[c] + 1] /\ taken' = taken
        /\ taken \in [Chains -> Nat] /\ \A d \in Chains : taken[d] <= produced[d]
    BY <1>1, <1>7 DEF TypeOK, Produce
  <2>2. produced[c] + 1 \in 0..MaxResponses
    BY <2>1, ResponsesAssumption
  <2>3. /\ produced' \in [Chains -> 0..MaxResponses]
        /\ \A d \in Chains : produced'[d] >= produced[d]
    BY <2>1, <2>2, ResponsesAssumption
  <2>4. \A d \in Chains : taken[d] <= produced'[d]
    BY <2>1, <2>3, ResponsesAssumption
  <2>. QED
    BY <1>1, <1>7, <2>1, <2>3, <2>4 DEF TypeOK, Produce, dartVars
<1>8. ASSUME NEW c \in Chains, Close(c) PROVE TypeOK'
  <2>1. pull' \in [Pulls -> {"idle", "waiting", "received", "failed"}]
    BY <1>1, <1>8 DEF TypeOK, Close
  <2>2. DOMAIN registry' \subseteq Nat /\ registry' \in [DOMAIN registry' -> Pulls]
    BY <1>1, <1>8 DEF TypeOK, Close, Restrict
  <2>3. disposed' = removed' /\ removed' \subseteq Chains
    BY <1>1, <1>8 DEF TypeOK, Close
  <2>. QED
    BY <1>1, <1>8, <2>1, <2>2, <2>3 DEF TypeOK, Close
<1>9. ASSUME DartCallback PROVE TypeOK'
  <2>1. inbox' \in Seq(Messages) /\ Head(inbox) \in Messages
    BY <1>1, <1>9 DEF DartCallback, TypeOK
  <2>2. DOMAIN registry' \subseteq Nat /\ registry' \in [DOMAIN registry' -> Pulls]
    <3>1. \E S \in SUBSET DOMAIN registry : registry' = [i \in S |-> registry[i]]
      <4>1. registry = [i \in DOMAIN registry |-> registry[i]]
        BY <1>1 DEF TypeOK
      <4>2. registry' = registry \/ \E x : registry' = Restrict(registry, DOMAIN registry \ {x})
        BY <1>9 DEF DartCallback, RegistryAfter
      <4>. QED
        BY <4>1, <4>2 DEF Restrict
    <3>. QED
      BY <1>1, <3>1 DEF TypeOK
  <2>3. /\ value' \in [Pulls -> [chain : Chains, number : 0..MaxResponses]]
        /\ pull' \in [Pulls -> {"idle", "waiting", "received", "failed"}]
    <3>1. /\ registry \in [DOMAIN registry -> Pulls]
          /\ value \in [Pulls -> [chain : Chains, number : 0..MaxResponses]]
          /\ pull \in [Pulls -> {"idle", "waiting", "received", "failed"}]
      BY <1>1 DEF TypeOK
    <3>2. [chain |-> Head(inbox).chain, number |-> Head(inbox).number]
              \in [chain : Chains, number : 0..MaxResponses]
      BY <2>1 DEF Messages
    <3>3. value' = value \/ \E q \in Pulls : value' = [value EXCEPT ![q] =
              [chain |-> Head(inbox).chain, number |-> Head(inbox).number]]
      BY <1>9, <3>1 DEF DartCallback
    <3>4. pull' = pull \/ \E q \in Pulls, how \in {"failed", "received"} :
              pull' = [pull EXCEPT ![q] = IF @ = "waiting" THEN how ELSE @]
      BY <1>9, <3>1 DEF DartCallback, Completed, Settle
    <3>5. value' \in [Pulls -> [chain : Chains, number : 0..MaxResponses]]
      BY <3>1, <3>2, <3>3
    <3>6. pull' \in [Pulls -> {"idle", "waiting", "received", "failed"}]
      BY <3>1, <3>4
    <3>. QED
      BY <3>5, <3>6
  <2>. QED
    BY <1>1, <1>9, <2>1, <2>2, <2>3 DEF TypeOK, DartCallback, RegistryAfter, Completed, rustVars
<1>10. CASE UNCHANGED vars
  BY <1>1, <1>10 DEF TypeOK, vars, dartVars, rustVars
<1>. QED
  BY <1>2, <1>3, <1>4, <1>5, <1>6, <1>7, <1>8, <1>9, <1>10 DEF Next

-----------------------------------------------------------------------------
(* The steps, one by one.                                                  *)

LEMMA PullStep ==
    ASSUME Inv, NEW p \in Pulls, NEW c \in Chains, Pull(p, c)
    PROVE  RegistryInv' /\ LockInv' /\ TasksInv' /\ InboxInv' /\ WaitingIsServed'
<1>1. /\ pull[p] = "idle" /\ c \notin removed /\ task[p] = "none" /\ carried[p] = 0
      /\ pull'[p] = "waiting" /\ \A q \in Pulls : q # p => pull'[q] = pull[q]
      /\ id'[p] = nextCallbackId /\ \A q \in Pulls : q # p => id'[q] = id[q]
      /\ of'[p] = c /\ \A q \in Pulls : q # p => of'[q] = of[q]
      /\ earlier'[p] = Received(c) /\ \A q \in Pulls : q # p => earlier'[q] = earlier[q]
      /\ task'[p] = "spawned" /\ \A q \in Pulls : q # p => task'[q] = task[q]
      /\ nextCallbackId \in Nat /\ nextCallbackId' = nextCallbackId + 1
      /\ \A q \in Pulls : id[q] \in Nat
      /\ UNCHANGED <<value, carried, queue, taken, removed, inbox>>
  BY DEF Inv, TypeOK, TasksInv, Pull, FreshId
<1>2. \A q \in Pulls : pull[q] # "idle" => id[q] < nextCallbackId
  BY DEF Inv, RegistryInv
<1>3. /\ DOMAIN registry' = DOMAIN registry \cup {nextCallbackId}
      /\ registry'[nextCallbackId] = p /\ nextCallbackId \notin DOMAIN registry
      /\ \A i \in DOMAIN registry : registry'[i] = registry[i] /\ registry[i] \in Pulls \ {p}
  <2>1. /\ DOMAIN registry' = DOMAIN registry \cup {nextCallbackId}
        /\ registry'[nextCallbackId] = p
        /\ \A i \in DOMAIN registry : i # nextCallbackId => registry'[i] = registry[i]
    BY DEF Pull, FreshId
  <2>2. \A i \in DOMAIN registry : /\ registry[i] \in Pulls /\ pull[registry[i]] = "waiting"
                                   /\ id[registry[i]] = i
    BY DEF Inv, TypeOK, RegistryInv
  <2>3. nextCallbackId \notin DOMAIN registry
    BY <1>1, <1>2, <2>2
  <2>. QED
    BY <1>1, <2>1, <2>2, <2>3
<1>4. RegistryInv'
  BY <1>1, <1>2, <1>3 DEF Inv, RegistryInv
<1>5. LockInv'
  <2>1. \A d \in Chains : \A i \in DOMAIN queue[d] : queue[d][i] \in Pulls \ {p}
    BY <1>1 DEF Inv, TypeOK, LockInv
  <2>2. /\ \A d \in Chains : \A i \in DOMAIN queue[d] :
               /\ of'[queue[d][i]] = d /\ task'[queue[d][i]] = "queued"
               /\ \A j \in DOMAIN queue[d] : queue[d][j] = queue[d][i] => j = i
        /\ \A q \in Pulls : task'[q] = "queued" =>
               \E i \in DOMAIN queue[of'[q]] : queue[of'[q]][i] = q
    BY <1>1, <2>1 DEF Inv, LockInv
  <2>. QED
    BY <1>1, <2>2 DEF LockInv
<1>6. TasksInv'
  <2>1. \A n \in Received(c) : n <= taken[c]
    <3>1. \A q \in Pulls : of[q] = c /\ pull[q] = "received" =>
              value[q].number = carried[q] /\ carried[q] <= taken[c]
      <4>1. ASSUME NEW q \in Pulls, of[q] = c, pull[q] = "received"
            PROVE  value[q].number = carried[q] /\ carried[q] <= taken[c]
        <5>1. value[q] = [chain |-> c, number |-> carried[q]] /\ carried[q] <= taken[c]
          BY <4>1 DEF Inv, TasksInv
        <5>2. [chain |-> c, number |-> carried[q]].number = carried[q]
          OBVIOUS
        <5>. QED
          BY <5>1, <5>2
      <4>. QED
        BY <4>1
    <3>. QED
      BY <3>1 DEF Received
  <2>2. ASSUME NEW q \in Pulls, q # p
        PROVE  /\ pull'[q] = "idle" <=> task'[q] = "none"
               /\ pull'[q] = "waiting" => of'[q] \notin removed'
               /\ task'[q] = "answered" => carried'[q] # 0
               /\ carried'[q] # 0 =>
                      /\ task'[q] \in {"answered", "done"} /\ carried'[q] <= taken'[of'[q]]
                      /\ \A n \in earlier'[q] : n < carried'[q]
                      /\ \A r \in Pulls : of'[r] = of'[q] /\ carried'[r] = carried'[q] => r = q
               /\ \A n \in earlier'[q] : n <= taken'[of'[q]]
               /\ pull'[q] = "received" => value'[q] = [chain |-> of'[q], number |-> carried'[q]]
               /\ pull'[q] = "received" => carried'[q] # 0
    BY <1>1, <2>2 DEF Inv, TasksInv
  <2>. QED
    BY <1>1, <2>1, <2>2 DEF TasksInv
<1>7. InboxInv'
  BY <1>1 DEF Inv, InboxInv, Sends
<1>8. WaitingIsServed'
  BY <1>1, <1>2, <1>3 DEF Inv, WaitingIsServed
<1>. QED
  BY <1>4, <1>5, <1>6, <1>7, <1>8

LEMMA LocksStep ==
    ASSUME Inv, NEW p \in Pulls, RustLocks(p)
    PROVE  RegistryInv' /\ LockInv' /\ TasksInv' /\ InboxInv' /\ WaitingIsServed'
<1>1. /\ UNCHANGED <<dartVars, carried, produced, taken, removed, inbox>>
      /\ task[p] = "spawned" /\ task' = [task EXCEPT ![p] = "queued"]
      /\ queue' = [queue EXCEPT ![of[p]] = Append(queue[of[p]], p)]
      /\ task \in [Pulls -> Steps] /\ of \in [Pulls -> Chains] /\ of[p] \in Chains
      /\ queue \in [Chains -> Seq(Pulls)] /\ queue[of[p]] \in Seq(Pulls)
  BY DEF RustLocks, Inv, TypeOK
<1>2. task'[p] = "queued" /\ \A q \in Pulls : q # p => task'[q] = task[q]
  BY <1>1
<1>3. RegistryInv'
  BY <1>1 DEF Inv, RegistryInv, dartVars
<1>4. LockInv'
  <2> DEFINE old == queue[of[p]]
             new == queue'[of[p]]
  <2>1. /\ Len(old) \in Nat /\ DOMAIN old = 1..Len(old) /\ DOMAIN new = 1..(Len(old) + 1)
        /\ \A i \in 1..Len(old) : new[i] = old[i] /\ new[Len(old) + 1] = p
        /\ new[Len(old) + 1] = p
        /\ \A d \in Chains : d # of[p] => queue'[d] = queue[d]
    <3>1. /\ Len(old) \in Nat /\ DOMAIN old = 1..Len(old) /\ new = Append(old, p)
          /\ \A d \in Chains : d # of[p] => queue'[d] = queue[d]
      BY <1>1
    <3>. QED
      BY <1>1, <3>1, AppendProperties
  <2>2. \A d \in Chains : \A i \in DOMAIN queue[d] :
            /\ queue[d][i] \in Pulls \ {p} /\ of[queue[d][i]] = d /\ task[queue[d][i]] = "queued"
            /\ \A j \in DOMAIN queue[d] : queue[d][j] = queue[d][i] => j = i
    BY <1>1 DEF Inv, LockInv
  <2>3. \A i \in DOMAIN new :
            /\ of[new[i]] = of[p] /\ task'[new[i]] = "queued"
            /\ \A j \in DOMAIN new : new[j] = new[i] => j = i
    BY <1>1, <1>2, <2>1, <2>2
  <2>4. \A q \in Pulls : task'[q] = "queued" =>
            \E i \in DOMAIN queue'[of[q]] : queue'[of[q]][i] = q
    <3>1. ASSUME NEW q \in Pulls, task'[q] = "queued", q # p
          PROVE  \E i \in DOMAIN queue'[of[q]] : queue'[of[q]][i] = q
      <4>1. \E i \in DOMAIN queue[of[q]] : queue[of[q]][i] = q
        BY <1>2, <3>1 DEF Inv, LockInv
      <4>2. CASE of[q] = of[p]
        BY <2>1, <4>1, <4>2
      <4>3. CASE of[q] # of[p]
        <5>1. of[q] \in Chains
          BY <1>1
        <5>. QED
          BY <2>1, <4>1, <4>3, <5>1
      <4>. QED
        BY <4>2, <4>3
    <3>. QED
      BY <2>1, <3>1
  <2>. HIDE DEF old, new
  <2>5. \A d \in Chains : \A i \in DOMAIN queue'[d] :
            /\ of[queue'[d][i]] = d /\ task'[queue'[d][i]] = "queued"
            /\ \A j \in DOMAIN queue'[d] : queue'[d][j] = queue'[d][i] => j = i
    <3>1. ASSUME NEW d \in Chains, d # of[p], NEW i \in DOMAIN queue'[d]
          PROVE  /\ of[queue'[d][i]] = d /\ task'[queue'[d][i]] = "queued"
                 /\ \A j \in DOMAIN queue'[d] : queue'[d][j] = queue'[d][i] => j = i
      BY <1>2, <2>1, <2>2, <3>1
    <3>. QED
      BY <2>3, <3>1 DEF new
  <2>6. of' = of
    BY <1>1 DEF dartVars
  <2>. QED
    BY <2>4, <2>5, <2>6 DEF LockInv
<1>5. TasksInv'
  BY <1>1, <1>2 DEF Inv, TasksInv, dartVars
<1>6. InboxInv' /\ WaitingIsServed'
  BY <1>1, <1>2 DEF Inv, InboxInv, Sends, WaitingIsServed, dartVars
<1>. QED
  BY <1>3, <1>4, <1>5, <1>6

(* Leaving the head of a queue.                                            *)
LEMMA ReleaseLock ==
    ASSUME Inv, NEW p \in Pulls, Holds(p), Release(p), of' = of,
           NEW s \in {"answered", "refused"}, task' = [task EXCEPT ![p] = s]
    PROVE  LockInv'
<1> DEFINE old == queue[of[p]]
           new == Tail(old)
<1>1. /\ of[p] \in Chains /\ p = old[1] /\ 1 \in DOMAIN old
      /\ \A i \in DOMAIN new : i \in Nat \ {0} /\ i + 1 \in DOMAIN old /\ new[i] = old[i + 1]
      /\ \A i \in DOMAIN old : i # 1 => i - 1 \in DOMAIN new /\ new[i - 1] = old[i]
  <2>1. /\ of[p] \in Chains /\ p = old[1] /\ old \in Seq(Pulls) /\ old # <<>>
    BY Holding
  <2>. QED
    BY <2>1
<1>2. /\ queue'[of[p]] = new /\ \A d \in Chains : d # of[p] => queue'[d] = queue[d]
      /\ task'[p] # "queued" /\ \A q \in Pulls : q # p => task'[q] = task[q]
  BY <1>1 DEF Release, Inv, TypeOK
<1>3. /\ \A d \in Chains : \A i \in DOMAIN queue[d] :
             /\ queue[d][i] \in Pulls /\ of[queue[d][i]] = d /\ task[queue[d][i]] = "queued"
             /\ \A j \in DOMAIN queue[d] : queue[d][j] = queue[d][i] => j = i
      /\ \A q \in Pulls : task[q] = "queued" => \E i \in DOMAIN queue[of[q]] : queue[of[q]][i] = q
  BY DEF Inv, TypeOK, LockInv
<1>4. \A i \in DOMAIN old : old[i] \in Pulls /\ of[old[i]] = of[p] /\ task[old[i]] = "queued"
                            /\ \A j \in DOMAIN old : old[j] = old[i] => j = i
  BY <1>1, <1>3
<1>5. \A q \in Pulls : of[q] = of[p] /\ task[q] = "queued" => \E i \in DOMAIN old : old[i] = q
  BY <1>3
<1>. HIDE DEF old, new
<1>6. ASSUME NEW i \in DOMAIN new
      PROVE  /\ of[new[i]] = of[p] /\ task'[new[i]] = "queued"
             /\ \A j \in DOMAIN new : new[j] = new[i] => j = i
  <2>1. i + 1 \in DOMAIN old /\ i + 1 # 1 /\ new[i] = old[i + 1]
    <3>1. i \in Nat \ {0} /\ i + 1 \in DOMAIN old /\ new[i] = old[i + 1]
      BY <1>1
    <3>. QED
      BY <3>1
  <2>2. new[i] # p /\ new[i] \in Pulls /\ of[new[i]] = of[p] /\ task[new[i]] = "queued"
    BY <1>1, <1>4, <2>1
  <2>3. ASSUME NEW j \in DOMAIN new, new[j] = new[i] PROVE j = i
    BY <1>1, <1>4, <2>1, <2>3
  <2>. QED
    BY <1>2, <2>2, <2>3
<1>7. ASSUME NEW q \in Pulls, task'[q] = "queued"
      PROVE  \E i \in DOMAIN queue'[of[q]] : queue'[of[q]][i] = q
  <2>1. q # p /\ task[q] = "queued"
    BY <1>2, <1>7
  <2>2. CASE of[q] = of[p]
    <3>1. PICK i \in DOMAIN old : old[i] = q
      BY <1>5, <2>1, <2>2
    <3>2. i # 1 /\ i - 1 \in DOMAIN new /\ new[i - 1] = q
      BY <1>1, <2>1, <3>1
    <3>. QED
      BY <1>2, <2>2, <3>2
  <2>3. CASE of[q] # of[p]
    <3>1. of[q] \in Chains
      BY DEF Inv, TypeOK
    <3>. QED
      BY <1>2, <1>3, <2>1, <2>3, <3>1
  <2>. QED
    BY <2>2, <2>3
<1>8. ASSUME NEW d \in Chains, NEW i \in DOMAIN queue'[d]
      PROVE  /\ of[queue'[d][i]] = d /\ task'[queue'[d][i]] = "queued"
             /\ \A j \in DOMAIN queue'[d] : queue'[d][j] = queue'[d][i] => j = i
  <2>1. CASE d = of[p]
    BY <1>2, <1>6, <2>1
  <2>2. CASE d # of[p]
    BY <1>2, <1>3, <2>2
  <2>. QED
    BY <2>1, <2>2
<1>. QED
  BY <1>7, <1>8 DEF LockInv

LEMMA TakesStep ==
    ASSUME Inv, NEW p \in Pulls, RustTakes(p)
    PROVE  RegistryInv' /\ LockInv' /\ TasksInv' /\ InboxInv' /\ WaitingIsServed'
<1>1. /\ Holds(p) /\ task[p] = "queued" /\ of[p] \in Chains
      /\ UNCHANGED <<dartVars, produced, removed, inbox>>
      /\ task' = [task EXCEPT ![p] = "answered"] /\ task \in [Pulls -> Steps]
      /\ Release(p) /\ of \in [Pulls -> Chains]
  BY DEF RustTakes, Holds, Inv, TypeOK
<1>2. /\ \A q \in Pulls : carried[q] \in Nat /\ of[q] \in Chains
      /\ \A d \in Chains : taken[d] \in Nat
      /\ taken'[of[p]] = taken[of[p]] + 1 /\ \A d \in Chains : d # of[p] => taken'[d] = taken[d]
      /\ carried'[p] = taken[of[p]] + 1 /\ \A q \in Pulls : q # p => carried'[q] = carried[q]
  BY <1>1, ResponsesAssumption DEF RustTakes, Inv, TypeOK
<1>3. task'[p] = "answered" /\ \A q \in Pulls : q # p => task'[q] = task[q]
  BY <1>1
<1>4. RegistryInv'
  BY <1>1 DEF Inv, RegistryInv, dartVars
<1>5. LockInv'
  BY <1>1, ReleaseLock DEF dartVars
<1>6. TasksInv'
  <2>1. /\ carried[p] = 0 /\ pull[p] # "received" /\ pull[p] # "idle"
        /\ \A n \in earlier[p] : n <= taken[of[p]] /\ n \in Nat
        /\ pull[p] = "waiting" => of[p] \notin removed
    <3>1. \A n \in earlier[p] : n \in Nat
      BY DEF Inv, TypeOK
    <3>2. carried[p] = 0
      BY <1>1 DEF Inv, TasksInv
    <3>3. pull[p] # "received" /\ pull[p] # "idle"
      BY <1>1, <3>2 DEF Inv, TasksInv
    <3>4. \A n \in earlier[p] : n <= taken[of[p]]
      BY DEF Inv, TasksInv
    <3>5. pull[p] = "waiting" => of[p] \notin removed
      BY DEF Inv, TasksInv
    <3>. QED
      BY <3>1, <3>2, <3>3, <3>4, <3>5
  <2>2. UNCHANGED <<pull, of, earlier, value, removed>>
    BY <1>1 DEF dartVars
  <2>3. \A q \in Pulls : carried[q] # 0 => carried[q] <= taken[of[q]]
    BY DEF Inv, TasksInv
  <2>4. \A n \in earlier[p] : n < carried'[p]
    BY <1>1, <1>2, <2>1
  <2>5. \A q \in Pulls : q # p /\ of[q] = of[p] => carried'[q] # carried'[p]
    <3>1. ASSUME NEW q \in Pulls, q # p, of[q] = of[p] PROVE carried'[q] # carried'[p]
      <4>1. carried'[q] = carried[q] /\ carried[q] \in Nat /\ taken[of[p]] \in Nat
            /\ carried'[p] = taken[of[p]] + 1
        BY <1>1, <1>2, <3>1
      <4>2. carried[q] = 0 \/ carried[q] <= taken[of[p]]
        BY <2>3, <3>1
      <4>. QED
        BY <4>1, <4>2
    <3>. QED
      BY <3>1
  <2>6. carried'[p] # 0 /\ carried'[p] <= taken'[of[p]]
    BY <1>1, <1>2
  <2>7. \A q \in Pulls : \A n \in Nat : n <= taken[of[q]] => n <= taken'[of[q]]
    <3>1. \A d \in Chains : taken'[d] \in Nat /\ taken[d] <= taken'[d]
      BY <1>1, <1>2
    <3>. QED
      BY <1>2, <3>1
  <2>8. \A q \in Pulls : \A n \in earlier[q] : n \in Nat
    BY DEF Inv, TypeOK
  <2>9. ASSUME NEW q \in Pulls, q # p
        PROVE  /\ pull[q] = "idle" <=> task'[q] = "none"
               /\ pull[q] = "waiting" => of[q] \notin removed
               /\ task'[q] = "answered" => carried'[q] # 0
               /\ carried'[q] # 0 =>
                      /\ task'[q] \in {"answered", "done"}
                      /\ \A n \in earlier[q] : n < carried'[q]
               /\ pull[q] = "received" => value[q] = [chain |-> of[q], number |-> carried'[q]]
               /\ pull[q] = "received" => carried'[q] # 0
    BY <1>2, <1>3, <2>9 DEF Inv, TasksInv
  <2>10. ASSUME NEW q \in Pulls, q # p
         PROVE  /\ carried'[q] # 0 => carried'[q] <= taken'[of[q]]
                /\ carried'[q] # 0 =>
                       \A r \in Pulls : of[r] = of[q] /\ carried'[r] = carried'[q] => r = q
                /\ \A n \in earlier[q] : n <= taken'[of[q]]
    <3>1. carried'[q] # 0 => carried'[q] <= taken'[of[q]]
      BY <1>2, <2>3, <2>7, <2>10
    <3>2. \A n \in earlier[q] : n <= taken'[of[q]]
      BY <2>7, <2>8 DEF Inv, TasksInv
    <3>3. ASSUME carried'[q] # 0, NEW r \in Pulls, of[r] = of[q], carried'[r] = carried'[q]
          PROVE  r = q
      BY <1>2, <2>5, <2>10, <3>3 DEF Inv, TasksInv
    <3>. QED
      BY <3>1, <3>2, <3>3
  <2>11. \A n \in earlier[p] : n <= taken'[of[p]]
    BY <2>1, <2>7
  <2>. QED
    BY <1>3, <2>1, <2>2, <2>4, <2>5, <2>6, <2>9, <2>10, <2>11 DEF TasksInv
<1>7. InboxInv'
  <2>1. \A q \in Pulls : task[q] = "done" => q # p
    BY <1>1
  <2>. QED
    BY <1>1, <1>2, <1>3, <2>1 DEF Inv, InboxInv, Sends, dartVars
<1>8. WaitingIsServed'
  BY <1>1, <1>3 DEF Inv, WaitingIsServed, dartVars
<1>. QED
  BY <1>4, <1>5, <1>6, <1>7, <1>8

LEMMA EndsStep ==
    ASSUME Inv, NEW p \in Pulls, RustEnds(p)
    PROVE  RegistryInv' /\ LockInv' /\ TasksInv' /\ InboxInv' /\ WaitingIsServed'
<1>1. /\ Holds(p) /\ task[p] = "queued"
      /\ UNCHANGED <<dartVars, carried, produced, taken, removed, inbox>>
      /\ task' = [task EXCEPT ![p] = "refused"] /\ task \in [Pulls -> Steps]
      /\ Release(p)
  BY DEF RustEnds, Holds, Inv, TypeOK
<1>2. task'[p] = "refused" /\ \A q \in Pulls : q # p => task'[q] = task[q]
  BY <1>1
<1>3. RegistryInv'
  BY <1>1 DEF Inv, RegistryInv, dartVars
<1>4. LockInv'
  BY <1>1, ReleaseLock DEF dartVars
<1>5. TasksInv'
  BY <1>1, <1>2 DEF Inv, TasksInv, dartVars
<1>6. InboxInv' /\ WaitingIsServed'
  BY <1>1, <1>2 DEF Inv, InboxInv, Sends, WaitingIsServed, dartVars
<1>. QED
  BY <1>3, <1>4, <1>5, <1>6

(* The callback of a pull that waits is posted, since its chain is open.   *)
LEMMA CallsStep ==
    ASSUME Inv, NEW p \in Pulls, RustCalls(p)
    PROVE  RegistryInv' /\ LockInv' /\ TasksInv' /\ InboxInv' /\ WaitingIsServed'
<1>1. /\ UNCHANGED <<dartVars, carried, queue, produced, taken, removed>>
      /\ task[p] \in {"answered", "refused"}
      /\ task' = [task EXCEPT ![p] = "done"] /\ task \in [Pulls -> Steps]
      /\ disposed = removed /\ inbox \in Seq(Messages)
  BY DEF RustCalls, Inv, TypeOK
<1>2. task'[p] = "done" /\ \A q \in Pulls : q # p => task'[q] = task[q]
  BY <1>1
<1>3. PICK m \in Messages :
          /\ m.id = id[p] /\ m.chain = of[p] /\ m.number \in {0, carried[p]}
          /\ \/ inbox' = inbox /\ of[p] \in removed
             \/ inbox' = Append(inbox, m)
  <2> DEFINE n == [id |-> id[p], chain |-> of[p],
                   number |-> IF task[p] = "answered" THEN carried[p] ELSE 0]
  <2>1. n \in Messages /\ n.id = id[p] /\ n.chain = of[p] /\ n.number \in {0, carried[p]}
    BY ResponsesAssumption DEF Messages, Inv, TypeOK
  <2>2. \/ inbox' = inbox /\ of[p] \in removed
        \/ inbox' = Append(inbox, n)
    BY <1>1 DEF RustCalls
  <2>. QED
    BY <2>1, <2>2
<1>4. RegistryInv' /\ LockInv' /\ TasksInv'
  <2>1. RegistryInv'
    BY <1>1 DEF Inv, RegistryInv, dartVars
  <2>2. LockInv'
    <3>1. \A d \in Chains : \A i \in DOMAIN queue[d] : queue[d][i] \in Pulls
      BY DEF Inv, TypeOK
    <3>. QED
      BY <1>1, <1>2, <3>1 DEF Inv, LockInv, dartVars
  <2>3. TasksInv'
    BY <1>1, <1>2 DEF Inv, TasksInv, dartVars
  <2>. QED
    BY <2>1, <2>2, <2>3
<1>5. /\ UNCHANGED <<pull, id, of, carried, registry>>
      /\ pull[p] # "idle"
      /\ pull[p] = "waiting" => of[p] \notin removed
  BY <1>1 DEF dartVars, Inv, TasksInv
<1>6. \A i \in DOMAIN inbox : inbox[i].id # id[p]
  <2>1. ASSUME NEW i \in DOMAIN inbox, inbox[i].id = id[p] PROVE FALSE
    <3>1. PICK q \in Pulls : pull[q] # "idle" /\ Sends(q, inbox[i])
      BY DEF Inv, InboxInv
    <3>2. id[q] = id[p] /\ task[q] = "done"
      BY <2>1, <3>1 DEF Sends
    <3>3. q = p
      BY <1>5, <3>1, <3>2 DEF Inv, RegistryInv
    <3>. QED
      BY <1>1, <3>2, <3>3
  <2>. QED
    BY <2>1
<1>7. \A i \in DOMAIN inbox :
          /\ \E q \in Pulls : /\ pull'[q] # "idle" /\ inbox[i].id = id'[q]
                              /\ inbox[i].chain = of'[q] /\ task'[q] = "done"
                              /\ inbox[i].number \in {0, carried'[q]}
          /\ \A j \in DOMAIN inbox : inbox[j].id = inbox[i].id => j = i
  BY <1>2, <1>5 DEF Inv, InboxInv, Sends
<1>8. CASE inbox' = inbox /\ of[p] \in removed
  <2>1. InboxInv'
    BY <1>7, <1>8 DEF InboxInv, Sends
  <2>2. WaitingIsServed'
    BY <1>2, <1>5, <1>8 DEF Inv, WaitingIsServed
  <2>. QED
    BY <1>4, <2>1, <2>2
<1>9. CASE inbox' = Append(inbox, m)
  <2>1. /\ Len(inbox) \in Nat /\ DOMAIN inbox = 1..Len(inbox)
        /\ DOMAIN inbox' = 1..(Len(inbox) + 1) /\ inbox'[Len(inbox) + 1] = m
        /\ \A i \in 1..Len(inbox) : inbox'[i] = inbox[i]
    BY <1>1, <1>9, AppendProperties, LenProperties
  <2>2. \A i \in DOMAIN inbox' : \/ i \in DOMAIN inbox /\ inbox'[i] = inbox[i]
                                 \/ i = Len(inbox) + 1 /\ inbox'[i] = m
    BY <2>1
  <2>3. ASSUME NEW i \in DOMAIN inbox'
        PROVE  \E q \in Pulls : /\ pull'[q] # "idle" /\ inbox'[i].id = id'[q]
                                /\ inbox'[i].chain = of'[q] /\ task'[q] = "done"
                                /\ inbox'[i].number \in {0, carried'[q]}
    <3>1. CASE inbox'[i] = m
      BY <1>2, <1>3, <1>5, <3>1
    <3>2. CASE i \in DOMAIN inbox /\ inbox'[i] = inbox[i]
      BY <1>7, <3>2
    <3>. QED
      BY <2>2, <3>1, <3>2
  <2>4. \A i, j \in DOMAIN inbox' : inbox'[j].id = inbox'[i].id => j = i
    BY <1>3, <1>6, <1>7, <2>2
  <2>5. InboxInv'
    BY <2>3, <2>4 DEF InboxInv, Sends
  <2>6. WaitingIsServed'
    <3>1. Len(inbox) + 1 \in DOMAIN inbox' /\ inbox'[Len(inbox) + 1].id = id'[p]
      BY <1>3, <1>5, <2>1
    <3>2. \A i \in DOMAIN inbox : i \in DOMAIN inbox' /\ inbox'[i] = inbox[i]
      BY <2>1
    <3>. QED
      BY <1>2, <1>5, <3>1, <3>2 DEF Inv, WaitingIsServed
  <2>. QED
    BY <1>4, <2>5, <2>6
<1>. QED
  BY <1>3, <1>8, <1>9

LEMMA CloseStep ==
    ASSUME Inv, NEW c \in Chains, Close(c)
    PROVE  RegistryInv' /\ LockInv' /\ TasksInv' /\ InboxInv' /\ WaitingIsServed'
<1>1. /\ UNCHANGED <<nextCallbackId, of, id, value, earlier, task, carried, queue, taken, inbox>>
      /\ removed' = removed \cup {c}
      /\ \A p \in Pulls : pull'[p] = IF of[p] = c /\ pull[p] = "waiting" THEN "failed" ELSE pull[p]
      /\ DOMAIN registry' =
             {i \in DOMAIN registry : ~(of[registry[i]] = c /\ pull[registry[i]] = "waiting")}
      /\ \A i \in DOMAIN registry' : registry'[i] = registry[i]
      /\ \A i \in DOMAIN registry : registry[i] \in Pulls
  BY DEF Close, SettledByDispose, Pending, Restrict, Inv, TypeOK
<1>2. RegistryInv'
  BY <1>1 DEF Inv, RegistryInv
<1>3. LockInv'
  BY <1>1 DEF Inv, LockInv
<1>4. TasksInv'
  <2>1. ASSUME NEW p \in Pulls
        PROVE  /\ pull'[p] = "idle" <=> pull[p] = "idle"
               /\ pull'[p] = "received" <=> pull[p] = "received"
               /\ pull'[p] = "waiting" => pull[p] = "waiting" /\ of[p] # c
    BY <1>1
  <2>. QED
    BY <1>1, <2>1 DEF Inv, TasksInv
<1>5. InboxInv'
  BY <1>1 DEF Inv, InboxInv, Sends
<1>6. WaitingIsServed'
  BY <1>1 DEF Inv, WaitingIsServed
<1>. QED
  BY <1>2, <1>3, <1>4, <1>5, <1>6

(* The message at the head of the inbox, if the chain it is of is open,    *)
(* settles the pull whose task posted it.                                  *)
LEMMA Settling ==
    ASSUME Inv, DartCallback
    PROVE  \E p \in Pulls, m \in Messages :
            /\ 1 \in DOMAIN inbox /\ m = inbox[1] /\ pull[p] # "idle" /\ Sends(p, m)
            /\ \/ /\ id[p] \in DOMAIN registry /\ registry[id[p]] = p /\ pull[p] = "waiting"
                  /\ of[p] \notin removed
                  /\ registry' = Restrict(registry, DOMAIN registry \ {id[p]})
                  /\ value' = [value EXCEPT ![p] = [chain |-> of[p], number |-> m.number]]
                  /\ pull' = [pull EXCEPT ![p] = IF m.number = 0 THEN "failed" ELSE "received"]
               \/ pull[p] # "waiting" /\ UNCHANGED <<registry, value, pull>>
<1>1. /\ disposed = removed /\ inbox \in Seq(Messages) /\ inbox # <<>>
      /\ \A i \in DOMAIN registry : registry[i] \in Pulls
  BY DEF DartCallback, Inv, TypeOK
<1>2. PICK m \in Messages : m = Head(inbox) /\ m = inbox[1] /\ 1 \in DOMAIN inbox
  BY <1>1
<1>3. PICK p \in Pulls : pull[p] # "idle" /\ Sends(p, m)
  BY <1>2 DEF Inv, InboxInv
<1>4. m.id = id[p] /\ m.chain = of[p]
  BY <1>3 DEF Sends
<1>5. \A q \in Pulls : pull[q] # "idle" /\ id[q] = id[p] => q = p
  BY <1>3 DEF Inv, RegistryInv
<1>6. \/ /\ id[p] \in DOMAIN registry /\ registry[id[p]] = p /\ pull[p] = "waiting"
         /\ of[p] \notin removed
         /\ registry' = Restrict(registry, DOMAIN registry \ {id[p]})
         /\ value' = [value EXCEPT ![p] = [chain |-> of[p], number |-> m.number]]
         /\ pull' = [pull EXCEPT ![p] = IF m.number = 0 THEN "failed" ELSE "received"]
      \/ pull[p] # "waiting" /\ UNCHANGED <<registry, value, pull>>
  <2>1. CASE m.id \in DOMAIN registry /\ m.chain \notin disposed
    <3>1. id[p] \in DOMAIN registry /\ of[p] \notin removed
      BY <1>1, <1>4, <2>1
    <3>2. registry[id[p]] = p /\ pull[p] = "waiting"
      BY <1>1, <1>5, <3>1 DEF Inv, RegistryInv
    <3>3. /\ registry' = Restrict(registry, DOMAIN registry \ {id[p]})
          /\ value' = [value EXCEPT ![p] = [chain |-> of[p], number |-> m.number]]
          /\ pull' = [pull EXCEPT ![p] = IF @ = "waiting"
                            THEN IF m.number = 0 THEN "failed" ELSE "received" ELSE @]
      <4>1. /\ registry' = Restrict(registry, DOMAIN registry \ {m.id})
            /\ value' = [value EXCEPT ![registry[m.id]] = [chain |-> m.chain, number |-> m.number]]
            /\ pull' = [pull EXCEPT ![registry[m.id]] = IF @ = "waiting"
                              THEN IF m.number = 0 THEN "failed" ELSE "received" ELSE @]
        BY <1>2, <2>1 DEF DartCallback, RegistryAfter, Completed, Settle
      <4>2. registry[m.id] = p /\ m.id = id[p] /\ m.chain = of[p]
        BY <1>4, <3>2
      <4>. QED
        BY <4>1, <4>2
    <3>4. pull' = [pull EXCEPT ![p] = IF m.number = 0 THEN "failed" ELSE "received"]
      BY <3>2, <3>3 DEF Inv, TypeOK
    <3>. QED
      BY <3>1, <3>2, <3>3, <3>4
  <2>2. CASE ~(m.id \in DOMAIN registry /\ m.chain \notin disposed)
    <3>1. UNCHANGED <<registry, value, pull>>
      BY <1>2, <2>2 DEF DartCallback
    <3>2. pull[p] = "waiting" => id[p] \in DOMAIN registry
      BY DEF Inv, WaitingIsServed
    <3>3. pull[p] = "waiting" => of[p] \notin removed
      BY DEF Inv, TasksInv
    <3>. QED
      BY <1>1, <1>4, <2>2, <3>1, <3>2, <3>3
  <2>. QED
    BY <2>1, <2>2
<1>. QED
  BY <1>2, <1>3, <1>6

LEMMA CallbackStep ==
    ASSUME Inv, DartCallback
    PROVE  RegistryInv' /\ LockInv' /\ TasksInv' /\ InboxInv' /\ WaitingIsServed'
<1>1. /\ UNCHANGED <<nextCallbackId, of, id, earlier, disposed, rustVars>>
      /\ disposed = removed /\ inbox \in Seq(Messages) /\ inbox # <<>>
      /\ inbox' = Tail(inbox)
      /\ \A i \in DOMAIN registry : registry[i] \in Pulls
  BY DEF DartCallback, Inv, TypeOK
<1>2. PICK p \in Pulls, m \in Messages :
          /\ m = inbox[1] /\ pull[p] # "idle" /\ Sends(p, m)
          /\ \/ /\ id[p] \in DOMAIN registry /\ registry[id[p]] = p /\ pull[p] = "waiting"
                /\ of[p] \notin removed
                /\ registry' = Restrict(registry, DOMAIN registry \ {id[p]})
                /\ value' = [value EXCEPT ![p] = [chain |-> of[p], number |-> m.number]]
                /\ pull' = [pull EXCEPT ![p] = IF m.number = 0 THEN "failed" ELSE "received"]
             \/ pull[p] # "waiting" /\ UNCHANGED <<registry, value, pull>>
  BY Settling
<1>3. /\ 1 \in DOMAIN inbox
      /\ \A i \in DOMAIN inbox' : i + 1 \in DOMAIN inbox /\ inbox'[i] = inbox[i + 1] /\ i \in Nat \ {0}
      /\ \A i \in DOMAIN inbox : i # 1 => i - 1 \in DOMAIN inbox' /\ inbox'[i - 1] = inbox[i]
  BY <1>1
<1>4. pull[p] # "idle" /\ Sends(p, m)
  BY <1>2
<1>5. m.id = id[p] /\ m.chain = of[p] /\ task[p] = "done" /\ m.number \in {0, carried[p]}
  BY <1>4 DEF Sends
<1>6. \A q \in Pulls : pull[q] # "idle" /\ id[q] = id[p] => q = p
  BY <1>4 DEF Inv, RegistryInv
<1>7. \A i \in DOMAIN inbox : i # 1 => inbox[i].id # id[p]
  BY <1>2, <1>3, <1>5 DEF Inv, InboxInv
<1>8. \/ /\ id[p] \in DOMAIN registry /\ registry[id[p]] = p /\ pull[p] = "waiting"
         /\ of[p] \notin removed
         /\ registry' = Restrict(registry, DOMAIN registry \ {id[p]})
         /\ value' = [value EXCEPT ![p] = [chain |-> of[p], number |-> m.number]]
         /\ pull' = [pull EXCEPT ![p] = IF m.number = 0 THEN "failed" ELSE "received"]
      \/ pull[p] # "waiting" /\ UNCHANGED <<registry, value, pull>>
  BY <1>2
<1>9. LockInv'
  BY <1>1 DEF Inv, LockInv, rustVars
<1>10. \A q \in Pulls : q # p => pull'[q] = pull[q] /\ value'[q] = value[q]
  BY <1>8 DEF Inv, TypeOK
<1>11. /\ pull'[p] = "idle" <=> pull[p] = "idle"
       /\ pull'[p] # "waiting"
  <2>1. pull \in [Pulls -> {"idle", "waiting", "received", "failed"}]
    BY DEF Inv, TypeOK
  <2>. QED
    BY <1>8, <2>1
<1>12. \A q \in Pulls : pull'[q] = "idle" <=> pull[q] = "idle"
  BY <1>10, <1>11
<1>13. InboxInv'
  <2>1. ASSUME NEW i \in DOMAIN inbox'
        PROVE  /\ \E q \in Pulls : /\ pull'[q] # "idle" /\ inbox'[i].id = id'[q]
                                    /\ inbox'[i].chain = of'[q] /\ task'[q] = "done"
                                    /\ inbox'[i].number \in {0, carried'[q]}
               /\ \A j \in DOMAIN inbox' : inbox'[j].id = inbox'[i].id => j = i
    <3>1. i \in Nat /\ i + 1 \in DOMAIN inbox /\ inbox'[i] = inbox[i + 1]
      BY <1>3
    <3>2. PICK q \in Pulls : pull[q] # "idle" /\ Sends(q, inbox[i + 1])
      BY <3>1 DEF Inv, InboxInv
    <3>3. /\ pull'[q] # "idle" /\ inbox'[i].id = id'[q]
          /\ inbox'[i].chain = of'[q] /\ task'[q] = "done"
          /\ inbox'[i].number \in {0, carried'[q]}
      BY <1>1, <1>12, <3>1, <3>2 DEF Sends, rustVars
    <3>4. ASSUME NEW j \in DOMAIN inbox', inbox'[j].id = inbox'[i].id PROVE j = i
      <4>1. j \in Nat /\ j + 1 \in DOMAIN inbox /\ inbox'[j] = inbox[j + 1]
        BY <1>3
      <4>2. j + 1 = i + 1
        BY <3>1, <3>4, <4>1 DEF Inv, InboxInv
      <4>. QED
        BY <3>1, <4>1, <4>2
    <3>. QED
      BY <3>3, <3>4
  <2>. QED
    BY <2>1 DEF InboxInv, Sends
<1>14. CASE pull[p] # "waiting" /\ UNCHANGED <<registry, value, pull>>
  <2>1. RegistryInv'
    BY <1>1, <1>14 DEF Inv, RegistryInv
  <2>2. TasksInv'
    BY <1>1, <1>14 DEF Inv, TasksInv, rustVars
  <2>3. WaitingIsServed'
    <3>1. ASSUME NEW q \in Pulls, pull[q] = "waiting"
          PROVE  /\ id[q] \in DOMAIN registry /\ registry[id[q]] = q
                 /\ \/ task[q] \notin {"none", "done"}
                    \/ \E i \in DOMAIN inbox' : inbox'[i].id = id[q]
      <4>1. id[q] # id[p]
        BY <1>6, <1>14, <3>1
      <4>2. \A i \in DOMAIN inbox : inbox[i].id = id[q] => i # 1
        BY <1>2, <1>5, <4>1
      <4>. QED
        BY <1>3, <3>1, <4>2 DEF Inv, WaitingIsServed
    <3>. QED
      BY <1>1, <1>14, <3>1 DEF WaitingIsServed, rustVars
  <2>. QED
    BY <1>9, <1>13, <2>1, <2>2, <2>3
<1>15. CASE /\ id[p] \in DOMAIN registry /\ registry[id[p]] = p /\ pull[p] = "waiting"
            /\ of[p] \notin removed
            /\ registry' = Restrict(registry, DOMAIN registry \ {id[p]})
            /\ value' = [value EXCEPT ![p] = [chain |-> of[p], number |-> m.number]]
            /\ pull' = [pull EXCEPT ![p] = IF m.number = 0 THEN "failed" ELSE "received"]
  <2>1. /\ DOMAIN registry' = DOMAIN registry \ {id[p]}
        /\ \A i \in DOMAIN registry' : registry'[i] = registry[i]
    BY <1>15 DEF Restrict
  <2>2. RegistryInv'
    <3>1. \A q \in Pulls : pull'[q] # "idle" =>
              /\ id'[q] < nextCallbackId'
              /\ \A r \in Pulls : pull'[r] # "idle" /\ id'[r] = id'[q] => r = q
      BY <1>1, <1>12 DEF Inv, RegistryInv
    <3>2. ASSUME NEW i \in DOMAIN registry'
          PROVE  pull'[registry'[i]] = "waiting" /\ id'[registry'[i]] = i
      <4>1. /\ i \in DOMAIN registry /\ i # id[p] /\ registry'[i] = registry[i]
            /\ registry[i] \in Pulls
        BY <1>1, <2>1
      <4>2. pull[registry[i]] = "waiting" /\ id[registry[i]] = i
        BY <4>1 DEF Inv, RegistryInv
      <4>. QED
        BY <1>1, <1>10, <4>1, <4>2
    <3>. QED
      BY <3>1, <3>2 DEF RegistryInv
  <2>3. /\ value'[p] = [chain |-> of[p], number |-> m.number]
        /\ pull'[p] = IF m.number = 0 THEN "failed" ELSE "received"
    BY <1>15 DEF Inv, TypeOK
  <2>4. TasksInv'
    <3>1. pull'[p] = "received" => carried[p] # 0 /\ value'[p] = [chain |-> of[p], number |-> carried[p]]
      BY <1>5, <2>3
    <3>2. ASSUME NEW q \in Pulls
          PROVE  /\ pull'[q] = "waiting" => of[q] \notin removed
                 /\ pull'[q] = "received" =>
                        value'[q] = [chain |-> of[q], number |-> carried[q]]
                 /\ pull'[q] = "received" => carried[q] # 0
      <4>1. CASE q = p
        BY <1>11, <3>1, <4>1
      <4>2. CASE q # p
        BY <1>10, <4>2 DEF Inv, TasksInv
      <4>. QED
        BY <4>1, <4>2
    <3>3. ASSUME NEW q \in Pulls
          PROVE  /\ pull[q] = "idle" <=> task[q] = "none"
                 /\ task[q] = "answered" => carried[q] # 0
                 /\ carried[q] # 0 =>
                        /\ task[q] \in {"answered", "done"} /\ carried[q] <= taken[of[q]]
                        /\ \A n \in earlier[q] : n < carried[q]
                        /\ \A r \in Pulls : of[r] = of[q] /\ carried[r] = carried[q] => r = q
                 /\ \A n \in earlier[q] : n <= taken[of[q]]
      BY DEF Inv, TasksInv
    <3>4. UNCHANGED <<of, removed, task, carried, earlier, taken>>
      BY <1>1 DEF rustVars
    <3>. QED
      BY <1>12, <3>2, <3>3, <3>4 DEF TasksInv
  <2>5. WaitingIsServed'
    <3>1. ASSUME NEW q \in Pulls, pull'[q] = "waiting"
          PROVE  /\ id[q] \in DOMAIN registry' /\ registry'[id[q]] = q
                 /\ \/ task[q] \notin {"none", "done"}
                    \/ \E i \in DOMAIN inbox' : inbox'[i].id = id[q]
      <4>1. q # p /\ pull[q] = "waiting"
        BY <1>10, <1>11, <3>1
      <4>2. id[q] # id[p]
        BY <1>6, <4>1
      <4>3. /\ id[q] \in DOMAIN registry /\ registry[id[q]] = q
            /\ \/ task[q] \notin {"none", "done"}
               \/ \E i \in DOMAIN inbox : inbox[i].id = id[q]
        BY <4>1 DEF Inv, WaitingIsServed
      <4>4. \A i \in DOMAIN inbox : inbox[i].id = id[q] => i # 1
        BY <1>2, <1>5, <4>2
      <4>. QED
        BY <1>3, <2>1, <4>2, <4>3, <4>4
    <3>. QED
      BY <1>1, <3>1 DEF WaitingIsServed, rustVars
  <2>. QED
    BY <1>9, <1>13, <2>2, <2>4, <2>5
<1>. QED
  BY <1>8, <1>14, <1>15

(* A task and a callback have no response only if their chain was removed. *)
LEMMA EndedStep == ASSUME Inv, [Next]_vars PROVE EndedInv'
<1>1. EndedInv /\ task \in [Pulls -> Steps] /\ inbox \in Seq(Messages) /\ disposed = removed
  BY DEF Inv, TypeOK
<1>2. ASSUME NEW p \in Pulls, \/ \E c \in Chains : Pull(p, c)
                              \/ RustLocks(p) \/ RustTakes(p) \/ RustEnds(p)
      PROVE  EndedInv'
  <2>1. UNCHANGED <<inbox, removed>>
    BY <1>2 DEF Pull, RustLocks, RustTakes, RustEnds
  <2>2. \A q \in Pulls : task'[q] = "refused" =>
            of'[q] \in removed /\ (task[q] = "refused" \/ of[q] \in removed)
    <3>1. CASE \E c \in Chains : Pull(p, c)
      <4>1. \A q \in Pulls : q # p => task'[q] = task[q] /\ of'[q] = of[q]
        BY <1>1, <3>1 DEF Pull, Inv, TypeOK
      <4>2. task'[p] = "spawned"
        BY <1>1, <3>1 DEF Pull
      <4>. QED
        BY <1>1, <4>1, <4>2 DEF EndedInv
    <3>2. CASE RustLocks(p) \/ RustTakes(p)
      BY <1>1, <3>2 DEF RustLocks, RustTakes, dartVars, EndedInv
    <3>3. CASE RustEnds(p)
      BY <1>1, <3>3 DEF RustEnds, dartVars, EndedInv
    <3>. QED
      BY <1>2, <3>1, <3>2, <3>3
  <2>. QED
    BY <1>1, <2>1, <2>2 DEF EndedInv
<1>3. ASSUME NEW p \in Pulls, RustCalls(p) PROVE EndedInv'
  <2>1. /\ task' = [task EXCEPT ![p] = "done"] /\ UNCHANGED <<of, removed>>
        /\ task[p] \in {"answered", "refused"}
    BY <1>3 DEF RustCalls, dartVars
  <2>2. \A q \in Pulls : task'[q] = "refused" => task[q] = "refused"
    BY <1>1, <2>1
  <2>3. PICK m \in Messages : /\ inbox' = inbox \/ inbox' = Append(inbox, m)
                              /\ m.number = 0 => m.chain \in removed
    <3> DEFINE n == [id |-> id[p], chain |-> of[p],
                     number |-> IF task[p] = "answered" THEN carried[p] ELSE 0]
    <3>1. n \in Messages
      BY ResponsesAssumption DEF Messages, Inv, TypeOK
    <3>2. inbox' = inbox \/ inbox' = Append(inbox, n)
      BY <1>3 DEF RustCalls
    <3>3. n.number = 0 => of[p] \in removed
      BY <1>1, <2>1 DEF EndedInv, Inv, TasksInv
    <3>. QED
      BY <3>1, <3>2, <3>3
  <2>4. \A i \in DOMAIN inbox' : (i \in DOMAIN inbox /\ inbox'[i] = inbox[i]) \/ inbox'[i] = m
    BY <1>1, <2>3, AppendProperties, LenProperties
  <2>. QED
    BY <1>1, <2>1, <2>2, <2>3, <2>4 DEF EndedInv
<1>4. CASE DartCallback
  <2>1. inbox # <<>> /\ inbox' = Tail(inbox) /\ UNCHANGED <<of, task, removed>>
    BY <1>4 DEF DartCallback, rustVars
  <2>2. \A i \in DOMAIN inbox' : i + 1 \in DOMAIN inbox /\ inbox'[i] = inbox[i + 1]
    BY <1>1, <2>1
  <2>. QED
    BY <1>1, <2>1, <2>2 DEF EndedInv
<1>5. CASE \/ \E c \in Chains : Produce(c) \/ Close(c)
           \/ UNCHANGED vars
  <2>1. UNCHANGED <<of, task, inbox>> /\ removed \subseteq removed'
    BY <1>5 DEF Produce, Close, vars, dartVars, rustVars
  <2>. QED
    BY <1>1, <2>1 DEF EndedInv
<1>. QED
  BY <1>2, <1>3, <1>4, <1>5 DEF Next

LEMMA StepInv == Inv /\ [Next]_vars => Inv'
<1> SUFFICES ASSUME Inv, [Next]_vars PROVE Inv'
  OBVIOUS
<1>1. TypeOK'
  BY TypeStep
<1>2. RegistryInv' /\ LockInv' /\ TasksInv' /\ InboxInv' /\ WaitingIsServed'
  <2>1. ASSUME \/ \E c \in Chains : Produce(c)
               \/ UNCHANGED vars
        PROVE  RegistryInv' /\ LockInv' /\ TasksInv' /\ InboxInv' /\ WaitingIsServed'
    <3>1. UNCHANGED <<dartVars, task, carried, queue, taken, removed, inbox>>
      BY <2>1 DEF Produce, vars, dartVars, rustVars
    <3>2. RegistryInv' /\ LockInv'
      BY <3>1 DEF Inv, RegistryInv, LockInv, dartVars
    <3>3. TasksInv'
      BY <3>1 DEF Inv, TasksInv, dartVars
    <3>4. InboxInv' /\ WaitingIsServed'
      BY <3>1 DEF Inv, InboxInv, Sends, WaitingIsServed, dartVars
    <3>. QED
      BY <3>2, <3>3, <3>4
  <2>. QED
    BY <2>1, PullStep, LocksStep, TakesStep, EndsStep, CallsStep, CloseStep, CallbackStep DEF Next
<1>3. EndedInv'
  BY EndedStep
<1>. QED
  BY <1>1, <1>2, <1>3 DEF Inv

-----------------------------------------------------------------------------
(* Theorem: the state of the pump, its registry, the locks of its streams, *)
(* its tasks and its inbox fit together in every reachable state: Inv is   *)
(* inductive.  Every id is used once, a lock's queue holds every waiting   *)
(* task once, no response is taken twice, and each callback in the inbox is*)
(* the only one of a task that is done.                                    *)
THEOREM InvAlways == Spec => []Inv
<1>. QED
  BY InitInv, StepInv, PTL DEF Spec

(* Theorem: no interleaving of pulls, tasks, callbacks and dispose leaves a*)
(* caller of next waiting for nothing: it is registered, and its task will *)
(* call back or its callback is posted.                                    *)
THEOREM WaitingServedAlways == Spec => []WaitingIsServed
<1>1. Inv => WaitingIsServed
  BY DEF Inv
<1>. QED
  BY <1>1, InvAlways, PTL

(* Theorem: concurrent chains and concurrent pulls never collide: a pull   *)
(* receives a response of its own chain that no other pull receives.       *)
THEOREM OwnResponsesAlways == Spec => []OwnResponses
<1>1. Inv => OwnResponses
  <2> SUFFICES ASSUME Inv, NEW p \in Pulls, NEW q \in Pulls, pull[p] = "received"
               PROVE  /\ value[p].chain = of[p]
                      /\ pull[q] = "received" /\ value[q] = value[p] => q = p
    BY DEF OwnResponses
  <2>1. \A r \in Pulls : pull[r] = "received" =>
            value[r] = [chain |-> of[r], number |-> carried[r]] /\ carried[r] # 0
    BY DEF Inv, TasksInv
  <2>2. \A r \in Pulls : pull[r] = "received" =>
            value[r].chain = of[r] /\ value[r].number = carried[r] /\ carried[r] # 0
    <3> SUFFICES ASSUME NEW r \in Pulls, pull[r] = "received"
                 PROVE  value[r].chain = of[r] /\ value[r].number = carried[r] /\ carried[r] # 0
      OBVIOUS
    <3>1. value[r] = [chain |-> of[r], number |-> carried[r]] /\ carried[r] # 0
      BY <2>1
    <3>2. /\ [chain |-> of[r], number |-> carried[r]].chain = of[r]
          /\ [chain |-> of[r], number |-> carried[r]].number = carried[r]
      OBVIOUS
    <3>. QED
      BY <3>1, <3>2
  <2>. QED
    BY <2>2 DEF Inv, TasksInv
<1>. QED
  BY <1>1, InvAlways, PTL

(* Theorem: a chain's responses come out in order: what a pull receives is *)
(* later in the stream than all that was received before the pull began,   *)
(* whatever the order in which the tasks of concurrent pulls come to the   *)
(* lock.                                                                   *)
THEOREM LaterGetsLaterAlways == Spec => []LaterGetsLater
<1>1. Inv => LaterGetsLater
  <2> SUFFICES ASSUME Inv, NEW p \in Pulls, pull[p] = "received", NEW n \in earlier[p]
               PROVE  n < value[p].number
    BY DEF LaterGetsLater
  <2>1. value[p] = [chain |-> of[p], number |-> carried[p]] /\ carried[p] # 0
    BY DEF Inv, TasksInv
  <2>2. value[p].number = carried[p]
    BY <2>1
  <2>3. n < carried[p]
    BY <2>1 DEF Inv, TasksInv
  <2>. QED
    BY <2>2, <2>3
<1>. QED
  BY <1>1, InvAlways, PTL

-----------------------------------------------------------------------------
(* Each step of tasks, callbacks and client is one of the abstract queue,  *)
(* in which a pull takes its response when its task does.                  *)
LEMMA PromiseStep == ASSUME Inv, [Next]_vars PROVE [Promise!Next]_Promise!promiseVars
<1>1. CASE \E p \in Pulls, c \in Chains : Pull(p, c)
  <2>1. PICK p \in Pulls, c \in Chains : Pull(p, c)
    BY <1>1
  <2>2. Promise!Begin(p, c)
    BY <2>1 DEF Pull, Promise!Begin, Inv, TypeOK
  <2>. QED
    BY <2>2 DEF Promise!Next
<1>2. ASSUME NEW c \in Chains, Produce(c) PROVE Promise!Next
  <2>1. Promise!Produce(c)
    BY <1>2 DEF Produce, Promise!Produce, dartVars
  <2>. QED
    BY <2>1 DEF Promise!Next
<1>3. ASSUME NEW p \in Pulls, RustTakes(p) PROVE Promise!Next
  <2>1. task[p] = "queued"
    BY <1>3 DEF RustTakes, Holds
  <2>2. pull[p] # "idle" /\ carried[p] = 0
    BY <2>1 DEF Inv, TasksInv
  <2>3. Promise!Take(p)
    BY <1>3, <2>2 DEF RustTakes, Promise!Take, dartVars
  <2>. QED
    BY <2>3 DEF Promise!Next
<1>4. CASE DartCallback
  <2>1. UNCHANGED <<of, carried, produced, taken, removed>>
    BY <1>4 DEF DartCallback, rustVars
  <2>2. PICK p \in Pulls, m \in Messages :
            /\ 1 \in DOMAIN inbox /\ m = inbox[1] /\ Sends(p, m)
            /\ \/ /\ pull[p] = "waiting" /\ of[p] \notin removed
                  /\ value' = [value EXCEPT ![p] = [chain |-> of[p], number |-> m.number]]
                  /\ pull' = [pull EXCEPT ![p] = IF m.number = 0 THEN "failed" ELSE "received"]
               \/ UNCHANGED <<value, pull>>
    BY <1>4, Settling
  <2>3. CASE UNCHANGED <<value, pull>>
    BY <2>1, <2>3 DEF Promise!promiseVars
  <2>4. ASSUME /\ pull[p] = "waiting" /\ of[p] \notin removed
               /\ value' = [value EXCEPT ![p] = [chain |-> of[p], number |-> m.number]]
               /\ pull' = [pull EXCEPT ![p] = IF m.number = 0 THEN "failed" ELSE "received"]
        PROVE  Promise!Next
    <3>1. m.chain = of[p] /\ m.number \in {0, carried[p]}
      BY <2>2 DEF Sends
    <3>2. m.number # 0
      BY <2>2, <2>4, <3>1 DEF Inv, EndedInv
    <3>3. Promise!Receive(p)
      BY <2>1, <2>4, <3>1, <3>2 DEF Promise!Receive
    <3>. QED
      BY <3>3 DEF Promise!Next
  <2>. QED
    BY <2>2, <2>3, <2>4
<1>5. ASSUME NEW c \in Chains, Close(c) PROVE Promise!Next
  <2>1. Promise!Close(c)
    BY <1>5 DEF Close, SettledByDispose, Pending, Promise!Close
  <2>. QED
    BY <2>1 DEF Promise!Next
<1>6. ASSUME \/ \E p \in Pulls : RustLocks(p) \/ RustEnds(p) \/ RustCalls(p)
             \/ UNCHANGED vars
      PROVE  UNCHANGED Promise!promiseVars
  BY <1>6 DEF RustLocks, RustEnds, RustCalls, vars, dartVars, rustVars, Promise!promiseVars
<1>. QED
  BY <1>1, <1>2, <1>3, <1>4, <1>5, <1>6 DEF Next

LEMMA PromiseInit == Init => Promise!Init
BY ChainsAssumption DEF Init, Promise!Init

(* Theorem: whatever tasks, callbacks and removals of chains interleave,   *)
(* every chain's responses are one queue: each pull takes the first at one *)
(* moment between its beginning and its end, receives exactly what it took *)
(* from its own chain, and fails only when its chain is removed.           *)
THEOREM PromiseKept == Spec => KeepsPromise
<1>1. Inv /\ [Next]_vars => [Promise!Next]_Promise!promiseVars
  BY PromiseStep
<1>. QED
  BY <1>1, InvAlways, PromiseInit, PTL DEF Spec, KeepsPromise, Promise!Spec
=============================================================================
