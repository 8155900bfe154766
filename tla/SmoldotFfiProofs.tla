--------------------------- MODULE SmoldotFfiProofs ---------------------------
(***************************************************************************)
(* That the invariants of the C interface hold for any number of clients,  *)
(* calls and chains and any width of the integers: the types with the      *)
(* statement configurations first, then the handles, the runtimes that are *)
(* overtaken, and last who owns which block of memory.                     *)
(***************************************************************************)
EXTENDS SmoldotFfi, TLAPS

-----------------------------------------------------------------------------
(* build_statement_config gives StatementProtocolConfig::new only what its *)
(* assertions accept, whatever numbers Dart passes.                        *)
LEMMA ConfigValid ==
    ASSUME NEW json, Accepts(json)
    PROVE  Config(json) \in ValidConfig
<1> DEFINE d == WithDefaults(json)
<1>1. d = [maxSeen |-> d.maxSeen, rate |-> d.rate, interval |-> d.interval]
  BY DEF WithDefaults
<1>2. Config(json) = [maxSeen |-> ToUsize(d.maxSeen), rate |-> d.rate, interval |-> d.interval]
  BY <1>1 DEF Config
<1> HIDE DEF d
<1>3. /\ d.maxSeen \in 0..U64Max /\ d.interval \in 0..U64Max
      /\ ToUsize(d.maxSeen) # 0 /\ d.rate = "inside" /\ d.interval # 0
  BY <1>2 DEF Accepts, Parses, d
<1>4. ToUsize(d.maxSeen) \in 1..UsizeMax
  BY <1>3, WidthAssumption DEF ToUsize
<1> QED BY <1>2, <1>3, <1>4, WidthAssumption DEF ValidConfig

LEMMA FrameTypes ==
    ASSUME TypeOK, NEW c \in Clients, frame[c].at # "idle"
    PROVE  frame[c] \in Frames /\ frame[c] # Idle
BY DEF TypeOK, Idle

LEMMA CallFrames ==
    ASSUME NEW op \in {"init", "version", "add", "next", "send", "remove", "destroy"}
    PROVE  Call(op) \in Frames /\ Call(op).at = "native" /\ Call(op).op = op
BY BoundsAssumption DEF Call, Frames

LEMMA InitInv == Init => Inv
<1> SUFFICES ASSUME Init PROVE Inv OBVIOUS
<1>1. TypeOK
  <2>1. DOMAIN CHAINS = {} /\ CHAINS = [h \in {} |-> 0] BY DEF Init
  <2>2. CHAINS \in [DOMAIN CHAINS -> [chain : 1..MaxCalls, client : Clients]] BY <2>1
  <2> QED BY <2>1, <2>2, BoundsAssumption DEF Init, TypeOK
<1>2. HandlesInv BY DEF Init, HandlesInv
<1>3. AddsInv BY DEF Init, AddsInv, AbortsOnlyByAdd
<1>4. StringsOwned BY DEF Init, StringsOwned, Needed, Held, Unread, Idle
<1>5. CallersInv /\ LockInv /\ QuietOnceDestroyed
  BY NoneAssumption DEF Init, CallersInv, LockInv, QuietOnceDestroyed, Destroyed, Idle
<1> QED BY <1>1, <1>2, <1>3, <1>4, <1>5 DEF Inv

-----------------------------------------------------------------------------
(* The types, action by action.                                            *)

LEMMA EnterTypes ==
    ASSUME TypeOK, NEW c \in Clients, NEW call \in Frames, Enter(c, call)
    PROVE  /\ frame' \in [Clients -> Frames \cup {Idle}]
           /\ UNCHANGED <<CLIENTS, clientsLock, CHAINS, nextHandle, tasks, inbox, aborted>>
BY DEF TypeOK, Enter

LEMMA CallsTypes ==
    ASSUME Inv, NEW c \in Clients, CallsBack(c) \/ Calls(c)
    PROVE  TypeOK'
<1>0. TypeOK BY DEF Inv
<1>1. nextCall \in 1..(MaxCalls + 1) /\ known \subseteq Known /\ None \notin Clients
  BY <1>0, NoneAssumption DEF TypeOK
<1>2. CASE CallsBack(c)
  <2>0. nextCall <= MaxCalls /\ nextCall' = nextCall + 1 /\ UNCHANGED dartVars
    BY <1>2 DEF CallsBack
  <2>1. nextCall \in 1..MaxCalls /\ nextCall' \in 1..(MaxCalls + 1)
    BY <1>1, <2>0, BoundsAssumption
  <2>2. PICK call \in Frames : Enter(c, call)
    <3>1. CASE \E relay \in {k \in known : k.client = c} \cup {None},
                  json \in StatementJson \cup {None} :
                   Enter(c, [Call("add") EXCEPT !.call = nextCall, !.relay = relay, !.json = json])
      <4>1. PICK relay \in {k \in known : k.client = c} \cup {None},
                 json \in StatementJson \cup {None} :
                   Enter(c, [Call("add") EXCEPT !.call = nextCall, !.relay = relay, !.json = json])
        BY <3>1
      <4>2. [Call("add") EXCEPT !.call = nextCall, !.relay = relay, !.json = json] \in Frames
        <5>1. relay \in Known \cup {None} /\ json \in StatementJson \cup {None} BY <1>1
        <5>2. nextCall \in 0..MaxCalls BY <2>1, BoundsAssumption
        <5> QED BY <5>1, <5>2, CallFrames DEF Frames
      <4> QED BY <4>1, <4>2
    <3>2. CASE \E h \in OwnHandles(c) \cap listed :
                   Enter(c, [Call("next") EXCEPT !.call = nextCall, !.handle = h])
      <4>1. PICK h \in OwnHandles(c) \cap listed :
                   Enter(c, [Call("next") EXCEPT !.call = nextCall, !.handle = h])
        BY <3>2
      <4>2. h \in Nat BY <1>1 DEF OwnHandles, Known
      <4>3. nextCall \in 0..MaxCalls BY <2>1, BoundsAssumption
      <4>4. [Call("next") EXCEPT !.call = nextCall, !.handle = h] \in Frames
        BY <4>2, <4>3, CallFrames DEF Frames
      <4> QED BY <4>1, <4>4
    <3> QED BY <1>2, <3>1, <3>2 DEF CallsBack
  <2> QED BY <1>0, <2>0, <2>1, <2>2, EnterTypes DEF TypeOK, dartVars
<1>3. CASE Calls(c)
  <2>1. UNCHANGED <<nextCall, client, known>> /\ listed' \subseteq listed
    BY <1>3 DEF Calls, dartVars
  <2>2. PICK call \in Frames : Enter(c, call)
    <3>1. ASSUME NEW h \in OwnHandles(c) \cap listed, NEW op \in {"send", "remove"}
          PROVE  [Call(op) EXCEPT !.handle = h] \in Frames
      <4>1. h \in Nat BY <1>1 DEF OwnHandles, Known
      <4> QED BY <4>1, CallFrames DEF Frames
    <3> QED BY <1>3, <3>1, CallFrames DEF Calls
  <2> QED BY <1>0, <2>1, <2>2, EnterTypes DEF TypeOK
<1> QED BY <1>2, <1>3

LEMMA ReturnTypes ==
    ASSUME TypeOK, NEW c \in Clients, NEW failed \in BOOLEAN, frame[c].at # "idle",
           Return(c, failed)
    PROVE  frame' \in [Clients -> Frames \cup {Idle}] /\ UNCHANGED <<client, known, listed>>
<1>1. frame[c] \in Frames BY FrameTypes
<1>2. [frame[c] EXCEPT !.at = "returned", !.failed = failed] \in Frames BY <1>1 DEF Frames
<1>3. frame' = [frame EXCEPT ![c] = [frame[c] EXCEPT !.at = "returned", !.failed = failed]]
  BY DEF Return, TypeOK
<1> QED BY <1>2, <1>3 DEF TypeOK, Return, dartVars

LEMMA DartTypes ==
    ASSUME TypeOK, NEW c \in Clients, Leave(c) \/ Deliver(c)
    PROVE  TypeOK'
<1>1. CASE Leave(c)
  <2>1. client' \in [Clients -> {"new", "ready", "gone"}] BY <1>1 DEF Leave, TypeOK
  <2>2. frame' \in [Clients -> Frames \cup {Idle}] BY <1>1 DEF Leave, TypeOK
  <2>3. listed' \subseteq listed BY <1>1 DEF Leave
  <2>4. inbox' \in [Clients -> Seq(Messages)] BY <1>1 DEF Leave, TypeOK
  <2> QED BY <1>1, <2>1, <2>2, <2>3, <2>4 DEF Leave, TypeOK
<1>2. CASE Deliver(c)
  <2>1. inbox[c] \in Seq(Messages) /\ inbox[c] # <<>> BY <1>2 DEF Deliver, TypeOK
  <2>2. Head(inbox[c]) \in Messages /\ Tail(inbox[c]) \in Seq(Messages) BY <2>1
  <2>3. inbox' \in [Clients -> Seq(Messages)] BY <1>2, <2>2 DEF Deliver, TypeOK
  <2>4. known' \subseteq Known /\ listed' \subseteq {k.handle : k \in known'}
    <3>1. CASE Head(inbox[c]).handle = 0 BY <1>2, <3>1 DEF Deliver, TypeOK
    <3>2. CASE Head(inbox[c]).handle # 0
      <4> DEFINE k == [client |-> c, handle |-> Head(inbox[c]).handle,
                       chain |-> Head(inbox[c]).call]
      <4>1. k \in Known /\ k.handle = Head(inbox[c]).handle
        BY <2>2, <3>2 DEF Known, Messages
      <4>2. known' = known \cup {k} /\ listed' = listed \cup {k.handle}
        BY <1>2, <3>2 DEF Deliver
      <4> HIDE DEF k
      <4> QED BY <4>1, <4>2 DEF TypeOK
    <3> QED BY <3>1, <3>2
  <2> QED BY <1>2, <2>3, <2>4 DEF Deliver, TypeOK
<1> QED BY <1>1, <1>2

(* Every exported function but smoldot_client_destroy returns in one step, *)
(* and touches at most one of the library's variables.                     *)
LEMMA NativeTypes ==
    ASSUME Inv, NEW c \in Clients, Native(c)
    PROVE  TypeOK'
<1>0. TypeOK BY DEF Inv
<1> DEFINE f == frame[c]
<1>1. ASSUME f.at # "idle"
      PROVE  f \in Frames /\ f # Idle
  BY <1>0, <1>1, FrameTypes
<1>2. CASE NativeInit(c)
  <2>1. PICK failed \in BOOLEAN : Return(c, failed) /\ CLIENTS' \subseteq CLIENTS \cup {c}
    BY <1>2 DEF NativeInit
  <2>2. frame[c].at # "idle" BY <1>2 DEF NativeInit, In
  <2> QED BY <1>0, <1>2, <2>1, <2>2, ReturnTypes DEF NativeInit, TypeOK
<1>3. CASE NativeVersion(c)
  <2>1. frame[c].at # "idle" BY <1>3 DEF NativeVersion, In
  <2> QED BY <1>0, <1>3, <2>1, ReturnTypes DEF NativeVersion, TypeOK
<1>4. CASE NativeAdd(c)
  <2>1. f.at # "idle" /\ f.op = "add" /\ UNCHANGED <<CLIENTS, clientsLock, CHAINS, nextHandle,
                                                  nextCall, inbox, aborted>>
    BY <1>4 DEF NativeAdd, In
  <2>2. PICK failed \in BOOLEAN : Return(c, failed) BY <1>4 DEF NativeAdd
  <2>3. tasks' \subseteq AddTasks \cup NextTasks
    <3>1. CASE c \in CLIENTS /\ (f.json # None => Accepts(f.json))
      <4> DEFINE given == IF f.relay # None /\ f.relay.handle \in DOMAIN CHAINS
                          THEN CHAINS[f.relay.handle].chain ELSE 0
                 config == IF f.json = None THEN None ELSE Config(f.json)
                 t == [kind |-> "add", client |-> c, call |-> f.call, handle |-> 0,
                       step |-> "running", asked |-> f.relay, given |-> given,
                       config |-> config]
      <4>1. given \in 0..MaxCalls
        <5>1. CASE f.relay # None /\ f.relay.handle \in DOMAIN CHAINS
          <6>1. CHAINS[f.relay.handle] \in [chain : 1..MaxCalls, client : Clients]
            BY <1>0, <5>1 DEF TypeOK
          <6> QED BY <6>1, <5>1, BoundsAssumption
        <5>2. CASE ~(f.relay # None /\ f.relay.handle \in DOMAIN CHAINS)
          BY <5>2, BoundsAssumption
        <5> QED BY <5>1, <5>2
      <4>2. config \in ValidConfig \cup {None} BY <3>1, ConfigValid
      <4>3. f.call \in 1..MaxCalls /\ f.relay \in Known \cup {None}
        <5>1. f.call \in 0..MaxCalls /\ f.relay \in Known \cup {None} BY <1>1, <2>1 DEF Frames
        <5>2. f.call # 0 BY <1>1, <2>1 DEF Inv, HandlesInv
        <5> QED BY <5>1, <5>2, BoundsAssumption
      <4>4. tasks' = tasks \cup {t} BY <1>4, <3>1 DEF NativeAdd
      <4> HIDE DEF given, config, f
      <4>5. t \in AddTasks BY <4>1, <4>2, <4>3 DEF AddTasks
      <4> QED BY <1>0, <4>4, <4>5 DEF TypeOK
    <3>2. CASE ~(c \in CLIENTS /\ (f.json # None => Accepts(f.json)))
      BY <1>0, <1>4, <3>2 DEF NativeAdd, TypeOK
    <3> QED BY <3>1, <3>2
  <2> QED BY <1>0, <2>1, <2>2, <2>3, ReturnTypes DEF TypeOK
<1>5. CASE NativeSend(c)
  <2>1. frame[c].at # "idle" BY <1>5 DEF NativeSend, In
  <2> QED BY <1>0, <1>5, <2>1, ReturnTypes DEF NativeSend, TypeOK
<1>6. CASE NativeNext(c)
  <2>1. f.at # "idle" /\ f.op = "next" /\ UNCHANGED <<CLIENTS, clientsLock, CHAINS, nextHandle,
                                                   nextCall, inbox, aborted>>
    BY <1>6 DEF NativeNext, In
  <2>2. PICK failed \in BOOLEAN : Return(c, failed) BY <1>6 DEF NativeNext, Found
  <2>3. tasks' \subseteq AddTasks \cup NextTasks
    <3>1. f.call \in 1..MaxCalls
      <4>1. f.call \in 0..MaxCalls BY <1>1, <2>1 DEF Frames
      <4>2. f.call # 0 BY <1>1, <2>1 DEF Inv, HandlesInv
      <4> QED BY <4>1, <4>2, BoundsAssumption
    <3>2. [kind |-> "next", client |-> c, call |-> f.call, handle |-> 0, step |-> "running"]
             \in NextTasks
      BY <3>1 DEF NextTasks
    <3> QED BY <1>0, <1>6, <3>2 DEF NativeNext, TypeOK
  <2> QED BY <1>0, <2>1, <2>2, <2>3, ReturnTypes DEF TypeOK
<1>7. CASE NativeRemove(c)
  <2>1. frame[c].at # "idle" BY <1>7 DEF NativeRemove, In
  <2>2. PICK failed \in BOOLEAN : Return(c, failed) BY <1>7 DEF NativeRemove, Found
  <2>3. /\ DOMAIN CHAINS' \subseteq 1..(nextHandle - 1)
        /\ CHAINS' \in [DOMAIN CHAINS' -> [chain : 1..MaxCalls, client : Clients]]
    BY <1>0, <1>7 DEF NativeRemove, TypeOK
  <2> QED BY <1>0, <1>7, <2>1, <2>2, <2>3, ReturnTypes DEF NativeRemove, TypeOK
<1>8. CASE DestroyChains(c)
  <2>1. f \in Frames BY <1>1, <1>8 DEF DestroyChains, In
  <2>2. [f EXCEPT !.at = "unlisted"] \in Frames BY <2>1 DEF Frames
  <2>3. frame' \in [Clients -> Frames \cup {Idle}]
    BY <1>0, <1>8, <2>2 DEF DestroyChains, TypeOK
  <2>4. /\ DOMAIN CHAINS' \subseteq 1..(nextHandle - 1)
        /\ CHAINS' \in [DOMAIN CHAINS' -> [chain : 1..MaxCalls, client : Clients]]
    BY <1>0, <1>8 DEF DestroyChains, TypeOK
  <2> QED BY <1>0, <1>8, <2>3, <2>4 DEF DestroyChains, dartVars, TypeOK
<1>9. CASE DestroyClient(c)
  <2>1. /\ CLIENTS' \subseteq CLIENTS /\ clientsLock' \in {clientsLock, c}
        /\ UNCHANGED <<CHAINS, nextHandle, nextCall, tasks, inbox, aborted>>
    BY <1>9 DEF DestroyClient
  <2>2. f.at # "idle" BY <1>9 DEF DestroyClient
  <2>3. frame' \in [Clients -> Frames \cup {Idle}] /\ UNCHANGED <<client, known, listed>>
    <3>1. CASE c \notin CLIENTS \/ Holders(c) # {}
      BY <1>0, <1>9, <2>2, <3>1, ReturnTypes DEF DestroyClient
    <3>2. CASE ~(c \notin CLIENTS \/ Holders(c) # {})
      <4>1. [f EXCEPT !.at = "dropping"] \in Frames BY <1>1, <2>2 DEF Frames
      <4> QED BY <1>0, <1>9, <3>2, <4>1 DEF DestroyClient, TypeOK, dartVars
    <3> QED BY <3>1, <3>2
  <2> QED BY <1>0, <2>1, <2>3 DEF TypeOK
<1>10. CASE DestroyRuntime(c)
  <2>1. f.at # "idle" BY <1>10 DEF DestroyRuntime
  <2> QED BY <1>0, <1>10, <2>1, ReturnTypes DEF DestroyRuntime, TypeOK
<1> QED BY <1>2, <1>3, <1>4, <1>5, <1>6, <1>7, <1>8, <1>9, <1>10 DEF Native

LEMMA RunTypes ==
    ASSUME Inv, NEW t \in tasks, AddSucceeds(t) \/ GetsString(t) \/ CallsDart(t) \/ Ends(t)
    PROVE  TypeOK'
<1>0. TypeOK /\ t \in AddTasks \cup NextTasks BY DEF Inv, TypeOK
<1>1. t.client \in Clients /\ t.call \in 1..MaxCalls /\ t.handle \in Nat
  BY <1>0 DEF AddTasks, NextTasks
<1>2. ASSUME NEW s \in {"running", "done", "called"}
      PROVE  [t EXCEPT !.step = s] \in AddTasks \cup NextTasks
  BY <1>0 DEF AddTasks, NextTasks
<1>3. CASE AddSucceeds(t)
  <2>1. nextHandle \in Nat \ {0} BY <1>0 DEF TypeOK
  <2>2. t \in AddTasks BY <1>0, <1>3 DEF AddSucceeds, NextTasks
  <2>3. [t EXCEPT !.step = "done", !.handle = nextHandle] \in AddTasks
    BY <2>1, <2>2 DEF AddTasks
  <2>4. tasks' \subseteq AddTasks \cup NextTasks
    BY <1>0, <1>3, <2>3 DEF AddSucceeds, generate_chain_handle, TypeOK
  <2>5. /\ DOMAIN CHAINS' \subseteq 1..(nextHandle' - 1)
        /\ CHAINS' \in [DOMAIN CHAINS' -> [chain : 1..MaxCalls, client : Clients]]
    <3>1. CHAINS' = [h \in DOMAIN CHAINS \cup {nextHandle} |->
                        IF h = nextHandle THEN [chain |-> t.call, client |-> t.client]
                                          ELSE CHAINS[h]]
      BY <1>3 DEF AddSucceeds, generate_chain_handle
    <3>2. nextHandle' = nextHandle + 1 BY <1>3 DEF AddSucceeds
    <3>3. [chain |-> t.call, client |-> t.client] \in [chain : 1..MaxCalls, client : Clients]
      BY <1>1
    <3>4. DOMAIN CHAINS \subseteq 1..(nextHandle - 1)
          /\ CHAINS \in [DOMAIN CHAINS -> [chain : 1..MaxCalls, client : Clients]]
      BY <1>0 DEF TypeOK
    <3>5. DOMAIN CHAINS' = DOMAIN CHAINS \cup {nextHandle} BY <3>1
    <3>6. DOMAIN CHAINS' \subseteq 1..(nextHandle' - 1) BY <2>1, <3>2, <3>4, <3>5
    <3> QED BY <3>1, <3>3, <3>4, <3>5, <3>6
  <2> QED BY <1>0, <1>3, <2>1, <2>4, <2>5 DEF AddSucceeds, TypeOK, dartVars
<1>4. CASE GetsString(t)
  BY <1>0, <1>2, <1>4 DEF GetsString, Step, TypeOK, dartVars
<1>5. CASE CallsDart(t)
  <2>1. tasks' \subseteq AddTasks \cup NextTasks
    BY <1>0, <1>2, <1>5 DEF CallsDart, Step, TypeOK
  <2>2. inbox' \in [Clients -> Seq(Messages)]
    <3>1. [call |-> t.call, handle |-> t.handle] \in Messages BY <1>1 DEF Messages
    <3>2. inbox[t.client] \in Seq(Messages) BY <1>0, <1>1 DEF TypeOK
    <3>3. Append(inbox[t.client], [call |-> t.call, handle |-> t.handle]) \in Seq(Messages)
      BY <3>1, <3>2
    <3> QED BY <1>0, <1>5, <3>3 DEF CallsDart, TypeOK
  <2> QED BY <1>0, <1>5, <2>1, <2>2 DEF CallsDart, TypeOK, dartVars
<1>6. CASE Ends(t)
  BY <1>0, <1>1, <1>6 DEF Ends, TypeOK, dartVars
<1> QED BY <1>3, <1>4, <1>5, <1>6

LEMMA TypeStep == Inv /\ [Next]_vars => TypeOK'
<1> SUFFICES ASSUME Inv, [Next]_vars PROVE TypeOK' OBVIOUS
<1>1. CASE UNCHANGED vars BY <1>1 DEF Inv, TypeOK, vars, dartVars
<1>2. CASE Next
  BY <1>2, CallsTypes, DartTypes, NativeTypes, RunTypes DEF Inv, Next, Run
<1> QED BY <1>1, <1>2

-----------------------------------------------------------------------------
(* The handles: CHAINS gets a handle once, in smoldot_add_chain's task.    *)

ChainsStep ==
    /\ nextHandle <= nextHandle'
    /\ \A h \in Nat : h < nextHandle /\ h \in DOMAIN CHAINS' =>
           h \in DOMAIN CHAINS /\ CHAINS'[h] = CHAINS[h]

LEMMA ChainsKept ==
    ASSUME Inv, [Next]_vars
    PROVE  ChainsStep
<1>0. nextHandle \in Nat BY DEF Inv, TypeOK
<1>1. CASE UNCHANGED <<CHAINS, nextHandle>> BY <1>0, <1>1 DEF ChainsStep
<1>2. ASSUME NEW t \in tasks, AddSucceeds(t)
      PROVE  ChainsStep
  BY <1>0, <1>2 DEF AddSucceeds, generate_chain_handle, ChainsStep
<1>3. ASSUME NEW c \in Clients, NativeRemove(c) \/ DestroyChains(c)
      PROVE  ChainsStep
  BY <1>0, <1>3 DEF NativeRemove, DestroyChains, ChainsStep
<1>4. ASSUME NEW c \in Clients,
             CallsBack(c) \/ Calls(c) \/ Leave(c) \/ Deliver(c) \/ NativeInit(c)
               \/ NativeVersion(c) \/ NativeAdd(c) \/ NativeSend(c) \/ NativeNext(c)
               \/ DestroyClient(c) \/ DestroyRuntime(c)
      PROVE  UNCHANGED <<CHAINS, nextHandle>>
  BY <1>4 DEF CallsBack, Calls, Enter, Leave, Deliver, NativeInit, NativeVersion, NativeAdd,
       NativeSend, NativeNext, DestroyClient, DestroyRuntime
<1>5. ASSUME NEW t \in tasks, GetsString(t) \/ CallsDart(t) \/ Ends(t)
      PROVE  UNCHANGED <<CHAINS, nextHandle>>
  BY <1>5 DEF GetsString, CallsDart, Ends
<1>6. CASE UNCHANGED vars BY <1>1, <1>6 DEF vars
<1> QED BY <1>1, <1>2, <1>3, <1>4, <1>5, <1>6 DEF Next, Native, Run

(* What agrees with CHAINS goes on doing so.                               *)
LEMMA AgreesOn ==
    ASSUME Inv, TypeOK', ChainsStep, NEW handle \in Nat, NEW chain, Agrees(handle, chain)
    PROVE  Agrees(handle, chain)'
BY DEF Inv, TypeOK, ChainsStep, Agrees

(* A frame comes from Enter, from Return, or keeps its call.               *)
FrameKept(c) ==
    frame'[c] # Idle =>
        \/ /\ frame[c] # Idle
           /\ frame'[c].relay = frame[c].relay
           /\ frame'[c].op = frame[c].op /\ frame'[c].call = frame[c].call
        \/ /\ frame'[c].relay \in known \cup {None}
           /\ frame'[c].op \in {"add", "next"} => frame'[c].call # 0

LEMMA ReturnKeeps ==
    ASSUME TypeOK, NEW c \in Clients, NEW failed \in BOOLEAN, frame[c].at # "idle",
           Return(c, failed), NEW d \in Clients
    PROVE  FrameKept(d)
<1>1. frame[c] \in Frames BY FrameTypes
<1>2. frame' = [frame EXCEPT ![c] = [frame[c] EXCEPT !.at = "returned", !.failed = failed]]
  BY DEF Return, TypeOK
<1>3. frame \in [Clients -> Frames \cup {Idle}] BY DEF TypeOK
<1>4. CASE d = c
  <2>1. frame'[c] = [frame[c] EXCEPT !.at = "returned", !.failed = failed] BY <1>2, <1>3
  <2>2. /\ frame'[c].relay = frame[c].relay
        /\ frame'[c].op = frame[c].op /\ frame'[c].call = frame[c].call
    BY <1>1, <2>1 DEF Frames
  <2> QED BY <1>4, <2>2, FrameTypes DEF FrameKept
<1>5. CASE d # c BY <1>2, <1>3, <1>5 DEF FrameKept
<1> QED BY <1>4, <1>5

LEMMA AtKeeps ==
    ASSUME TypeOK, NEW c \in Clients, frame[c].at # "idle", NEW at,
           frame' = [frame EXCEPT ![c].at = at], NEW d \in Clients
    PROVE  FrameKept(d)
<1>1. frame[c] \in Frames BY FrameTypes
<1>2. frame' = [frame EXCEPT ![c] = [frame[c] EXCEPT !.at = at]] BY DEF TypeOK
<1>3. frame \in [Clients -> Frames \cup {Idle}] BY DEF TypeOK
<1>4. CASE d = c
  <2>1. frame'[c] = [frame[c] EXCEPT !.at = at] BY <1>2, <1>3
  <2>2. /\ frame'[c].relay = frame[c].relay
        /\ frame'[c].op = frame[c].op /\ frame'[c].call = frame[c].call
    BY <1>1, <2>1 DEF Frames
  <2> QED BY <1>4, <2>2, FrameTypes DEF FrameKept
<1>5. CASE d # c BY <1>2, <1>3, <1>5 DEF FrameKept
<1> QED BY <1>4, <1>5

LEMMA EnterKeeps ==
    ASSUME TypeOK, NEW c \in Clients, NEW call, Enter(c, call), call.relay \in known \cup {None},
           call.op \in {"add", "next"} => call.call # 0, NEW d \in Clients
    PROVE  FrameKept(d)
BY DEF Enter, TypeOK, FrameKept

LEMMA FramesKept ==
    ASSUME Inv, [Next]_vars, NEW d \in Clients
    PROVE  FrameKept(d)
<1>0. TypeOK BY DEF Inv
<1>1. CASE UNCHANGED frame BY <1>1 DEF FrameKept
<1>2. ASSUME NEW c \in Clients, CallsBack(c)
      PROVE  FrameKept(d)
  <2>1. CASE \E relay \in {k \in known : k.client = c} \cup {None},
                json \in StatementJson \cup {None} :
                 Enter(c, [Call("add") EXCEPT !.call = nextCall, !.relay = relay, !.json = json])
    <3>1. PICK relay \in {k \in known : k.client = c} \cup {None},
               json \in StatementJson \cup {None} :
                 Enter(c, [Call("add") EXCEPT !.call = nextCall, !.relay = relay, !.json = json])
      BY <2>1
    <3> DEFINE call == [Call("add") EXCEPT !.call = nextCall, !.relay = relay, !.json = json]
    <3>2. call.relay = relay /\ call.call = nextCall BY DEF Call
    <3>3. nextCall # 0 BY <1>0, BoundsAssumption DEF TypeOK
    <3>4. Enter(c, call) BY <3>1
    <3> HIDE DEF call
    <3> QED BY <1>0, <3>2, <3>3, <3>4, EnterKeeps
  <2>2. CASE \E h \in OwnHandles(c) \cap listed :
                 Enter(c, [Call("next") EXCEPT !.call = nextCall, !.handle = h])
    <3>1. PICK h \in OwnHandles(c) \cap listed :
                 Enter(c, [Call("next") EXCEPT !.call = nextCall, !.handle = h])
      BY <2>2
    <3> DEFINE call == [Call("next") EXCEPT !.call = nextCall, !.handle = h]
    <3>2. call.relay = None /\ call.call = nextCall BY DEF Call
    <3>3. nextCall # 0 BY <1>0, BoundsAssumption DEF TypeOK
    <3>4. Enter(c, call) BY <3>1
    <3> HIDE DEF call
    <3> QED BY <1>0, <3>2, <3>3, <3>4, EnterKeeps
  <2> QED BY <1>2, <2>1, <2>2 DEF CallsBack
<1>3. ASSUME NEW c \in Clients, Calls(c)
      PROVE  FrameKept(d)
  <2>1. ASSUME NEW op, op \notin {"add", "next"}, Enter(c, Call(op))
        PROVE  FrameKept(d)
    <3>1. Call(op).relay = None /\ Call(op).op = op BY DEF Call
    <3> QED BY <1>0, <2>1, <3>1, EnterKeeps
  <2>2. ASSUME NEW op, op \notin {"add", "next"}, NEW h, Enter(c, [Call(op) EXCEPT !.handle = h])
        PROVE  FrameKept(d)
    <3> DEFINE call == [Call(op) EXCEPT !.handle = h]
    <3>1. call.relay = None /\ call.op = op BY DEF Call
    <3>2. Enter(c, call) BY <2>2
    <3> HIDE DEF call
    <3> QED BY <1>0, <2>2, <3>1, <3>2, EnterKeeps
  <2> QED BY <1>3, <2>1, <2>2 DEF Calls
<1>4. ASSUME NEW c \in Clients, Leave(c)
      PROVE  FrameKept(d)
  BY <1>0, <1>4 DEF Leave, TypeOK, FrameKept
<1>5. ASSUME NEW c \in Clients,
             NativeInit(c) \/ NativeVersion(c) \/ NativeAdd(c) \/ NativeSend(c)
               \/ NativeNext(c) \/ NativeRemove(c) \/ DestroyRuntime(c)
      PROVE  FrameKept(d)
  <2>1. frame[c].at # "idle"
    BY <1>5 DEF NativeInit, NativeVersion, NativeAdd, NativeSend, NativeNext, NativeRemove,
         DestroyRuntime, In
  <2>2. PICK failed \in BOOLEAN : Return(c, failed)
    BY <1>5 DEF NativeInit, NativeVersion, NativeAdd, NativeSend, NativeNext, NativeRemove,
         DestroyRuntime, Found
  <2> QED BY <1>0, <2>1, <2>2, ReturnKeeps
<1>6. ASSUME NEW c \in Clients, DestroyChains(c)
      PROVE  FrameKept(d)
  BY <1>0, <1>6, AtKeeps DEF DestroyChains, In
<1>7. ASSUME NEW c \in Clients, DestroyClient(c)
      PROVE  FrameKept(d)
  <2>1. frame[c].at # "idle" BY <1>7 DEF DestroyClient
  <2>2. CASE c \notin CLIENTS \/ Holders(c) # {}
    BY <1>0, <1>7, <2>1, <2>2, ReturnKeeps DEF DestroyClient
  <2>3. CASE ~(c \notin CLIENTS \/ Holders(c) # {})
    BY <1>0, <1>7, <2>1, <2>3, AtKeeps DEF DestroyClient
  <2> QED BY <2>2, <2>3
<1>8. ASSUME NEW c \in Clients, Deliver(c)
      PROVE  UNCHANGED frame
  BY <1>8 DEF Deliver
<1>9. ASSUME NEW t \in tasks, AddSucceeds(t) \/ GetsString(t) \/ CallsDart(t) \/ Ends(t)
      PROVE  UNCHANGED frame
  BY <1>9 DEF AddSucceeds, GetsString, CallsDart, Ends
<1>10. CASE UNCHANGED vars BY <1>1, <1>10 DEF vars
<1> QED BY <1>1, <1>2, <1>3, <1>4, <1>5, <1>6, <1>7, <1>8, <1>9, <1>10 DEF Next, Native, Run

(* A task is one that was there, further on, or a new one of the thread c. *)
LEMMA TasksFrom ==
    ASSUME Inv, [Next]_vars, NEW u \in tasks'
    PROVE  \/ \E t \in tasks : /\ u.kind = t.kind /\ u.client = t.client /\ u.call = t.call
                               /\ t.kind = "add" => u.given = t.given /\ u.asked = t.asked
                               /\ \/ u.handle = t.handle
                                  \/ t.kind = "add" /\ AddSucceeds(t) /\ u.handle = nextHandle
           \/ /\ u.handle = 0
              /\ u.kind = "add" => /\ u.client \in CLIENTS /\ UNCHANGED CLIENTS
                                   /\ u.given # 0 => u.given = u.asked.chain
<1>0. TypeOK BY DEF Inv
<1>1. CASE u \in tasks BY <1>1
<1>2. ASSUME NEW c \in Clients, NativeAdd(c), u \notin tasks
      PROVE  /\ u.handle = 0 /\ u.kind = "add" /\ u.client \in CLIENTS /\ UNCHANGED CLIENTS
             /\ u.given # 0 => u.given = u.asked.chain
  <2> DEFINE relay == frame[c].relay
             given == IF relay # None /\ relay.handle \in DOMAIN CHAINS
                      THEN CHAINS[relay.handle].chain ELSE 0
             config == IF frame[c].json = None THEN None ELSE Config(frame[c].json)
  <2>1. c \in CLIENTS /\ UNCHANGED CLIENTS BY <1>2 DEF NativeAdd
  <2>2. tasks' = tasks \cup {[kind |-> "add", client |-> c, call |-> frame[c].call,
                              handle |-> 0, step |-> "running", asked |-> relay,
                              given |-> given, config |-> config]}
    BY <1>2 DEF NativeAdd
  <2>3. u.handle = 0 /\ u.kind = "add" /\ u.client = c /\ u.given = given /\ u.asked = relay
    <3> HIDE DEF relay, given, config
    <3> QED BY <1>2, <2>2
  <2>4. relay \in known \cup {None}
    <3>1. frame[c] # Idle BY <1>0, <1>2, FrameTypes DEF NativeAdd, In, Idle
    <3> QED BY <3>1 DEF Inv, HandlesInv
  <2>5. given # 0 => given = relay.chain
    <3>1. SUFFICES ASSUME relay # None, relay.handle \in DOMAIN CHAINS
                   PROVE  CHAINS[relay.handle].chain = relay.chain
      OBVIOUS
    <3>2. Agrees(relay.handle, relay.chain) BY <2>4, <3>1 DEF Inv, HandlesInv
    <3> QED BY <3>1, <3>2 DEF Agrees
  <2> QED BY <2>1, <2>3, <2>5
<1>3. ASSUME NEW c \in Clients, NativeNext(c), u \notin tasks
      PROVE  u.handle = 0 /\ u.kind = "next"
  BY <1>3 DEF NativeNext
<1>4. ASSUME NEW t \in tasks, GetsString(t) \/ CallsDart(t), u \notin tasks
      PROVE  /\ u.kind = t.kind /\ u.client = t.client /\ u.call = t.call /\ u.handle = t.handle
             /\ t.kind = "add" => u.given = t.given /\ u.asked = t.asked
  <2>1. PICK s \in {"done", "called"} : u = [t EXCEPT !.step = s]
    BY <1>4 DEF GetsString, CallsDart, Step
  <2>2. t \in AddTasks \cup NextTasks BY <1>0 DEF TypeOK
  <2> QED BY <2>1, <2>2 DEF AddTasks, NextTasks
<1>5. ASSUME NEW t \in tasks, AddSucceeds(t), u \notin tasks
      PROVE  /\ t.kind = "add" /\ u.handle = nextHandle
             /\ u.kind = t.kind /\ u.client = t.client /\ u.call = t.call
             /\ u.given = t.given /\ u.asked = t.asked
  <2>1. u = [t EXCEPT !.step = "done", !.handle = nextHandle]
    BY <1>5 DEF AddSucceeds, generate_chain_handle
  <2>2. t \in AddTasks BY <1>0, <1>5 DEF TypeOK, AddSucceeds, NextTasks
  <2> QED BY <2>1, <2>2 DEF AddTasks
<1>6. ASSUME NEW c \in Clients,
             CallsBack(c) \/ Calls(c) \/ Leave(c) \/ Deliver(c) \/ NativeInit(c)
               \/ NativeVersion(c) \/ NativeSend(c) \/ NativeRemove(c) \/ DestroyChains(c)
               \/ DestroyClient(c) \/ DestroyRuntime(c)
      PROVE  u \in tasks
  BY <1>6 DEF CallsBack, Calls, Enter, Leave, Deliver, NativeInit, NativeVersion, NativeSend,
       NativeRemove, DestroyChains, DestroyClient, DestroyRuntime
<1>7. ASSUME NEW t \in tasks, Ends(t)
      PROVE  u \in tasks
  BY <1>7 DEF Ends
<1>8. CASE UNCHANGED vars BY <1>1, <1>8 DEF vars
<1>9. CASE Next /\ u \notin tasks
  <2>1. CASE \E c \in Clients : NativeAdd(c) BY <1>2, <1>9, <2>1
  <2>2. CASE \E c \in Clients : NativeNext(c) BY <1>3, <1>9, <2>2
  <2>3. CASE \E t \in tasks : GetsString(t) \/ CallsDart(t) BY <1>4, <1>9, <2>3
  <2>4. CASE \E t \in tasks : AddSucceeds(t) BY <1>5, <1>9, <2>4
  <2> QED BY <1>6, <1>7, <1>9, <2>1, <2>2, <2>3, <2>4 DEF Next, Native, Run
<1> QED BY <1>1, <1>8, <1>9

LEMMA HandlesStep ==
    ASSUME Inv, [Next]_vars
    PROVE  HandlesInv'
<1>0. TypeOK /\ HandlesInv /\ TypeOK' BY TypeStep DEF Inv
<1>1. ChainsStep BY ChainsKept
<1>2. \A k \in known' : Agrees(k.handle, k.chain)'
  <2>1. ASSUME NEW k \in known
        PROVE  Agrees(k.handle, k.chain)'
    <3>1. Agrees(k.handle, k.chain) /\ k.handle \in Nat
      BY <1>0 DEF HandlesInv, TypeOK, Known
    <3> QED BY <1>0, <1>1, <3>1, AgreesOn
  <2>2. ASSUME NEW c \in Clients, Deliver(c), NEW k \in known', k \notin known
        PROVE  Agrees(k.handle, k.chain)'
    <3> DEFINE m == inbox[c][1]
    <3>1. inbox[c] \in Seq(Messages) /\ inbox[c] # <<>> BY <1>0, <2>2 DEF Deliver, TypeOK
    <3>2. 1 \in DOMAIN inbox[c] /\ m = Head(inbox[c]) /\ m \in Messages BY <3>1
    <3>3. m.handle # 0 /\ k.handle = m.handle /\ k.chain = m.call BY <2>2, <3>2 DEF Deliver
    <3>4. Agrees(k.handle, k.chain) BY <1>0, <3>2, <3>3 DEF HandlesInv
    <3>5. k.handle \in Nat BY <3>2, <3>3 DEF Messages
    <3> QED BY <1>0, <1>1, <3>4, <3>5, AgreesOn
  <2>3. ASSUME NEW c \in Clients, CallsBack(c) \/ Calls(c) \/ Leave(c) \/ Native(c)
        PROVE  UNCHANGED known
    BY <2>3 DEF CallsBack, Calls, Leave, Native, NativeInit, NativeVersion, NativeAdd,
         NativeSend, NativeNext, NativeRemove, DestroyChains, DestroyClient, DestroyRuntime,
         Return, dartVars
  <2>4. ASSUME Run PROVE UNCHANGED known
    BY <2>4 DEF Run, AddSucceeds, GetsString, CallsDart, Ends, dartVars
  <2> QED BY <2>1, <2>2, <2>3, <2>4 DEF Next, vars, dartVars
<1>3. known \subseteq known'
  <2>1. ASSUME NEW c \in Clients, Deliver(c) PROVE known \subseteq known'
    BY <2>1 DEF Deliver
  <2>2. ASSUME NEW c \in Clients, CallsBack(c) \/ Calls(c) \/ Leave(c) \/ Native(c)
        PROVE  UNCHANGED known
    BY <2>2 DEF CallsBack, Calls, Leave, Native, NativeInit, NativeVersion, NativeAdd,
         NativeSend, NativeNext, NativeRemove, DestroyChains, DestroyClient, DestroyRuntime,
         Return, dartVars
  <2>3. ASSUME Run PROVE UNCHANGED known
    BY <2>3 DEF Run, AddSucceeds, GetsString, CallsDart, Ends, dartVars
  <2> QED BY <2>1, <2>2, <2>3 DEF Next, vars, dartVars
<1>4. ASSUME NEW u \in tasks', u.handle # 0
      PROVE  Agrees(u.handle, u.call)'
  <2>1. CASE \E t \in tasks : u.call = t.call /\ u.handle = t.handle
    <3>1. PICK t \in tasks : u.call = t.call /\ u.handle = t.handle BY <2>1
    <3>2. Agrees(t.handle, t.call) /\ t.handle \in Nat
      BY <1>0, <1>4, <3>1 DEF HandlesInv, TypeOK, AddTasks, NextTasks
    <3> QED BY <1>0, <1>1, <3>1, <3>2, AgreesOn
  <2>2. CASE \E t \in tasks : u.call = t.call /\ AddSucceeds(t) /\ u.handle = nextHandle
    BY <1>0, <2>2 DEF AddSucceeds, generate_chain_handle, Agrees, TypeOK
  <2> QED BY <1>4, <2>1, <2>2, TasksFrom
<1>5. ASSUME NEW c \in Clients, NEW i \in DOMAIN inbox'[c],
             NEW n, n = inbox'[c][i], n.handle # 0
      PROVE  Agrees(n.handle, n.call)'
  <2>1. n = inbox'[c][i] BY <1>5
  <2>2. CASE \E j \in DOMAIN inbox[c] : n = inbox[c][j]
    <3>1. PICK j \in DOMAIN inbox[c] : n = inbox[c][j] BY <2>2
    <3>2. inbox[c] \in Seq(Messages) BY <1>0 DEF TypeOK
    <3>3. n.handle \in Nat /\ Agrees(n.handle, n.call)
      <4>1. n \in Messages BY <3>1, <3>2
      <4>2. Agrees(n.handle, n.call) BY <1>0, <1>5, <3>1 DEF HandlesInv
      <4> QED BY <4>1, <4>2 DEF Messages
    <3> QED BY <1>0, <1>1, <3>3, AgreesOn
  <2>3. CASE \E t \in tasks : n.handle = t.handle /\ n.call = t.call
    <3>1. PICK t \in tasks : n.handle = t.handle /\ n.call = t.call BY <2>3
    <3>2. n.handle \in Nat /\ Agrees(n.handle, n.call)
      BY <1>0, <1>5, <2>1, <3>1 DEF HandlesInv, TypeOK, AddTasks, NextTasks
    <3> QED BY <1>0, <1>1, <3>2, AgreesOn
  <2>4. CASE UNCHANGED inbox BY <2>1, <2>2, <2>4
  <2>5. ASSUME NEW d \in Clients, Leave(d)
        PROVE  inbox'[c] = inbox[c] \/ inbox'[c] = <<>>
    BY <1>0, <2>5 DEF Leave, TypeOK
  <2>6. ASSUME NEW d \in Clients, Deliver(d)
        PROVE  \E j \in DOMAIN inbox[c] : inbox'[c][i] = inbox[c][j]
    <3>1. inbox[c] \in Seq(Messages) /\ inbox[d] \in Seq(Messages) BY <1>0 DEF TypeOK
    <3>2. inbox'[c] = IF c = d THEN Tail(inbox[c]) ELSE inbox[c]
      BY <1>0, <2>6 DEF Deliver, TypeOK
    <3>3. CASE c = d
      <4>1. inbox[c] # <<>> BY <2>6, <3>3 DEF Deliver
      <4>2. i \in DOMAIN Tail(inbox[c]) /\ inbox'[c] = Tail(inbox[c]) BY <3>2, <3>3, <1>5
      <4>3. i \in 1..(Len(inbox[c]) - 1) BY <3>1, <4>1, <4>2
      <4>4. i + 1 \in DOMAIN inbox[c] /\ Tail(inbox[c])[i] = inbox[c][i + 1]
        BY <3>1, <4>1, <4>3
      <4> QED BY <4>2, <4>4
    <3> QED BY <3>2, <3>3
  <2>7. ASSUME NEW t \in tasks, CallsDart(t)
        PROVE  \/ \E j \in DOMAIN inbox[c] : inbox'[c][i] = inbox[c][j]
               \/ inbox'[c][i].handle = t.handle /\ inbox'[c][i].call = t.call
    <3> DEFINE new == [call |-> t.call, handle |-> t.handle]
    <3>1. inbox[c] \in Seq(Messages) BY <1>0 DEF TypeOK
    <3>2. inbox'[c] = inbox[c] \/ inbox'[c] = Append(inbox[c], new)
      BY <1>0, <2>7 DEF CallsDart, TypeOK
    <3>3. CASE inbox'[c] = Append(inbox[c], new)
      <4>1. new.handle = t.handle /\ new.call = t.call OBVIOUS
      <4> HIDE DEF new
      <4>2. i \in 1..(Len(inbox[c]) + 1) BY <1>5, <3>1, <3>3
      <4>3. CASE i = Len(inbox[c]) + 1 BY <3>1, <3>3, <4>1, <4>3
      <4>4. CASE i \in 1..Len(inbox[c]) BY <3>1, <3>3, <4>4
      <4> QED BY <4>2, <4>3, <4>4, <3>1
    <3> QED BY <3>2, <3>3
  <2>8. ASSUME NEW d \in Clients, CallsBack(d) \/ Calls(d) \/ Native(d)
        PROVE  UNCHANGED inbox
    BY <2>8 DEF CallsBack, Calls, Enter, Native, NativeInit, NativeVersion, NativeAdd,
         NativeSend, NativeNext, NativeRemove, DestroyChains, DestroyClient, DestroyRuntime
  <2>9. ASSUME NEW t \in tasks, AddSucceeds(t) \/ GetsString(t) \/ Ends(t)
        PROVE  UNCHANGED inbox
    BY <2>9 DEF AddSucceeds, GetsString, Ends
  <2>10. \/ \E j \in DOMAIN inbox[c] : n = inbox[c][j]
         \/ \E t \in tasks : n.handle = t.handle /\ n.call = t.call
         \/ UNCHANGED inbox
    <3>1. CASE \E d \in Clients : Leave(d) BY <1>5, <2>1, <2>5, <3>1
    <3>2. CASE \E d \in Clients : Deliver(d) BY <2>1, <2>6, <3>2
    <3>3. CASE \E t \in tasks : CallsDart(t) BY <2>1, <2>7, <3>3
    <3> QED BY <2>8, <2>9, <3>1, <3>2, <3>3 DEF Next, Run, vars
  <2> QED BY <2>2, <2>3, <2>4, <2>10
<1>6. ASSUME NEW c \in Clients, frame'[c] # Idle
      PROVE  /\ frame'[c].relay \in known' \cup {None}
             /\ frame'[c].op \in {"add", "next"} => frame'[c].call # 0
  <2>1. FrameKept(c) BY FramesKept
  <2> QED BY <1>0, <1>3, <1>6, <2>1 DEF FrameKept, HandlesInv
<1>7. ASSUME NEW u \in tasks', u.kind = "add", u.given # 0
      PROVE  u.given = u.asked.chain
  BY <1>0, <1>7, TasksFrom DEF HandlesInv
<1>8. (\A c \in Clients : \A i \in DOMAIN inbox[c] :
          inbox[c][i].handle # 0 => Agrees(inbox[c][i].handle, inbox[c][i].call))'
  BY <1>5 DEF Agrees
<1> QED BY <1>2, <1>4, <1>6, <1>7, <1>8 DEF HandlesInv, Idle

-----------------------------------------------------------------------------
(* The runtimes: DestroyClient notes the tasks that still add a chain, and *)
(* no task of a client is added once CLIENTS has lost it.                  *)
LEMMA AddsStep ==
    ASSUME Inv, [Next]_vars
    PROVE  AddsInv'
<1>0. TypeOK /\ AddsInv /\ AbortsOnlyByAdd BY DEF Inv, AddsInv
<1>1. overtaken \subseteq overtaken'
  <2>1. ASSUME NEW c \in Clients, DestroyClient(c) PROVE overtaken \subseteq overtaken'
    BY <2>1 DEF DestroyClient
  <2>2. ASSUME NEW c \in Clients,
               CallsBack(c) \/ Calls(c) \/ Leave(c) \/ Deliver(c) \/ NativeInit(c)
                 \/ NativeVersion(c) \/ NativeAdd(c) \/ NativeSend(c) \/ NativeNext(c)
                 \/ NativeRemove(c) \/ DestroyChains(c) \/ DestroyRuntime(c)
        PROVE  UNCHANGED overtaken
    BY <2>2 DEF CallsBack, Calls, Enter, Leave, Deliver, NativeInit, NativeVersion, NativeAdd,
         NativeSend, NativeNext, NativeRemove, DestroyChains, DestroyRuntime
  <2>3. ASSUME Run PROVE UNCHANGED overtaken
    BY <2>3 DEF Run, AddSucceeds, GetsString, CallsDart, Ends
  <2> QED BY <2>1, <2>2, <2>3 DEF Next, Native, vars
<1>2. ASSUME NEW c \in Clients, c \in CLIENTS, c \notin CLIENTS',
             NEW t \in tasks, t.kind = "add", t.client = c
      PROVE  c \in overtaken'
  <2>1. ASSUME NEW d \in Clients, DestroyClient(d)
        PROVE  c \in overtaken'
    <3>1. c = d BY <1>2, <2>1 DEF DestroyClient
    <3> QED BY <1>2, <2>1, <3>1 DEF DestroyClient
  <2>2. ASSUME NEW d \in Clients,
               CallsBack(d) \/ Calls(d) \/ Leave(d) \/ Deliver(d) \/ NativeInit(d)
                 \/ NativeVersion(d) \/ NativeAdd(d) \/ NativeSend(d) \/ NativeNext(d)
                 \/ NativeRemove(d) \/ DestroyChains(d) \/ DestroyRuntime(d)
        PROVE  CLIENTS \subseteq CLIENTS'
    BY <2>2 DEF CallsBack, Calls, Enter, Leave, Deliver, NativeInit, NativeVersion, NativeAdd,
         NativeSend, NativeNext, NativeRemove, DestroyChains, DestroyRuntime
  <2>3. ASSUME Run PROVE UNCHANGED CLIENTS
    BY <2>3 DEF Run, AddSucceeds, GetsString, CallsDart, Ends
  <2> QED BY <1>2, <2>1, <2>2, <2>3 DEF Next, Native, vars
<1>3. ASSUME NEW u \in tasks', u.kind = "add", u.client \notin CLIENTS'
      PROVE  u.client \in overtaken'
  <2>1. PICK t \in tasks : u.kind = t.kind /\ u.client = t.client BY <1>3, TasksFrom
  <2>2. t.client \in Clients BY <1>0 DEF TypeOK, AddTasks, NextTasks
  <2>3. CASE t.client \in CLIENTS BY <1>2, <1>3, <2>1, <2>2, <2>3
  <2>4. CASE t.client \notin CLIENTS BY <1>0, <1>1, <1>3, <2>1, <2>4 DEF AddsInv
  <2> QED BY <2>3, <2>4
<1>4. AbortsOnlyByAdd'
  <2>1. ASSUME NEW t \in tasks, Ends(t)
        PROVE  aborted' \subseteq overtaken'
    <3>1. CASE t.client \notin CLIENTS /\ Holders(t.client) = {t}
      <4>1. t.kind = "add" BY <3>1 DEF Holders
      <4>2. t.client \in overtaken BY <1>0, <3>1, <4>1 DEF AddsInv
      <4> QED BY <1>0, <1>1, <2>1, <4>2 DEF Ends, AbortsOnlyByAdd
    <3>2. CASE ~(t.client \notin CLIENTS /\ Holders(t.client) = {t})
      BY <1>0, <1>1, <2>1, <3>2 DEF Ends, AbortsOnlyByAdd
    <3> QED BY <3>1, <3>2
  <2>2. ASSUME NEW t \in tasks, AddSucceeds(t) \/ GetsString(t) \/ CallsDart(t)
        PROVE  UNCHANGED aborted
    BY <2>2 DEF AddSucceeds, GetsString, CallsDart
  <2>3. ASSUME NEW c \in Clients,
               CallsBack(c) \/ Calls(c) \/ Leave(c) \/ Deliver(c) \/ Native(c)
        PROVE  UNCHANGED aborted
    BY <2>3 DEF CallsBack, Calls, Enter, Leave, Deliver, Native, NativeInit, NativeVersion,
         NativeAdd, NativeSend, NativeNext, NativeRemove, DestroyChains, DestroyClient,
         DestroyRuntime
  <2> QED BY <1>0, <1>1, <2>1, <2>2, <2>3 DEF Next, Run, vars, AbortsOnlyByAdd
<1> QED BY <1>3, <1>4 DEF AddsInv

-----------------------------------------------------------------------------
(* The memory.  What a binding allocates and reads is told apart by its    *)
(* thread, the strings of callbacks by their kind.                         *)

LEMMA FreedKinds ==
    ASSUME NEW c, NEW f, NEW b \in Freed(f, c)
    PROVE  b.kind # "result" /\ b.who = c
BY DEF Freed, Arguments, Strings, Block

LEMMA FreedBeforeReturn ==
    ASSUME NEW c, NEW f, f.at # "returned"
    PROVE  Freed(f, c) = Arguments(f.op, c)
BY DEF Freed, Strings

InFrames == \A c \in Clients : frame[c].at # "idle" => Freed(frame[c], c) \subseteq heap

InMessages ==
    \A c \in Clients : \A i \in DOMAIN inbox[c] :
        inbox[c][i].handle = 0 => Block("result", inbox[c][i].call) \in heap

NotLeaked ==
    \A b \in heap : \/ b.kind = "result"
                    \/ \E c \in Clients : frame[c].at # "idle" /\ b \in Freed(frame[c], c)

LEMMA OwnedParts == StringsOwned <=> InFrames /\ InMessages /\ NotLeaked
<1>2. Held \subseteq heap <=> InFrames BY DEF Held, InFrames, Freed
<1>3. Unread \subseteq heap <=> InMessages BY DEF Unread, InMessages
<1>4. \A b \in Unread : b.kind = "result" BY DEF Unread, Block
<1>5. \A b : b \in Held <=> \E c \in Clients : frame[c].at # "idle" /\ b \in Freed(frame[c], c)
  BY DEF Held, Freed
<1> QED BY <1>2, <1>3, <1>4, <1>5 DEF StringsOwned, Needed, NotLeaked

(* What a step has to leave behind.                                        *)
BlocksAfter ==
    /\ \A d \in Clients : frame'[d].at # "idle" => Freed(frame'[d], d) \subseteq heap'
    /\ \A d \in Clients : \A i \in DOMAIN inbox'[d] :
           inbox'[d][i].handle = 0 => Block("result", inbox'[d][i].call) \in heap'
    /\ \A b \in heap' :
           \/ b.kind = "result"
           \/ \E d \in Clients : frame'[d].at # "idle" /\ b \in Freed(frame'[d], d)

LEMMA OwnedAfter == BlocksAfter => StringsOwned'
<1>1. (StringsOwned <=> InFrames /\ InMessages /\ NotLeaked)' BY OwnedParts, PTL
<1>2. BlocksAfter => InFrames' BY DEF BlocksAfter, InFrames, Freed, Arguments, Strings, Block
<1>3. BlocksAfter => InMessages' BY DEF BlocksAfter, InMessages, Block
<1>4. BlocksAfter => NotLeaked'
  BY DEF BlocksAfter, NotLeaked, Freed, Arguments, Strings, Block
<1> QED BY <1>1, <1>2, <1>3, <1>4

LEMMA EnterBlocks ==
    ASSUME Inv, NEW c \in Clients, NEW call, call.at = "native", Enter(c, call)
    PROVE  BlocksAfter
<1>0. TypeOK /\ InFrames /\ InMessages /\ NotLeaked BY OwnedParts DEF Inv
<1>1. /\ frame[c].at = "idle" /\ frame'[c] = call /\ Freed(call, c) = Arguments(call.op, c)
      /\ \A d \in Clients \ {c} : frame'[d] = frame[d]
  BY <1>0, FreedBeforeReturn DEF Enter, Idle, TypeOK
<1>2. heap' = heap \cup Freed(call, c) /\ UNCHANGED inbox BY <1>1 DEF Enter
<1> QED BY <1>0, <1>1, <1>2 DEF InFrames, InMessages, NotLeaked, BlocksAfter

LEMMA ReturnBlocks ==
    ASSUME Inv, NEW c \in Clients, NEW failed \in BOOLEAN,
           frame[c].at # "idle", frame[c].at # "returned", Return(c, failed), UNCHANGED inbox
    PROVE  BlocksAfter
<1>0. TypeOK /\ InFrames /\ InMessages /\ NotLeaked BY OwnedParts DEF Inv
<1>1. frame[c] \in Frames BY <1>0, FrameTypes
<1>2. frame' = [frame EXCEPT ![c] = [frame[c] EXCEPT !.at = "returned", !.failed = failed]]
  BY <1>0 DEF Return, TypeOK
<1>3. frame'[c] = [frame[c] EXCEPT !.at = "returned", !.failed = failed]
      /\ \A d \in Clients \ {c} : frame'[d] = frame[d]
  BY <1>0, <1>2 DEF TypeOK
<1>4. frame'[c].op = frame[c].op /\ frame'[c].at = "returned" BY <1>1, <1>3 DEF Frames
<1>5. heap' = heap \cup Strings(frame'[c], c) BY DEF Return
<1>6. Freed(frame[c], c) = Arguments(frame[c].op, c) BY FreedBeforeReturn
<1>7. Freed(frame'[c], c) = Freed(frame[c], c) \cup Strings(frame'[c], c)
  BY <1>4, <1>6 DEF Freed
<1>8. heap' = heap \cup Freed(frame'[c], c) BY <1>0, <1>5, <1>7 DEF InFrames
<1>9. frame'[c].at # "idle" BY <1>4
<1> QED BY <1>0, <1>3, <1>7, <1>8, <1>9 DEF InFrames, InMessages, NotLeaked, BlocksAfter

(* smoldot_client_destroy under way keeps the arguments.                   *)
LEMMA AtBlocks ==
    ASSUME Inv, NEW c \in Clients, frame[c].at # "idle", frame[c].at # "returned",
           NEW at \in {"unlisted", "dropping"}, frame' = [frame EXCEPT ![c].at = at],
           UNCHANGED <<heap, inbox>>
    PROVE  BlocksAfter
<1>0. TypeOK /\ InFrames /\ InMessages /\ NotLeaked BY OwnedParts DEF Inv
<1>1. frame[c] \in Frames BY <1>0, FrameTypes
<1>2. frame'[c] = [frame[c] EXCEPT !.at = at] /\ \A d \in Clients \ {c} : frame'[d] = frame[d]
  BY <1>0 DEF TypeOK
<1>3. frame'[c].op = frame[c].op /\ frame'[c].at = at BY <1>1, <1>2 DEF Frames
<1>4. Freed(frame'[c], c) = Freed(frame[c], c) BY <1>3, FreedBeforeReturn
<1> QED BY <1>0, <1>2, <1>3, <1>4 DEF InFrames, InMessages, NotLeaked, BlocksAfter

LEMMA LeaveBlocks ==
    ASSUME Inv, NEW c \in Clients, Leave(c)
    PROVE  BlocksAfter
<1>0. TypeOK /\ InFrames /\ InMessages /\ NotLeaked BY OwnedParts DEF Inv
<1>1. /\ frame'[c].at = "idle" /\ frame[c].at # "idle"
      /\ \A d \in Clients \ {c} : frame'[d] = frame[d]
  BY <1>0 DEF Leave, Idle, TypeOK
<1>2. heap' = heap \ Freed(frame[c], c) BY DEF Leave
<1>3. ASSUME NEW d \in Clients, frame'[d].at # "idle"
      PROVE  Freed(frame'[d], d) \subseteq heap'
  BY <1>0, <1>1, <1>2, <1>3, FreedKinds DEF InFrames
<1>4. ASSUME NEW d \in Clients, NEW i \in DOMAIN inbox'[d], inbox'[d][i].handle = 0
      PROVE  Block("result", inbox'[d][i].call) \in heap'
  <2>1. inbox'[d] = inbox[d] \/ inbox'[d] = <<>> BY <1>0 DEF Leave, TypeOK
  <2>2. Block("result", inbox'[d][i].call) \in heap BY <1>0, <1>4, <2>1 DEF InMessages
  <2>3. Block("result", inbox'[d][i].call).kind = "result" BY DEF Block
  <2> QED BY <1>2, <2>2, <2>3, FreedKinds
<1>5. ASSUME NEW b \in heap', b.kind # "result"
      PROVE  \E d \in Clients : frame'[d].at # "idle" /\ b \in Freed(frame'[d], d)
  BY <1>0, <1>1, <1>2, <1>5 DEF NotLeaked
<1> QED BY <1>3, <1>4, <1>5 DEF BlocksAfter

LEMMA DeliverBlocks ==
    ASSUME Inv, NEW c \in Clients, Deliver(c)
    PROVE  BlocksAfter
<1>0. TypeOK /\ InFrames /\ InMessages /\ NotLeaked BY OwnedParts DEF Inv
<1>1. UNCHANGED <<frame, heap>> BY DEF Deliver
<1>2. ASSUME NEW d \in Clients, NEW i \in DOMAIN inbox'[d], inbox'[d][i].handle = 0
      PROVE  Block("result", inbox'[d][i].call) \in heap'
  <2>1. inbox'[d] = IF d = c THEN Tail(inbox[d]) ELSE inbox[d] BY <1>0 DEF Deliver, TypeOK
  <2>2. CASE d = c
    <3>1. inbox[d] \in Seq(Messages) /\ inbox[d] # <<>> /\ i \in DOMAIN Tail(inbox[d])
      BY <1>0, <1>2, <2>1, <2>2 DEF Deliver, TypeOK
    <3>2. i \in 1..(Len(inbox[d]) - 1) BY <3>1
    <3>3. i + 1 \in DOMAIN inbox[d] /\ Tail(inbox[d])[i] = inbox[d][i + 1] BY <3>1, <3>2
    <3> QED BY <1>0, <1>1, <1>2, <2>1, <2>2, <3>3 DEF InMessages
  <2>3. CASE d # c BY <1>0, <1>1, <1>2, <2>1, <2>3 DEF InMessages
  <2> QED BY <2>2, <2>3
<1> QED BY <1>0, <1>1, <1>2 DEF InFrames, NotLeaked, BlocksAfter

LEMMA CallsDartBlocks ==
    ASSUME Inv, NEW t \in tasks, CallsDart(t)
    PROVE  BlocksAfter
<1>0. TypeOK /\ InFrames /\ InMessages /\ NotLeaked BY OwnedParts DEF Inv
<1>1. UNCHANGED frame BY DEF CallsDart
<1>2. heap' = IF t.handle = 0 THEN heap \cup {Block("result", t.call)} ELSE heap
  BY DEF CallsDart, HandedOver
<1>3. Block("result", t.call).kind = "result" BY DEF Block
<1>4. ASSUME NEW d \in Clients, NEW i \in DOMAIN inbox'[d], inbox'[d][i].handle = 0
      PROVE  Block("result", inbox'[d][i].call) \in heap'
  <2> DEFINE new == [call |-> t.call, handle |-> t.handle]
  <2>1. inbox'[d] = inbox[d] \/ inbox'[d] = Append(inbox[d], new)
    BY <1>0 DEF CallsDart, TypeOK
  <2>2. CASE i \in DOMAIN inbox[d] /\ inbox'[d][i] = inbox[d][i]
    BY <1>0, <1>2, <1>4, <2>2 DEF InMessages
  <2>3. CASE inbox'[d][i] = new BY <1>2, <1>4, <2>3
  <2>4. CASE inbox'[d] = Append(inbox[d], new)
    <3>1. inbox[d] \in Seq(Messages) BY <1>0 DEF TypeOK
    <3> HIDE DEF new
    <3>2. i \in 1..(Len(inbox[d]) + 1) BY <1>4, <2>4, <3>1
    <3>3. \/ inbox'[d][i] = new
          \/ i \in DOMAIN inbox[d] /\ inbox'[d][i] = inbox[d][i]
      BY <2>4, <3>1, <3>2
    <3> QED BY <2>2, <2>3, <3>3
  <2> QED BY <1>4, <2>1, <2>2, <2>4
<1> QED BY <1>0, <1>1, <1>2, <1>3, <1>4 DEF InFrames, NotLeaked, BlocksAfter

LEMMA StringsStep ==
    ASSUME Inv, [Next]_vars
    PROVE  StringsOwned'
<1> SUFFICES BlocksAfter BY OwnedAfter
<1>0. InFrames /\ InMessages /\ NotLeaked BY OwnedParts DEF Inv
<1>1. CASE UNCHANGED <<frame, heap, inbox>>
  BY <1>0, <1>1 DEF InFrames, InMessages, NotLeaked, BlocksAfter
<1>2. ASSUME NEW c \in Clients, CallsBack(c) \/ Calls(c)
      PROVE  BlocksAfter
  <2>1. PICK call : call.at = "native" /\ Enter(c, call)
    <3>1. CASE \E relay \in {k \in known : k.client = c} \cup {None},
                  json \in StatementJson \cup {None} :
                   Enter(c, [Call("add") EXCEPT !.call = nextCall, !.relay = relay, !.json = json])
      BY <3>1 DEF Call
    <3>2. CASE \E h : Enter(c, [Call("next") EXCEPT !.call = nextCall, !.handle = h])
      BY <3>2 DEF Call
    <3>3. CASE \E op : Enter(c, Call(op)) BY <3>3 DEF Call
    <3>4. CASE \E op, h : Enter(c, [Call(op) EXCEPT !.handle = h]) BY <3>4 DEF Call
    <3> QED BY <1>2, <3>1, <3>2, <3>3, <3>4 DEF CallsBack, Calls
  <2> QED BY <2>1, EnterBlocks
<1>3. ASSUME NEW c \in Clients,
             NativeInit(c) \/ NativeVersion(c) \/ NativeAdd(c) \/ NativeSend(c)
               \/ NativeNext(c) \/ NativeRemove(c) \/ DestroyRuntime(c)
      PROVE  BlocksAfter
  <2>1. frame[c].at # "idle" /\ frame[c].at # "returned"
    BY <1>3 DEF NativeInit, NativeVersion, NativeAdd, NativeSend, NativeNext, NativeRemove,
         DestroyRuntime, In
  <2>2. PICK failed \in BOOLEAN : Return(c, failed)
    BY <1>3 DEF NativeInit, NativeVersion, NativeAdd, NativeSend, NativeNext, NativeRemove,
         DestroyRuntime, Found
  <2>3. UNCHANGED inbox
    BY <1>3 DEF NativeInit, NativeVersion, NativeAdd, NativeSend, NativeNext, NativeRemove,
         DestroyRuntime
  <2> QED BY <2>1, <2>2, <2>3, ReturnBlocks
<1>4. ASSUME NEW c \in Clients, DestroyChains(c)
      PROVE  BlocksAfter
  BY <1>4, AtBlocks DEF DestroyChains, In
<1>5. ASSUME NEW c \in Clients, DestroyClient(c)
      PROVE  BlocksAfter
  <2>1. frame[c].at = "unlisted" /\ UNCHANGED inbox BY <1>5 DEF DestroyClient
  <2>2. CASE c \notin CLIENTS \/ Holders(c) # {}
    BY <1>5, <2>1, <2>2, ReturnBlocks DEF DestroyClient
  <2>3. CASE ~(c \notin CLIENTS \/ Holders(c) # {})
    BY <1>5, <2>1, <2>3, AtBlocks DEF DestroyClient
  <2> QED BY <2>2, <2>3
<1>6. ASSUME NEW t \in tasks, AddSucceeds(t) \/ GetsString(t) \/ Ends(t)
      PROVE  UNCHANGED <<frame, heap, inbox>>
  BY <1>6 DEF AddSucceeds, GetsString, Ends
<1>7. CASE UNCHANGED vars BY <1>1, <1>7 DEF vars
<1> QED BY <1>1, <1>2, <1>3, <1>4, <1>5, <1>6, <1>7, LeaveBlocks, DeliverBlocks,
           CallsDartBlocks DEF Next, Native, Run

-----------------------------------------------------------------------------
(* The end of a runtime: who may call, who holds the lock, what is left.   *)

RuntimeAt(c) ==
    /\ frame[c] # Idle =>
           /\ frame[c].op = "init" => client[c] = "new"
           /\ frame[c].op \in {"add", "next", "destroy"} => client[c] = "ready"
           /\ frame[c].at \in {"unlisted", "dropping"} => frame[c].op = "destroy"
    /\ clientsLock = c <=> frame[c].at = "dropping"
    /\ frame[c].at = "dropping" => c \notin CLIENTS /\ \A t \in tasks : t.client = c => t.kind # "add"
    /\ Destroyed(c) => /\ c \notin CLIENTS
                       /\ c \in overtaken \/ \A t \in tasks : t.client # c

LEMMA RuntimeParts ==
    (CallersInv /\ LockInv /\ QuietOnceDestroyed) <=> \A c \in Clients : RuntimeAt(c)
<1>1. \A c \in Clients : Holders(c) = {} <=> \A t \in tasks : t.client = c => t.kind # "add"
  BY DEF Holders
<1> QED BY <1>1 DEF CallersInv, LockInv, QuietOnceDestroyed, RuntimeAt

(* A step that adds nothing for a client leaves its part as it was.        *)
LEMMA RuntimeKept ==
    ASSUME NEW c \in Clients, RuntimeAt(c), frame'[c] = frame[c], client'[c] = client[c],
           clientsLock' = c <=> clientsLock = c, c \in CLIENTS' => c \in CLIENTS,
           overtaken \subseteq overtaken',
           \A u \in tasks' : u.client = c => \E t \in tasks : t.client = c /\ t.kind = u.kind
    PROVE  RuntimeAt(c)'
<1>1. Destroyed(c)' <=> Destroyed(c) BY DEF Destroyed
<1> QED BY <1>1 DEF RuntimeAt

LEMMA FrameAfter ==
    ASSUME TypeOK, NEW c \in Clients, NEW failed \in BOOLEAN, frame[c].at # "idle",
           Return(c, failed)
    PROVE  /\ frame'[c].at = "returned" /\ frame'[c].op = frame[c].op /\ frame'[c].failed = failed
           /\ frame'[c] # Idle /\ frame[c] # Idle /\ UNCHANGED client
           /\ \A d \in Clients : d # c => frame'[d] = frame[d]
<1>1. frame[c] \in Frames BY FrameTypes
<1>2. frame' = [frame EXCEPT ![c] = [frame[c] EXCEPT !.at = "returned", !.failed = failed]]
  BY DEF Return, TypeOK
<1>3. frame'[c] = [frame[c] EXCEPT !.at = "returned", !.failed = failed]
      /\ \A d \in Clients : d # c => frame'[d] = frame[d]
  BY <1>2 DEF TypeOK
<1>4. /\ frame'[c].at = "returned" /\ frame'[c].op = frame[c].op /\ frame'[c].failed = failed
  BY <1>1, <1>3 DEF Frames
<1>5. frame[c] # Idle /\ frame'[c] # Idle BY <1>4 DEF Idle
<1>6. UNCHANGED client BY DEF Return, dartVars
<1> QED BY <1>3, <1>4, <1>5, <1>6

LEMMA NativeRuntime ==
    ASSUME TypeOK, \A d \in Clients : RuntimeAt(d), NEW c \in Clients, Native(c)
    PROVE  \A d \in Clients : RuntimeAt(d)'
<1>0. RuntimeAt(c) /\ c # None BY NoneAssumption
<1>1. ASSUME NativeVersion(c) \/ NativeSend(c) \/ NativeRemove(c)
      PROVE  \A d \in Clients : RuntimeAt(d)'
  <2>1. PICK failed \in BOOLEAN : Return(c, failed)
    BY <1>1 DEF NativeVersion, NativeSend, NativeRemove, Found
  <2>2. /\ frame[c].at = "native" /\ frame[c].op # "destroy"
        /\ UNCHANGED <<CLIENTS, clientsLock, tasks, overtaken>>
    BY <1>1 DEF NativeVersion, NativeSend, NativeRemove, In
  <2>3. /\ frame'[c].at = "returned" /\ frame'[c].op = frame[c].op
        /\ frame'[c] # Idle /\ frame[c] # Idle /\ UNCHANGED client
        /\ \A d \in Clients : d # c => frame'[d] = frame[d]
    BY <2>1, <2>2, FrameAfter
  <2>4. RuntimeAt(c)'
    <3>1. Destroyed(c)' => Destroyed(c) BY <2>2, <2>3 DEF Destroyed
    <3> QED BY <1>0, <2>2, <2>3, <3>1 DEF RuntimeAt
  <2> QED BY <2>2, <2>3, <2>4, RuntimeKept
<1>2. ASSUME NativeInit(c)
      PROVE  \A d \in Clients : RuntimeAt(d)'
  <2>1. PICK failed \in BOOLEAN : Return(c, failed) BY <1>2 DEF NativeInit
  <2>2. /\ frame[c].at = "native" /\ frame[c].op = "init" /\ CLIENTS' \subseteq CLIENTS \cup {c}
        /\ UNCHANGED <<clientsLock, tasks, overtaken>>
    BY <1>2 DEF NativeInit, In
  <2>3. /\ frame'[c].at = "returned" /\ frame'[c].op = frame[c].op
        /\ frame'[c] # Idle /\ frame[c] # Idle /\ UNCHANGED client
        /\ \A d \in Clients : d # c => frame'[d] = frame[d]
    BY <2>1, <2>2, FrameAfter
  <2>4. RuntimeAt(c)'
    <3>1. client[c] = "new" BY <1>0, <2>2, <2>3 DEF RuntimeAt
    <3>2. ~Destroyed(c)' BY <2>2, <2>3, <3>1 DEF Destroyed
    <3> QED BY <1>0, <2>2, <2>3, <3>1, <3>2 DEF RuntimeAt
  <2> QED BY <2>2, <2>3, <2>4, RuntimeKept
<1>3. ASSUME NativeAdd(c) \/ NativeNext(c)
      PROVE  \A d \in Clients : RuntimeAt(d)'
  <2>1. PICK failed \in BOOLEAN : Return(c, failed) BY <1>3 DEF NativeAdd, NativeNext, Found
  <2>2. /\ frame[c].at = "native" /\ frame[c].op \in {"add", "next"}
        /\ UNCHANGED <<CLIENTS, clientsLock, overtaken>>
    BY <1>3 DEF NativeAdd, NativeNext, In
  <2>5. \A u \in tasks' : u \in tasks \/ u.client = c
    <3>1. UNCHANGED tasks \/ \E u : u.client = c /\ tasks' = tasks \cup {u}
      <4>1. CASE NativeAdd(c)
        <5>1. UNCHANGED tasks
              \/ \E given, config : tasks' = tasks \cup {[kind |-> "add", client |-> c,
                     call |-> frame[c].call, handle |-> 0, step |-> "running",
                     asked |-> frame[c].relay, given |-> given, config |-> config]}
          BY <4>1 DEF NativeAdd
        <5> QED BY <5>1
      <4>2. CASE NativeNext(c)
        <5>1. UNCHANGED tasks
              \/ tasks' = tasks \cup {[kind |-> "next", client |-> c, call |-> frame[c].call,
                                       handle |-> 0, step |-> "running"]}
          BY <4>2 DEF NativeNext
        <5> QED BY <5>1
      <4> QED BY <1>3, <4>1, <4>2
    <3> QED BY <3>1
  <2>3. /\ frame'[c].at = "returned" /\ frame'[c].op = frame[c].op
        /\ frame'[c] # Idle /\ frame[c] # Idle /\ UNCHANGED client
        /\ \A d \in Clients : d # c => frame'[d] = frame[d]
    BY <2>1, <2>2, FrameAfter
  <2>4. RuntimeAt(c)'
    <3>1. client[c] = "ready" BY <1>0, <2>2, <2>3 DEF RuntimeAt
    <3>2. ~Destroyed(c)' BY <2>2, <2>3, <3>1 DEF Destroyed
    <3> QED BY <1>0, <2>2, <2>3, <3>1, <3>2 DEF RuntimeAt
  <2> QED BY <2>2, <2>3, <2>4, <2>5, RuntimeKept
<1>4. ASSUME DestroyChains(c)
      PROVE  \A d \in Clients : RuntimeAt(d)'
  <2>1. /\ frame[c].at = "native" /\ frame[c].op = "destroy" /\ frame[c] \in Frames
        /\ frame' = [frame EXCEPT ![c] = [frame[c] EXCEPT !.at = "unlisted"]]
        /\ UNCHANGED <<client, CLIENTS, clientsLock, tasks, overtaken>>
    BY <1>4, FrameTypes DEF DestroyChains, In, dartVars, TypeOK
  <2>2. /\ frame'[c] = [frame[c] EXCEPT !.at = "unlisted"]
        /\ \A d \in Clients : d # c => frame'[d] = frame[d]
    BY <2>1 DEF TypeOK
  <2>3. frame'[c].at = "unlisted" /\ frame'[c].op = "destroy" /\ frame[c] # Idle
    BY <2>1, <2>2 DEF Frames, Idle
  <2>4. RuntimeAt(c)'
    <3>1. Destroyed(c)' => Destroyed(c) BY <2>1, <2>3 DEF Destroyed
    <3> QED BY <1>0, <2>1, <2>3, <3>1 DEF RuntimeAt
  <2> QED BY <2>1, <2>2, <2>4, RuntimeKept
<1>5. ASSUME DestroyClient(c)
      PROVE  \A d \in Clients : RuntimeAt(d)'
  <2>1. /\ frame[c].at = "unlisted" /\ clientsLock = None /\ CLIENTS' = CLIENTS \ {c}
        /\ UNCHANGED tasks /\ overtaken \subseteq overtaken' /\ frame[c] \in Frames
        /\ Holders(c) # {} => c \in overtaken'
    BY <1>5, FrameTypes DEF DestroyClient, Holders
  <2>2. frame[c] # Idle /\ frame[c].op = "destroy" /\ client[c] = "ready"
    BY <1>0, <2>1 DEF RuntimeAt, Idle
  <2>3. CASE c \notin CLIENTS \/ Holders(c) # {}
    <3>1. Return(c, c \notin CLIENTS) /\ UNCHANGED clientsLock BY <1>5, <2>3 DEF DestroyClient
    <3>2. /\ frame'[c].at = "returned" /\ frame'[c].op = "destroy"
          /\ frame'[c].failed = (c \notin CLIENTS)
          /\ frame'[c] # Idle /\ UNCHANGED client
          /\ \A d \in Clients : d # c => frame'[d] = frame[d]
      BY <2>1, <2>2, <3>1, FrameAfter
    <3>3. Destroyed(c)' => c \in overtaken'
      <4>1. ASSUME Destroyed(c)' PROVE c \in CLIENTS BY <2>2, <3>2, <4>1 DEF Destroyed
      <4> QED BY <2>1, <2>3, <4>1
    <3>4. RuntimeAt(c)' BY <1>0, <2>1, <2>2, <3>1, <3>2, <3>3 DEF RuntimeAt
    <3> QED BY <2>1, <3>1, <3>2, <3>4, RuntimeKept
  <2>4. CASE ~(c \notin CLIENTS \/ Holders(c) # {})
    <3>1. /\ frame' = [frame EXCEPT ![c] = [frame[c] EXCEPT !.at = "dropping"]]
          /\ clientsLock' = c /\ UNCHANGED client /\ Holders(c) = {}
      BY <1>5, <2>4 DEF DestroyClient, dartVars, TypeOK
    <3>2. /\ frame'[c] = [frame[c] EXCEPT !.at = "dropping"]
          /\ \A d \in Clients : d # c => frame'[d] = frame[d]
      BY <3>1 DEF TypeOK
    <3>3. frame'[c].at = "dropping" /\ frame'[c].op = "destroy"
      BY <2>1, <2>2, <3>2 DEF Frames
    <3>4. \A t \in tasks : t.client = c => t.kind # "add" BY <3>1 DEF Holders
    <3>5. ~Destroyed(c)' BY <2>2, <3>1, <3>3 DEF Destroyed
    <3>6. RuntimeAt(c)' BY <2>1, <2>2, <3>1, <3>3, <3>4, <3>5 DEF RuntimeAt
    <3>7. ASSUME NEW d \in Clients, d # c
          PROVE  RuntimeAt(d)'
      <4>1. clientsLock # d BY <2>1, NoneAssumption
      <4> QED BY <2>1, <3>1, <3>2, <3>7, <4>1, RuntimeKept
    <3> QED BY <3>6, <3>7
  <2> QED BY <2>3, <2>4
<1>6. ASSUME DestroyRuntime(c)
      PROVE  \A d \in Clients : RuntimeAt(d)'
  <2>1. /\ frame[c].at = "dropping" /\ Return(c, FALSE) /\ clientsLock' = None
        /\ tasks' = {t \in tasks : t.client # c} /\ UNCHANGED <<CLIENTS, overtaken>>
    BY <1>6 DEF DestroyRuntime
  <2>2. /\ frame[c] # Idle /\ frame[c].op = "destroy" /\ client[c] = "ready"
        /\ clientsLock = c /\ c \notin CLIENTS
    BY <1>0, <2>1 DEF RuntimeAt, Idle
  <2>3. /\ frame'[c].at = "returned" /\ frame'[c].op = "destroy" /\ UNCHANGED client
        /\ \A d \in Clients : d # c => frame'[d] = frame[d]
    BY <2>1, <2>2, FrameAfter
  <2>4. RuntimeAt(c)' BY <1>0, <2>1, <2>2, <2>3 DEF RuntimeAt
  <2>5. ASSUME NEW d \in Clients, d # c
        PROVE  RuntimeAt(d)'
    <3>1. clientsLock' # d /\ clientsLock # d BY <2>1, <2>2, <2>5, NoneAssumption
    <3> QED BY <2>1, <2>3, <2>5, <3>1, RuntimeKept
  <2> QED BY <2>4, <2>5
<1> QED BY <1>1, <1>2, <1>3, <1>4, <1>5, <1>6 DEF Native

LEMMA DartRuntime ==
    ASSUME TypeOK, \A d \in Clients : RuntimeAt(d), NEW c \in Clients,
           CallsBack(c) \/ Calls(c) \/ Leave(c) \/ Deliver(c)
    PROVE  \A d \in Clients : RuntimeAt(d)'
<1>0. RuntimeAt(c) OBVIOUS
<1>1. CASE CallsBack(c) \/ Calls(c)
  <2>1. /\ frame[c] = Idle
        /\ UNCHANGED <<client, CLIENTS, clientsLock, tasks, overtaken>>
        /\ \A d \in Clients : d # c => frame'[d] = frame[d]
        /\ frame'[c].at = "native"
        /\ frame'[c].op = "init" => client[c] = "new"
        /\ frame'[c].op \in {"add", "next", "destroy"} => client[c] = "ready"
    <3>1. CASE CallsBack(c)
      <4>1. PICK call : /\ Enter(c, call) /\ call.at = "native" /\ call.op \in {"add", "next"}
                        /\ client[c] = "ready" /\ UNCHANGED client
        BY <3>1 DEF CallsBack, Call, dartVars
      <4> QED BY <4>1 DEF Enter, TypeOK
    <3>2. CASE Calls(c)
      <4>0. \A op \in {"init", "version", "send", "remove", "destroy"} :
                Call(op).at = "native" /\ Call(op).op = op
        BY CallFrames
      <4>a. \A h : \A op \in {"send", "remove"} :
                [Call(op) EXCEPT !.handle = h].at = "native" /\ [Call(op) EXCEPT !.handle = h].op = op
        BY DEF Call
      <4>1. \E call : /\ Enter(c, call) /\ call.at = "native" /\ UNCHANGED client
                      /\ \/ call.op \in {"version", "send", "remove"}
                         \/ call.op = "init" /\ client[c] = "new"
                         \/ call.op = "destroy" /\ client[c] = "ready"
        <5>1. CASE Enter(c, Call("version")) /\ UNCHANGED client
          BY <4>0, <5>1
        <5>2. CASE Enter(c, Call("init")) /\ client[c] = "new" /\ UNCHANGED client
          BY <4>0, <5>2
        <5>3. CASE Enter(c, Call("destroy")) /\ client[c] = "ready" /\ UNCHANGED client
          BY <4>0, <5>3
        <5>4. CASE \E h : Enter(c, [Call("send") EXCEPT !.handle = h]) /\ UNCHANGED client
          BY <4>a, <5>4
        <5>5. CASE \E h : Enter(c, [Call("remove") EXCEPT !.handle = h]) /\ UNCHANGED client
          BY <4>a, <5>5
        <5> QED BY <3>2, <5>1, <5>2, <5>3, <5>4, <5>5 DEF Calls, dartVars
      <4> QED BY <4>1 DEF Enter, TypeOK
    <3> QED BY <1>1, <3>1, <3>2
  <2>2. RuntimeAt(c)'
    <3>1. clientsLock # c BY <1>0, <2>1 DEF RuntimeAt, Idle
    <3>2. Destroyed(c)' => Destroyed(c) BY <2>1 DEF Destroyed
    <3> QED BY <1>0, <2>1, <3>1, <3>2 DEF RuntimeAt
  <2> QED BY <2>1, <2>2, RuntimeKept
<1>2. CASE Leave(c)
  <2>1. /\ frame[c].at = "returned" /\ frame'[c] = Idle
        /\ UNCHANGED <<CLIENTS, clientsLock, tasks, overtaken>>
        /\ \A d \in Clients : d # c => frame'[d] = frame[d] /\ client'[d] = client[d]
        /\ client'[c] = "gone" => Destroyed(c)
    BY <1>2 DEF Leave, Destroyed, TypeOK
  <2>2. RuntimeAt(c)'
    <3>1. clientsLock # c BY <1>0, <2>1 DEF RuntimeAt
    <3>2. Destroyed(c)' => Destroyed(c) BY <2>1 DEF Destroyed, Idle
    <3> QED BY <1>0, <2>1, <3>1, <3>2 DEF RuntimeAt, Idle
  <2> QED BY <2>1, <2>2, RuntimeKept
<1>3. CASE Deliver(c)
  <2>1. UNCHANGED <<client, frame, CLIENTS, clientsLock, tasks, overtaken>> BY <1>3 DEF Deliver
  <2> QED BY <2>1, RuntimeKept
<1> QED BY <1>1, <1>2, <1>3

LEMMA RuntimeAfter ==
    ASSUME \A c \in Clients : RuntimeAt(c)'
    PROVE  CallersInv' /\ LockInv' /\ QuietOnceDestroyed'
<1>1. \A c \in Clients : (Holders(c) = {})' <=> \A t \in tasks' : t.client = c => t.kind # "add"
  BY DEF Holders
<1> QED BY <1>1 DEF CallersInv, LockInv, QuietOnceDestroyed, RuntimeAt

LEMMA RuntimeStep ==
    ASSUME Inv, [Next]_vars
    PROVE  CallersInv' /\ LockInv' /\ QuietOnceDestroyed'
<1>0. TypeOK /\ \A d \in Clients : RuntimeAt(d) BY RuntimeParts DEF Inv
<1>1. CASE Run
  <2>1. PICK t \in tasks : AddSucceeds(t) \/ GetsString(t) \/ CallsDart(t) \/ Ends(t)
    BY <1>1 DEF Run
  <2>2. UNCHANGED <<client, frame, CLIENTS, clientsLock, overtaken>>
    BY <2>1 DEF AddSucceeds, GetsString, CallsDart, Ends, dartVars
  <2>3. t \in AddTasks \cup NextTasks BY <1>0 DEF TypeOK
  <2>4. \A u \in tasks' : u \in tasks \/ (u.client = t.client /\ u.kind = t.kind)
    <3>1. \/ tasks' = tasks \ {t}
          \/ \E s : tasks' = (tasks \ {t}) \cup {[t EXCEPT !.step = s]}
          \/ \E h : tasks' = (tasks \ {t}) \cup {[t EXCEPT !.step = "done", !.handle = h]}
      BY <2>1 DEF AddSucceeds, GetsString, CallsDart, Ends, Step
    <3>2. \A s : [t EXCEPT !.step = s].client = t.client /\ [t EXCEPT !.step = s].kind = t.kind
      BY <2>3 DEF AddTasks, NextTasks
    <3>3. \A h : LET u == [t EXCEPT !.step = "done", !.handle = h]
                 IN  u.client = t.client /\ u.kind = t.kind
      BY <2>3 DEF AddTasks, NextTasks
    <3>4. CASE tasks' = tasks \ {t} BY <3>4
    <3>5. ASSUME NEW s, tasks' = (tasks \ {t}) \cup {[t EXCEPT !.step = s]}
          PROVE  \A u \in tasks' : u \in tasks \/ (u.client = t.client /\ u.kind = t.kind)
      <4> DEFINE v == [t EXCEPT !.step = s]
      <4>1. v.client = t.client /\ v.kind = t.kind BY <3>2
      <4>2. tasks' = (tasks \ {t}) \cup {v} BY <3>5
      <4> HIDE DEF v
      <4> QED BY <4>1, <4>2
    <3>6. ASSUME NEW h, tasks' = (tasks \ {t}) \cup {[t EXCEPT !.step = "done", !.handle = h]}
          PROVE  \A u \in tasks' : u \in tasks \/ (u.client = t.client /\ u.kind = t.kind)
      <4> DEFINE v == [t EXCEPT !.step = "done", !.handle = h]
      <4>1. v.client = t.client /\ v.kind = t.kind BY <3>3
      <4>2. tasks' = (tasks \ {t}) \cup {v} BY <3>6
      <4> HIDE DEF v
      <4> QED BY <4>1, <4>2
    <3> QED BY <3>1, <3>4, <3>5, <3>6
  <2>5. \A d \in Clients : \A u \in tasks' :
            u.client = d => \E v \in tasks : v.client = d /\ v.kind = u.kind
    BY <2>4
  <2>6. \A d \in Clients : RuntimeAt(d)' BY <1>0, <2>2, <2>5, RuntimeKept
  <2> QED BY <2>6, RuntimeAfter
<1>2. CASE UNCHANGED vars
  <2>1. UNCHANGED <<client, frame, CLIENTS, clientsLock, tasks, overtaken>>
    BY <1>2 DEF vars, dartVars
  <2>2. \A d \in Clients : RuntimeAt(d)' BY <1>0, <2>1, RuntimeKept
  <2> QED BY <2>2, RuntimeAfter
<1>3. ASSUME NEW c \in Clients, CallsBack(c) \/ Calls(c) \/ Leave(c) \/ Deliver(c) \/ Native(c)
      PROVE  CallersInv' /\ LockInv' /\ QuietOnceDestroyed'
  <2>1. \A d \in Clients : RuntimeAt(d)' BY <1>0, <1>3, DartRuntime, NativeRuntime
  <2> QED BY <2>1, RuntimeAfter
<1> QED BY <1>1, <1>2, <1>3 DEF Next

-----------------------------------------------------------------------------
(* The invariant is kept.                                                  *)
LEMMA InvStep == Inv /\ [Next]_vars => Inv'
<1> SUFFICES ASSUME Inv, [Next]_vars PROVE Inv' OBVIOUS
<1> QED BY TypeStep, HandlesStep, AddsStep, StringsStep, RuntimeStep DEF Inv

(* In every behaviour of the bindings and the library, with any number of  *)
(* clients, calls and configurations: the types with the configurations    *)
(* that abort nothing, and all of the parts below.                         *)
THEOREM InvAlways == Spec => []Inv
BY InitInv, InvStep, PTL DEF Spec

(* "Dart must free the returned string": what Dart reads is allocated, and *)
(* what it has read is freed, but for the strings of callbacks.            *)
THEOREM StringsOwnedAlways == Spec => []StringsOwned
<1>1. Inv => StringsOwned BY DEF Inv
<1> QED BY <1>1, InvAlways, PTL

(* A handle goes on naming the chain it was given for, or names none, and  *)
(* a relay chain is the one the caller passed, however many clients share  *)
(* CHAINS: generate_chain_handle never gives a handle twice.               *)
THEOREM HandlesMeantAlways == Spec => []HandlesMeant
<1>1. Inv => HandlesMeant BY DEF Inv, HandlesInv, HandlesMeant, Agrees
<1> QED BY <1>1, InvAlways, PTL

(* Only a destroyed client whose smoldot_add_chain had not ended has its   *)
(* runtime dropped, and the process aborted, on the runtime's own thread.  *)
THEOREM AbortsOnlyByAddAlways == Spec => []AbortsOnlyByAdd
<1>1. Inv => AbortsOnlyByAdd BY DEF Inv, AddsInv
<1> QED BY <1>1, InvAlways, PTL

(* Once smoldot_client_destroy has returned, no task of its client can     *)
(* call back, unless it overtook a smoldot_add_chain that had not ended.   *)
THEOREM QuietOnceDestroyedAlways == Spec => []QuietOnceDestroyed
<1>1. Inv => QuietOnceDestroyed BY DEF Inv
<1> QED BY <1>1, InvAlways, PTL

(* CLIENTS is locked across steps only by a call that drops a runtime to   *)
(* which no task refers, and which is in the registry no more.             *)
THEOREM LockAlways == Spec => []LockInv
<1>1. Inv => LockInv BY DEF Inv
<1> QED BY <1>1, InvAlways, PTL
=============================================================================
