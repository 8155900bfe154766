------------------------------ MODULE SmoldotFfi ------------------------------
(***************************************************************************)
(* The C interface of packages/smoldot/rust and the Dart bindings that     *)
(* call it: who owns a string, what a handle names, how an error is told,  *)
(* and which thread drops a client's Tokio runtime.                        *)
(*                                                                         *)
(* Each client lives in an isolate of its own, whose thread makes one      *)
(* native call at a time; the tasks of the runtimes and the other threads  *)
(* run in between.  A chain is named by the call of addChain that made it, *)
(* a block of memory by its purpose and the thread or call it serves.      *)
(***************************************************************************)
EXTENDS Integers, Sequences

CONSTANTS
    Clients,        \* the clients, each with its isolate's thread
    MaxCalls,       \* bound on the calls that spawn a task
    MaxSends,       \* bound on the calls of send and version
    U64Max,         \* the largest u64 and the largest usize of the platform,
    UsizeMax,       \* scaled down; 32-bit targets have the smaller usize
    StatementJson,  \* the statement configurations that Dart may pass
    None            \* no client, chain or configuration

ASSUME WidthAssumption == U64Max \in Nat /\ UsizeMax \in 2..U64Max
ASSUME BoundsAssumption == MaxCalls \in Nat /\ MaxSends \in Nat
ASSUME NoneAssumption == None \notin Clients

VARIABLES
    client,      \* Dart: "new", "ready" or "gone"
    frame,       \* what each thread does in the bindings
    sends,       \* calls of send and version, of all clients
    known,       \* chain handles that Dart was given, with their chains
    listed,      \* the handles in _chains
    heap,        \* allocated blocks
    CLIENTS,     \* clients in the library's registry
    clientsLock, \* the client whose destruction holds that registry's lock
    CHAINS,      \* registered handles: the chain and its client
    nextHandle,  \* generate_chain_handle's counter
    nextCall,    \* the next callback id
    tasks,       \* spawned tasks
    inbox,       \* callbacks on their way to the isolates
    overtaken,   \* clients destroyed while a task of theirs added a chain
    aborted      \* clients whose runtime one of its own threads dropped

dartVars == <<client, sends, known, listed>>
vars == <<dartVars, frame, heap, CLIENTS, clientsLock, CHAINS, nextHandle, nextCall, tasks,
          inbox, overtaken, aborted>>

-----------------------------------------------------------------------------
(* build_statement_config, on a record of JSON numbers.  An absent one has *)
(* a default, and a number that is no u64 does not parse.                  *)
Default == [maxSeen |-> 2, rate |-> "inside", interval |-> 1]

Given(json, field) == IF field \in DOMAIN json THEN json[field] ELSE Default[field]

WithDefaults(json) ==
    [maxSeen |-> Given(json, "maxSeen"), rate |-> Given(json, "rate"),
     interval |-> Given(json, "interval")]

(* usize::try_from(n).unwrap_or(usize::MAX).                               *)
ToUsize(n) == IF n <= UsizeMax THEN n ELSE UsizeMax

Config(json) == [WithDefaults(json) EXCEPT !.maxSeen = ToUsize(@)]

Parses(json) ==
    WithDefaults(json).maxSeen \in 0..U64Max /\ WithDefaults(json).interval \in 0..U64Max

(* Variant: an interval of zero is let through.                            *)
AcceptsAnyInterval(json) ==
    Parses(json) /\ Config(json).maxSeen # 0 /\ Config(json).rate = "inside"

Accepts(json) ==
    /\ Parses(json)
    /\ Config(json).maxSeen # 0 /\ Config(json).rate = "inside" /\ Config(json).interval # 0

(* What StatementProtocolConfig::new asserts.                              *)
ValidConfig == [maxSeen : 1..UsizeMax, rate : {"inside"}, interval : 1..U64Max]

-----------------------------------------------------------------------------
Block(kind, who) == [kind |-> kind, who |-> who]

(* The blocks a binding allocates with malloc and frees in its finally.    *)
Arguments(op, c) ==
    (IF op = "version" THEN {} ELSE {Block("errorOut", c)})
    \cup (IF op \in {"init", "add", "send"} THEN {Block("argument", c)} ELSE {})

(* What the library has handed out and the binding frees: set_error's      *)
(* string, and that of smoldot_version.                                    *)
Strings(f, c) ==
    IF f.at # "returned" THEN {}
    ELSE IF f.op = "version" THEN {Block("version", c)}
    ELSE IF f.failed THEN {Block("error", c)} ELSE {}

(* Variant: the task's CString is dropped when the callback returns.       *)
HandedOverNothing(call) == {}

(* A task's string is forgotten, for Dart to free.                         *)
HandedOver(call) == {Block("result", call)}

(* The memory that Dart still has to free, and the strings it has to read. *)
Held ==
    UNION {IF frame[c].at = "idle" THEN {}
           ELSE Arguments(frame[c].op, c) \cup Strings(frame[c], c) : c \in Clients}

Unread ==
    UNION {{Block("result", m.call) : m \in {inbox[c][i] : i \in {j \in DOMAIN inbox[c] :
                inbox[c][j].handle = 0}}} : c \in Clients}

Needed == Held \cup Unread

Idle == [at |-> "idle"]

Known == [client : Clients, handle : Nat \ {0}, chain : 1..MaxCalls]

Frames ==
    [at : {"native", "unlisted", "dropping", "returned"}, failed : BOOLEAN,
     op : {"init", "version", "add", "next", "send", "remove", "destroy"}, call : 0..MaxCalls,
     handle : Nat, relay : Known \cup {None}, json : StatementJson \cup {None}]

AddTasks ==
    [kind : {"add"}, client : Clients, call : 1..MaxCalls, handle : Nat,
     step : {"running", "done", "called"}, asked : Known \cup {None}, given : 0..MaxCalls,
     config : ValidConfig \cup {None}]

NextTasks ==
    [kind : {"next"}, client : Clients, call : 1..MaxCalls, handle : Nat,
     step : {"running", "done", "called"}]

Messages == [call : 1..MaxCalls, handle : Nat]

(* The types; and "returns a human-readable error string instead of        *)
(* panicking, because StatementProtocolConfig::new asserts on invalid      *)
(* inputs": no task has a configuration that would abort the process.      *)
TypeOK ==
    /\ client \in [Clients -> {"new", "ready", "gone"}]
    /\ frame \in [Clients -> Frames \cup {Idle}]
    /\ known \subseteq Known
    /\ listed \subseteq {k.handle : k \in known}
    /\ CLIENTS \subseteq Clients
    /\ clientsLock \in Clients \cup {None}
    /\ nextHandle \in Nat \ {0} /\ nextCall \in 1..(MaxCalls + 1)
    /\ DOMAIN CHAINS \subseteq 1..(nextHandle - 1)
    /\ CHAINS \in [DOMAIN CHAINS -> [chain : 1..MaxCalls, client : Clients]]
    /\ tasks \subseteq AddTasks \cup NextTasks
    /\ inbox \in [Clients -> Seq(Messages)]
    /\ aborted \subseteq Clients

Init ==
    /\ client = [c \in Clients |-> "new"]
    /\ frame = [c \in Clients |-> Idle]
    /\ sends = 0
    /\ known = {} /\ listed = {} /\ heap = {}
    /\ CLIENTS = {} /\ clientsLock = None
    /\ CHAINS = <<>> /\ nextHandle = 1 /\ nextCall = 1
    /\ tasks = {} /\ inbox = [c \in Clients |-> <<>>]
    /\ overtaken = {} /\ aborted = {}

-----------------------------------------------------------------------------
(* Dart: a binding allocates its arguments and calls the library.          *)

Call(op) ==
    [at |-> "native", failed |-> FALSE, op |-> op, call |-> 0, handle |-> 0, relay |-> None,
     json |-> None]

Enter(c, call) ==
    /\ frame[c] = Idle
    /\ frame' = [frame EXCEPT ![c] = call]
    /\ heap' = heap \cup Arguments(call.op, c)
    /\ UNCHANGED <<CLIENTS, clientsLock, CHAINS, nextHandle, tasks, inbox, overtaken, aborted>>

OwnHandles(c) == {k.handle : k \in {j \in known : j.client = c}}

(* Calls that spawn a task have a callback id.  A relay chain is passed as *)
(* a handle of this client, which may be that of a removed chain.          *)
CallsBack(c) ==
    /\ client[c] = "ready" /\ nextCall <= MaxCalls
    /\ \/ \E relay \in {k \in known : k.client = c} \cup {None},
             json \in StatementJson \cup {None} :
              Enter(c, [Call("add") EXCEPT !.call = nextCall, !.relay = relay, !.json = json])
       \/ \E h \in OwnHandles(c) \cap listed :
              Enter(c, [Call("next") EXCEPT !.call = nextCall, !.handle = h])
    /\ nextCall' = nextCall + 1
    /\ UNCHANGED dartVars

Calls(c) ==
    /\ UNCHANGED nextCall
    /\ \/ /\ sends < MaxSends
          /\ \/ Enter(c, Call("version"))
             \/ \E h \in OwnHandles(c) \cap listed : Enter(c, [Call("send") EXCEPT !.handle = h])
          /\ sends' = sends + 1
          /\ UNCHANGED <<client, known, listed>>
       \/ /\ \/ client[c] = "new" /\ Enter(c, Call("init"))
             \/ \E h \in OwnHandles(c) \cap listed : Enter(c, [Call("remove") EXCEPT !.handle = h])
          /\ UNCHANGED dartVars
       \/ /\ client[c] = "ready" /\ Enter(c, Call("destroy"))
          /\ listed' = listed \ OwnHandles(c)
          /\ UNCHANGED <<client, sends, known>>

(* _freeString, and the finally of the binding.                            *)
Freed(f, c) == Arguments(f.op, c) \cup Strings(f, c)

(* The binding throws the error or gives its result to the client.         *)
Leave(c) ==
    LET f == frame[c]
    IN  /\ f.at = "returned"
        /\ heap' = heap \ Freed(f, c)
        /\ client' = [client EXCEPT ![c] = CASE f.op = "init" /\ ~f.failed    -> "ready"
                                             [] f.op = "destroy" /\ ~f.failed -> "gone"
                                             [] OTHER                         -> @]
        /\ listed' = IF f.op = "remove" /\ ~f.failed THEN listed \ {f.handle} ELSE listed
        /\ inbox' = IF f.op = "destroy" THEN [inbox EXCEPT ![c] = <<>>] ELSE inbox
        /\ frame' = [frame EXCEPT ![c] = Idle]
        /\ UNCHANGED <<sends, known, CLIENTS, clientsLock, CHAINS, nextHandle, nextCall, tasks,
                       overtaken, aborted>>

(* _dartCallback: a new chain gets its handle, any other message a string. *)
Deliver(c) ==
    /\ frame[c] = Idle /\ inbox[c] # <<>>
    /\ LET m == Head(inbox[c])
       IN  IF m.handle = 0 THEN UNCHANGED <<known, listed>>
           ELSE /\ known' = known \cup {[client |-> c, handle |-> m.handle, chain |-> m.call]}
                /\ listed' = listed \cup {m.handle}
    /\ inbox' = [inbox EXCEPT ![c] = Tail(@)]
    /\ UNCHANGED <<client, sends, frame, heap, CLIENTS, clientsLock, CHAINS, nextHandle,
                   nextCall, tasks, overtaken, aborted>>

-----------------------------------------------------------------------------
(* The library, on the thread of its caller.                               *)

In(c, op) == frame[c].at = "native" /\ frame[c].op = op

Return(c, failed) ==
    /\ frame' = [frame EXCEPT ![c].at = "returned", ![c].failed = failed]
    /\ heap' = heap \cup Strings(frame'[c], c)
    /\ UNCHANGED dartVars

(* smoldot_client_init, and smoldot_version.                               *)
NativeInit(c) ==
    /\ In(c, "init")
    /\ \/ Return(c, TRUE) /\ UNCHANGED CLIENTS
       \/ clientsLock = None /\ Return(c, FALSE) /\ CLIENTS' = CLIENTS \cup {c}
    /\ UNCHANGED <<clientsLock, CHAINS, nextHandle, nextCall, tasks, inbox, overtaken, aborted>>

NativeVersion(c) ==
    /\ In(c, "version") /\ Return(c, FALSE)
    /\ UNCHANGED <<CLIENTS, clientsLock, CHAINS, nextHandle, nextCall, tasks, inbox, overtaken,
                   aborted>>

(* smoldot_add_chain drops the relay handles that CHAINS does not have.    *)
NativeAdd(c) ==
    LET f == frame[c]
        given == IF f.relay # None /\ f.relay.handle \in DOMAIN CHAINS
                 THEN CHAINS[f.relay.handle].chain ELSE 0
    IN  /\ In(c, "add") /\ clientsLock = None
        /\ IF c \in CLIENTS /\ (f.json # None => Accepts(f.json))
           THEN /\ Return(c, FALSE)
                /\ tasks' = tasks \cup {[kind |-> "add", client |-> c, call |-> f.call,
                       handle |-> 0, step |-> "running", asked |-> f.relay, given |-> given,
                       config |-> IF f.json = None THEN None ELSE Config(f.json)]}
           ELSE Return(c, TRUE) /\ UNCHANGED tasks
        /\ UNCHANGED <<CLIENTS, clientsLock, CHAINS, nextHandle, nextCall, inbox, overtaken, aborted>>

(* smoldot_send_json_rpc, smoldot_next_json_rpc_response and               *)
(* smoldot_remove_chain need the chain and its client.                     *)
Found(h) == h \in DOMAIN CHAINS /\ CHAINS[h].client \in CLIENTS

MayLookUp(h) == h \in DOMAIN CHAINS => clientsLock = None

NativeSend(c) ==
    /\ In(c, "send") /\ MayLookUp(frame[c].handle)
    /\ \E failed \in BOOLEAN : (~Found(frame[c].handle) => failed) /\ Return(c, failed)
    /\ UNCHANGED <<CLIENTS, clientsLock, CHAINS, nextHandle, nextCall, tasks, inbox, overtaken,
                   aborted>>

NativeNext(c) ==
    /\ In(c, "next") /\ MayLookUp(frame[c].handle)
    /\ Return(c, ~Found(frame[c].handle))
    /\ IF Found(frame[c].handle)
       THEN tasks' = tasks \cup {[kind |-> "next", client |-> c, call |-> frame[c].call,
                                  handle |-> 0, step |-> "running"]}
       ELSE UNCHANGED tasks
    /\ UNCHANGED <<CLIENTS, clientsLock, CHAINS, nextHandle, nextCall, inbox, overtaken,
                   aborted>>

NativeRemove(c) ==
    /\ In(c, "remove") /\ MayLookUp(frame[c].handle)
    /\ Return(c, ~Found(frame[c].handle))
    /\ CHAINS' = [h \in DOMAIN CHAINS \ {frame[c].handle} |-> CHAINS[h]]
    /\ UNCHANGED <<CLIENTS, clientsLock, nextHandle, nextCall, tasks, inbox, overtaken, aborted>>

-----------------------------------------------------------------------------
(* smoldot_client_destroy: the chains, the client, and when it was the     *)
(* last reference the runtime, which waits for the tasks that are polled.  *)

(* Variant: the task of smoldot_next_json_rpc_response keeps the client.   *)
HoldersOfAnyTask(c) == {t \in tasks : t.client = c}

(* The task of smoldot_add_chain has a clone of the Arc.                   *)
Holders(c) == {t \in tasks : t.client = c /\ t.kind = "add"}

DestroyChains(c) ==
    /\ In(c, "destroy")
    /\ frame' = [frame EXCEPT ![c].at = "unlisted"]
    /\ CHAINS' = [h \in {i \in DOMAIN CHAINS : CHAINS[i].client # c} |-> CHAINS[h]]
    /\ UNCHANGED <<dartVars, heap, CLIENTS, clientsLock, nextHandle, nextCall, tasks, inbox,
                   overtaken, aborted>>

DestroyClient(c) ==
    /\ frame[c].at = "unlisted" /\ clientsLock = None
    /\ CLIENTS' = CLIENTS \ {c}
    /\ IF c \notin CLIENTS \/ Holders(c) # {}
       THEN Return(c, c \notin CLIENTS) /\ UNCHANGED clientsLock
       ELSE /\ frame' = [frame EXCEPT ![c].at = "dropping"]
            /\ clientsLock' = c
            /\ UNCHANGED <<dartVars, heap>>
    /\ overtaken' = IF \E t \in tasks : t.client = c /\ t.kind = "add"
                    THEN overtaken \cup {c} ELSE overtaken
    /\ UNCHANGED <<CHAINS, nextHandle, nextCall, tasks, inbox, aborted>>

DestroyRuntime(c) ==
    /\ frame[c].at = "dropping"
    /\ \A t \in tasks : t.client = c => t.step = "running"
    /\ tasks' = {t \in tasks : t.client # c}
    /\ clientsLock' = None
    /\ Return(c, FALSE)
    /\ UNCHANGED <<CLIENTS, CHAINS, nextHandle, nextCall, inbox, overtaken, aborted>>

-----------------------------------------------------------------------------
(* The tasks.  "running" is also waiting to be polled.                     *)

Step(t, s) == tasks' = (tasks \ {t}) \cup {[t EXCEPT !.step = s]}

(* Variant: the first handle that is free.                                 *)
GenerateFreeHandle == CHOOSE h \in 1..MaxCalls : h \notin DOMAIN CHAINS

generate_chain_handle == nextHandle

AddSucceeds(t) ==
    /\ t.kind = "add" /\ t.step = "running"
    /\ CHAINS' = [h \in DOMAIN CHAINS \cup {generate_chain_handle} |->
                      IF h = generate_chain_handle
                      THEN [chain |-> t.call, client |-> t.client] ELSE CHAINS[h]]
    /\ nextHandle' = nextHandle + 1
    /\ tasks' = (tasks \ {t}) \cup {[t EXCEPT !.step = "done", !.handle = generate_chain_handle]}
    /\ UNCHANGED <<dartVars, frame, heap, CLIENTS, clientsLock, nextCall, inbox, overtaken,
                   aborted>>

(* Variant: the task looks its client up again.                            *)
MayGoOnWithLock(t) == clientsLock = None

(* No lock is needed for what a task does next.                            *)
MayGoOn(t) == TRUE

(* The rest fail or end with a string: a response, or an error message.    *)
GetsString(t) ==
    /\ t.step = "running"
    /\ Step(t, "done")
    /\ UNCHANGED <<dartVars, frame, heap, CLIENTS, clientsLock, CHAINS, nextHandle, nextCall,
                   inbox, overtaken, aborted>>

CallsDart(t) ==
    /\ t.step = "done" /\ MayGoOn(t)
    /\ heap' = IF t.handle = 0 THEN heap \cup HandedOver(t.call) ELSE heap
    /\ inbox' = IF client[t.client] = "gone" THEN inbox
                ELSE [inbox EXCEPT ![t.client] =
                          Append(@, [call |-> t.call, handle |-> t.handle])]
    /\ Step(t, "called")
    /\ UNCHANGED <<dartVars, frame, CLIENTS, clientsLock, CHAINS, nextHandle, nextCall,
                   overtaken, aborted>>

(* The task's end drops what it holds.  The last reference to a client     *)
(* drops its runtime, on the task's own thread: Tokio panics there.        *)
Ends(t) ==
    /\ t.step = "called"
    /\ aborted' = IF t.client \notin CLIENTS /\ Holders(t.client) = {t}
                  THEN aborted \cup {t.client} ELSE aborted
    /\ tasks' = tasks \ {t}
    /\ UNCHANGED <<dartVars, frame, heap, CLIENTS, clientsLock, CHAINS, nextHandle, nextCall,
                   inbox, overtaken>>

-----------------------------------------------------------------------------
Native(c) ==
    \/ NativeInit(c) \/ NativeVersion(c) \/ NativeAdd(c) \/ NativeSend(c) \/ NativeNext(c)
    \/ NativeRemove(c) \/ DestroyChains(c) \/ DestroyClient(c) \/ DestroyRuntime(c)

Run == \E t \in tasks : AddSucceeds(t) \/ GetsString(t) \/ CallsDart(t) \/ Ends(t)

Next ==
    \/ \E c \in Clients : CallsBack(c) \/ Calls(c) \/ Leave(c) \/ Deliver(c) \/ Native(c)
    \/ Run

(* The threads run, and each runtime polls its tasks until they end.       *)
Fairness ==
    /\ \A c \in Clients : WF_vars(Native(c)) /\ WF_vars(Leave(c))
    /\ WF_vars(\E t \in tasks : CallsDart(t) \/ Ends(t))

Spec == Init /\ [][Next]_vars /\ Fairness

-----------------------------------------------------------------------------
(* What Dart reads is still allocated, what it has read is freed, but for  *)
(* the strings of callbacks: "Dart must free" them, and never does.        *)
StringsOwned ==
    /\ Needed \subseteq heap
    /\ \A b \in heap \ Needed : b.kind = "result"

(* A handle that Dart was given names the chain that it was given for, or  *)
(* none any more, and a chain is added with the relay chain that the       *)
(* caller passed, or with none.                                            *)
HandlesMeant ==
    /\ \A k \in known : k.handle \in DOMAIN CHAINS => CHAINS[k.handle].chain = k.chain
    /\ \A t \in tasks : t.kind = "add" /\ t.given # 0 => t.given = t.asked.chain

(* A thread of the runtime drops it, and so aborts the process, only when  *)
(* the client was destroyed before a task of smoldot_add_chain had ended:  *)
(* pending smoldot_next_json_rpc_response calls never cause that.          *)
AbortsOnlyByAdd == aborted \subseteq overtaken

(* Every native call returns to its isolate, that of smoldot_client_destroy *)
(* too, which drops the runtime with the registry locked.                  *)
EveryCallReturns == \A c \in Clients : frame[c] # Idle ~> frame[c] = Idle
-----------------------------------------------------------------------------
(* What holds the properties up: a handle is given out once, so that what  *)
(* carries one agrees with CHAINS, and a relay chain is one Dart was given.*)
Agrees(handle, chain) ==
    /\ handle < nextHandle
    /\ handle \in DOMAIN CHAINS => CHAINS[handle].chain = chain

HandlesInv ==
    /\ \A k \in known : Agrees(k.handle, k.chain)
    /\ \A t \in tasks : t.handle # 0 => Agrees(t.handle, t.call)
    /\ \A c \in Clients : \A i \in DOMAIN inbox[c] :
           inbox[c][i].handle # 0 => Agrees(inbox[c][i].handle, inbox[c][i].call)
    /\ \A c \in Clients : frame[c] # Idle =>
           /\ frame[c].relay \in known \cup {None}
           /\ frame[c].op \in {"add", "next"} => frame[c].call # 0
    /\ \A t \in tasks : t.kind = "add" /\ t.given # 0 => t.given = t.asked.chain

(* Only a destroyed client has lost its entry while a task adds a chain.   *)
AddsInv ==
    /\ \A t \in tasks : t.kind = "add" /\ t.client \notin CLIENTS => t.client \in overtaken
    /\ AbortsOnlyByAdd

(* CLIENTS is locked by the call that drops a runtime, which left the      *)
(* registry and to which no task refers: the lock will be given back.      *)
LockInv ==
    \A c \in Clients :
        /\ clientsLock = c <=> frame[c].at = "dropping"
        /\ frame[c].at = "dropping" => c \notin CLIENTS /\ Holders(c) = {}

Destroyed(c) ==
    \/ client[c] = "gone"
    \/ frame[c].at = "returned" /\ frame[c].op = "destroy" /\ ~frame[c].failed

(* Once smoldot_client_destroy has returned, no task of the client is left *)
(* that could call back, unless a task was adding a chain.                 *)
QuietOnceDestroyed ==
    \A c \in Clients : Destroyed(c) =>
        /\ c \notin CLIENTS
        /\ c \in overtaken \/ \A t \in tasks : t.client # c

CallersInv ==
    \A c \in Clients : frame[c] # Idle =>
        /\ frame[c].op = "init" => client[c] = "new"
        /\ frame[c].op \in {"add", "next", "destroy"} => client[c] = "ready"
        /\ frame[c].at \in {"unlisted", "dropping"} => frame[c].op = "destroy"

Inv ==
    /\ TypeOK /\ HandlesInv /\ AddsInv /\ StringsOwned
    /\ CallersInv /\ LockInv /\ QuietOnceDestroyed
=============================================================================
