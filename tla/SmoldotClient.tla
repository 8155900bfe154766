---------------------------- MODULE SmoldotClient ----------------------------
(***************************************************************************)
(* SmoldotClient of packages/smoldot and the Rust library behind it: Dart  *)
(* clients add and remove chains and are disposed of, while tasks of each  *)
(* client's Tokio runtime add the chains and call back into the isolate.   *)
(*                                                                         *)
(* A chain handle is unique in the process, and there is at most one for   *)
(* each call of addChain: that call stands for it.  A client is            *)
(* initialized once, so its name stands for its native handle.  Dart runs  *)
(* one step of the isolate at a time, up to the next await; the steps of   *)
(* the Rust tasks lie anywhere in between.                                 *)
(***************************************************************************)
EXTENDS Naturals, Sequences, TLC

CONSTANTS
    Clients,   \* SmoldotClient objects
    Adds,      \* calls of addChain
    NoChain

ASSUME ClientsAssumption == Clients # {}
ASSUME NoChainAssumption == NoChain \notin Adds

VARIABLES
    client,         \* each client: "new", "ready", "looping" or "ending" in
                    \* dispose, "gone" with its NativeCallable closed
    nextCallbackId, \* each client's _nextCallbackId
    chains,         \* each client's _chains, in insertion order
    position,       \* the chain dispose's loop has come to
    changed,        \* whether _chains changed since that loop began
    disposed,       \* the Chain objects disposed of, as <<client, handle>>
    removing,       \* those whose removeChain awaits its end
    threw,          \* clients whose dispose ended in an exception
    registry,       \* _globalCallbackRegistry: callback ids to calls
    call,           \* how far each call of addChain is
    owner,          \* the client it was made on
    result,         \* the handle it was given
    nativeClients,  \* CLIENTS
    nativeChains,   \* CHAINS
    tasks,          \* the spawned tasks of smoldot_add_chain
    inbox,          \* callbacks posted to the isolate
    faults,         \* what the process does not survive
    overlapped      \* clients one of whose calls was under way in dispose

dartVars   == <<client, nextCallbackId, chains, position, changed, disposed, removing,
                threw, registry, call, owner, result>>
nativeVars == <<nativeClients, nativeChains, tasks, inbox, faults>>
vars == <<dartVars, nativeVars, overlapped>>

-----------------------------------------------------------------------------
Initialized(c) == client[c] \in {"ready", "looping"}

Handles(c) == {chains[c][i] : i \in DOMAIN chains[c]}

Idle(c) ==
    /\ \A a \in Adds : owner[a] = c => call[a] \notin {"waiting", "resolved"}
    /\ \A h \in Adds : <<c, h>> \notin removing

(* dispose overlaps with another call on its client.                       *)
Overlap(c, does) == overlapped' = IF does THEN overlapped \cup {c} ELSE overlapped

Messages == [id : Nat, client : Clients, chain : Adds \cup {NoChain}]

TypeOK ==
    /\ client \in [Clients -> {"new", "ready", "looping", "ending", "gone"}]
    /\ nextCallbackId \in [Clients -> Nat \ {0}]
    /\ chains \in [Clients -> Seq(Adds)]
    /\ position \in [Clients -> Nat] /\ \A c \in Clients : position[c] <= Len(chains[c])
    /\ changed \in [Clients -> BOOLEAN]
    /\ disposed \subseteq Clients \X Adds
    /\ removing \subseteq disposed
    /\ DOMAIN registry \subseteq Nat /\ registry \in [DOMAIN registry -> Adds]
    /\ call \in [Adds -> {"idle", "waiting", "resolved", "done", "failed"}]
    /\ owner \in [Adds -> Clients]
    /\ result \in [Adds -> Adds \cup {NoChain}]
    /\ nativeClients \subseteq Clients
    /\ nativeChains \subseteq [chain : Adds, client : Clients]
    /\ tasks \subseteq [add : Adds, id : Nat, client : Clients,
                        step : {"adding", "added", "failed", "called"}]
    /\ inbox \in Seq(Messages)

Init ==
    /\ client = [c \in Clients |-> "new"]
    /\ nextCallbackId = [c \in Clients |-> 1]
    /\ chains = [c \in Clients |-> <<>>]
    /\ position = [c \in Clients |-> 0]
    /\ changed = [c \in Clients |-> FALSE]
    /\ disposed = {} /\ removing = {} /\ threw = {}
    /\ registry = <<>>
    /\ call = [a \in Adds |-> "idle"]
    /\ owner = [a \in Adds |-> CHOOSE c \in Clients : TRUE]
    /\ result = [a \in Adds |-> NoChain]
    /\ nativeClients = {} /\ nativeChains = {} /\ tasks = {}
    /\ inbox = <<>>
    /\ faults = {}
    /\ overlapped = {}

-----------------------------------------------------------------------------
(* Dart: initialize and addChain.                                          *)

Register(id, a) ==
    registry' = [i \in DOMAIN registry \cup {id} |-> IF i = id THEN a ELSE registry[i]]

Initialize(c) ==
    /\ client[c] = "new"
    /\ client' = [client EXCEPT ![c] = "ready"]
    /\ nativeClients' = nativeClients \cup {c}
    /\ UNCHANGED <<nextCallbackId, chains, position, changed, disposed, removing, threw,
                   registry, call, owner, result, nativeChains, tasks, inbox, faults, overlapped>>

(* Variants: every call has the first id, or the task is spawned before    *)
(* the configuration is checked.                                           *)
AddChainSameId(a, c) ==
    /\ call[a] = "idle"
    /\ Initialized(c)
    /\ Register(1, a)
    /\ owner' = [owner EXCEPT ![a] = c]
    /\ call' = [call EXCEPT ![a] = "waiting"]
    /\ tasks' = tasks \cup {[add |-> a, id |-> 1, client |-> c, step |-> "adding"]}
    /\ Overlap(c, client[c] = "looping")
    /\ UNCHANGED <<client, nextCallbackId, chains, position, changed, disposed, removing,
                   threw, result, nativeClients, nativeChains, inbox, faults>>

AddChainSpawnsFirst(a, c) ==
    /\ call[a] = "idle"
    /\ Initialized(c)
    /\ nextCallbackId' = [nextCallbackId EXCEPT ![c] = @ + 1]
    /\ Register(nextCallbackId[c], a)
    /\ owner' = [owner EXCEPT ![a] = c]
    /\ tasks' = tasks \cup {[add |-> a, id |-> nextCallbackId[c], client |-> c,
                             step |-> "adding"]}
    /\ \E end \in {"waiting", "failed"} : call' = [call EXCEPT ![a] = end]
    /\ Overlap(c, client[c] = "looping")
    /\ UNCHANGED <<client, chains, position, changed, disposed, removing, threw, result,
                   nativeClients, nativeChains, inbox, faults>>

(* addChain up to its await.  smoldot_add_chain refuses a bad statement    *)
(* configuration at once: addChain throws, its completer stays registered. *)
AddChain(a, c) ==
    /\ call[a] = "idle"
    /\ Initialized(c)
    /\ nextCallbackId' = [nextCallbackId EXCEPT ![c] = @ + 1]
    /\ Register(nextCallbackId[c], a)
    /\ owner' = [owner EXCEPT ![a] = c]
    /\ \/ /\ call' = [call EXCEPT ![a] = "waiting"]
          /\ tasks' = tasks \cup {[add |-> a, id |-> nextCallbackId[c], client |-> c,
                                   step |-> "adding"]}
       \/ /\ call' = [call EXCEPT ![a] = "failed"]
          /\ UNCHANGED tasks
    /\ Overlap(c, client[c] = "looping")
    /\ UNCHANGED <<client, chains, position, changed, disposed, removing, threw, result,
                   nativeClients, nativeChains, inbox, faults>>

-----------------------------------------------------------------------------
(* Rust: the task of smoldot_add_chain.                                    *)
Step(t, s) == tasks' = (tasks \ {t}) \cup {[t EXCEPT !.step = s]}

RustAdds(t) ==
    /\ t.step = "adding"
    /\ nativeChains' = nativeChains \cup {[chain |-> t.add, client |-> t.client]}
    /\ Step(t, "added")
    /\ UNCHANGED <<dartVars, nativeClients, inbox, faults, overlapped>>

(* Variant: an error is not reported to Dart.                              *)
RustFailsSilently(t) ==
    /\ t.step = "adding"
    /\ Step(t, "called")
    /\ UNCHANGED <<dartVars, nativeClients, nativeChains, inbox, faults, overlapped>>

RustFails(t) ==
    /\ t.step = "adding"
    /\ Step(t, "failed")
    /\ UNCHANGED <<dartVars, nativeClients, nativeChains, inbox, faults, overlapped>>

(* The callback posts a message to the isolate.  What a call of a closed   *)
(* NativeCallable does is undefined.                                       *)
RustCalls(t) ==
    /\ t.step \in {"added", "failed"}
    /\ Step(t, "called")
    /\ IF client[t.client] = "gone"
       THEN faults' = faults \cup {<<"closed callable called", t.client>>} /\ UNCHANGED inbox
       ELSE /\ inbox' = Append(inbox, [id |-> t.id, client |-> t.client,
                                       chain |-> IF t.step = "added" THEN t.add ELSE NoChain])
            /\ UNCHANGED faults
    /\ UNCHANGED <<dartVars, nativeClients, nativeChains, overlapped>>

(* The task's end drops its reference to the client's wrapper.  When it is *)
(* the last one, the runtime is dropped on one of its own threads: Tokio   *)
(* panics, and the release profile aborts the process.                     *)
RustEnds(t) ==
    /\ t.step = "called"
    /\ tasks' = tasks \ {t}
    /\ faults' = IF t.client \notin nativeClients /\ \A u \in tasks' : u.client # t.client
                 THEN faults \cup {<<"runtime dropped by its own thread", t.client>>} ELSE faults
    /\ UNCHANGED <<dartVars, nativeClients, nativeChains, inbox, overlapped>>

-----------------------------------------------------------------------------
(* Dart: _dartCallback, and addChain after its await.  What was posted to a *)
(* NativeCallable that is closed is not delivered.                         *)

DartCallback ==
    /\ inbox # <<>>
    /\ LET m == Head(inbox)
       IN  IF m.id \in DOMAIN registry /\ client[m.client] # "gone"
           THEN LET a == registry[m.id]
                IN  /\ registry' = [id \in DOMAIN registry \ {m.id} |-> registry[id]]
                    /\ result' = [result EXCEPT ![a] = m.chain]
                    /\ call' = [call EXCEPT ![a] =
                           IF @ = "waiting" THEN "resolved" ELSE @]
           ELSE UNCHANGED <<registry, result, call>>
    /\ inbox' = Tail(inbox)
    /\ UNCHANGED <<client, nextCallbackId, chains, position, changed, disposed, removing,
                   threw, owner, nativeClients, nativeChains, tasks, faults, overlapped>>

(* Variant: an error of the callback is taken for a handle.                *)
ResumeIgnoresError(a) ==
    /\ call[a] = "resolved"
    /\ call' = [call EXCEPT ![a] = IF Initialized(owner[a]) THEN "done" ELSE "failed"]
    /\ chains' = [chains EXCEPT ![owner[a]] =
                     IF Initialized(owner[a]) THEN Append(@, result[a]) ELSE @]
    /\ UNCHANGED <<client, nextCallbackId, position, changed, disposed, removing, threw,
                   registry, owner, result, nativeVars, overlapped>>

(* An error of the callback, and _clientHandle! after a dispose, throw.    *)
Resume(a) ==
    LET c == owner[a]
        h == result[a]
        ok == h # NoChain /\ Initialized(c)
    IN  /\ call[a] = "resolved"
        /\ call' = [call EXCEPT ![a] = IF ok THEN "done" ELSE "failed"]
        /\ IF ok
           THEN /\ chains' = [chains EXCEPT ![c] = IF h \in Handles(c) THEN @ ELSE Append(@, h)]
                /\ changed' = [changed EXCEPT ![c] =
                                 @ \/ (client[c] = "looping" /\ h \notin Handles(c))]
           ELSE UNCHANGED <<chains, changed>>
        /\ UNCHANGED <<client, nextCallbackId, position, disposed, removing, threw, registry,
                       owner, result, nativeVars, overlapped>>

-----------------------------------------------------------------------------
(* Variant: the Chain object is not disposed of.                           *)
RemoveChainOnly(c, h) ==
    /\ Initialized(c)
    /\ h \in Handles(c)
    /\ \E e \in nativeChains : e.chain = h /\ nativeChains' = nativeChains \ {e}
    /\ Overlap(c, client[c] = "looping")
    /\ UNCHANGED <<dartVars, nativeClients, tasks, inbox, faults>>

(* Dart: removeChain, before and after its await.  smoldot_remove_chain    *)
(* takes the chain out of CHAINS and then needs its client.                *)
RemoveChain(c, h) ==
    /\ Initialized(c)
    /\ h \in Handles(c)
    /\ \E e \in nativeChains :
           /\ e.chain = h
           /\ nativeChains' = nativeChains \ {e}
           /\ IF e.client \in nativeClients
              THEN /\ disposed' = disposed \cup {<<c, h>>}
                   /\ removing' = removing \cup {<<c, h>>}
              ELSE UNCHANGED <<disposed, removing>>
    /\ Overlap(c, client[c] = "looping")
    /\ UNCHANGED <<client, nextCallbackId, chains, position, changed, threw, registry, call,
                   owner, result, nativeClients, tasks, inbox, faults>>

(* A map without one of its keys.                                          *)
Without(keys, h) ==
    LET at == CHOOSE i \in DOMAIN keys : keys[i] = h
    IN  SubSeq(keys, 1, at - 1) \o SubSeq(keys, at + 1, Len(keys))

FinishRemove(c, h) ==
    /\ <<c, h>> \in removing
    /\ removing' = removing \ {<<c, h>>}
    /\ chains' = IF h \in Handles(c) THEN [chains EXCEPT ![c] = Without(@, h)] ELSE chains
    /\ changed' = [changed EXCEPT ![c] = @ \/ client[c] = "looping"]
    /\ position' = [position EXCEPT ![c] = 0]
    /\ UNCHANGED <<client, nextCallbackId, disposed, threw, registry, call, owner, result,
                   nativeVars, overlapped>>

-----------------------------------------------------------------------------
(* Dart: dispose, one step for each of its awaits.                         *)

(* Variant: smoldot_client_destroy forgets the client only.                *)
KeptByAll(c) == nativeChains

(* smoldot_client_destroy: CHAINS.retain.                                  *)
KeptByDestroy(c) == {e \in nativeChains : e.client # c}

(* Variant: the loop removes each chain from the map it goes through.      *)
LoopRemoves(c, i) ==
    IF i <= Len(chains[c])
    THEN /\ client' = [client EXCEPT ![c] = "looping"]
         /\ disposed' = disposed \cup {<<c, chains[c][i]>>}
         /\ chains' = [chains EXCEPT ![c] = Tail(@)]
         /\ changed' = [changed EXCEPT ![c] = TRUE]
         /\ UNCHANGED <<position, nativeClients, nativeChains>>
    ELSE /\ client' = [client EXCEPT ![c] = "ending"]
         /\ nativeChains' = KeptByDestroy(c)
         /\ nativeClients' = nativeClients \ {c}
         /\ UNCHANGED <<position, disposed, chains, changed>>

(* The loop's next round, or what follows the loop up to the next await.   *)
Loop(c, i) ==
    IF i <= Len(chains[c])
    THEN /\ client' = [client EXCEPT ![c] = "looping"]
         /\ position' = [position EXCEPT ![c] = i]
         /\ disposed' = disposed \cup {<<c, chains[c][i]>>}
         /\ UNCHANGED <<chains, changed, nativeClients, nativeChains>>
    ELSE /\ client' = [client EXCEPT ![c] = "ending"]
         /\ position' = [position EXCEPT ![c] = 0]
         /\ chains' = [chains EXCEPT ![c] = <<>>]
         /\ nativeChains' = KeptByDestroy(c)
         /\ nativeClients' = nativeClients \ {c}
         /\ UNCHANGED <<changed, disposed>>

Dispose(c) ==
    /\ client[c] = "ready"
    /\ Loop(c, 1)
    /\ Overlap(c, ~Idle(c))
    /\ UNCHANGED <<nextCallbackId, removing, threw, registry, call, owner, result, tasks,
                   inbox, faults>>

DisposeNext(c) ==
    /\ client[c] = "looping"
    /\ ~changed[c]
    /\ Loop(c, position[c] + 1)
    /\ UNCHANGED <<nextCallbackId, removing, threw, registry, call, owner, result, tasks,
                   inbox, faults, overlapped>>

(* The iterator finds the map changed: dispose throws, before the client   *)
(* is destroyed.                                                           *)
DisposeThrows(c) ==
    /\ client[c] = "looping"
    /\ changed[c]
    /\ client' = [client EXCEPT ![c] = "ready"]
    /\ position' = [position EXCEPT ![c] = 0]
    /\ changed' = [changed EXCEPT ![c] = FALSE]
    /\ threw' = threw \cup {c}
    /\ UNCHANGED <<nextCallbackId, chains, disposed, removing, registry, call, owner, result,
                   nativeVars, overlapped>>

(* _nativeCallable.close().                                                *)
DisposeEnds(c) ==
    /\ client[c] = "ending"
    /\ client' = [client EXCEPT ![c] = "gone"]
    /\ UNCHANGED <<nextCallbackId, chains, position, changed, disposed, removing, threw,
                   registry, call, owner, result, nativeVars, overlapped>>

-----------------------------------------------------------------------------
Next ==
    \/ \E c \in Clients :
           \/ Initialize(c)
           \/ \E a \in Adds : AddChain(a, c) \/ RemoveChain(c, a) \/ FinishRemove(c, a)
           \/ Dispose(c) \/ DisposeNext(c) \/ DisposeThrows(c) \/ DisposeEnds(c)
    \/ \E t \in tasks : RustAdds(t) \/ RustFails(t) \/ RustCalls(t) \/ RustEnds(t)
    \/ DartCallback
    \/ \E a \in Adds : Resume(a)

(* Tokio runs its tasks, and the event loop every message and continuation.*)
Fairness ==
    /\ WF_vars(\E t \in tasks : RustAdds(t) \/ RustFails(t) \/ RustCalls(t) \/ RustEnds(t))
    /\ WF_vars(DartCallback)
    /\ \A a \in Adds : WF_vars(Resume(a))
    /\ \A c \in Clients, a \in Adds : WF_vars(FinishRemove(c, a))
    /\ \A c \in Clients : WF_vars(DisposeNext(c) \/ DisposeThrows(c) \/ DisposeEnds(c))

Spec == Init /\ [][Next]_vars /\ Fairness

-----------------------------------------------------------------------------
(* A chain that the client lists and that is not disposed of is one that   *)
(* the Rust library keeps for this client: its requests find a handle.     *)
Served ==
    \A c \in Clients : \A h \in Handles(c) :
        <<c, h>> \notin disposed => [chain |-> h, client |-> c] \in nativeChains

(* "Returns a [Chain] instance for interacting with the chain" (addChain): *)
(* a caller gets the chain it asked for, not another call's.               *)
OwnChain == \A a \in Adds : call[a] = "done" => result[a] = a

(* "Dispose of the client and free all resources": the library keeps no    *)
(* chain of a client that is gone, unless a call was under way.            *)
NothingLeft == \A e \in nativeChains : e.client \in nativeClients \cup overlapped

(* Nor does it call back into the client's NativeCallable.                 *)
CallbacksOpen ==
    \A c \in Clients : <<"closed callable called", c>> \in faults => c \in overlapped

(* dispose comes to its end, and leaves no client half disposed, unless a  *)
(* call of its client was under way.                                       *)
DisposeCompletes == threw \subseteq overlapped

(* A call of addChain ends, with a chain or an exception, unless dispose   *)
(* overtakes it.                                                           *)
EveryAddEnds ==
    \A a \in Adds :
        call[a] = "waiting" ~> call[a] \in {"done", "failed"} \/ owner[a] \in overlapped

-----------------------------------------------------------------------------
(* What holds the properties up, where the process has one client.         *)

Waits(c) == client[c] = "ready" \/ c \in overlapped

Kept(h, c) == Initialized(c) => [chain |-> h, client |-> c] \in nativeChains

(* A callback id belongs to one call, which waits for it or has failed.    *)
RegistryInv ==
    /\ \A id \in DOMAIN registry : \A c \in Clients : id < nextCallbackId[c]
    /\ \A id \in DOMAIN registry : call[registry[id]] \in {"waiting", "failed"}
    /\ \A id, other \in DOMAIN registry : registry[id] = registry[other] => id = other

(* A task that has yet to call back, or else its one message, is what a    *)
(* registered call waits for.                                              *)
TasksInv ==
    \A t \in tasks : t.step # "called" =>
        /\ t.id \in DOMAIN registry /\ registry[t.id] = t.add
        /\ call[t.add] = "waiting" /\ owner[t.add] = t.client
        /\ t.step = "added" => Kept(t.add, t.client)
        /\ \A u \in tasks : u.step # "called" /\ u.id = t.id => u = t

InboxInv ==
    \A i \in DOMAIN inbox :
        LET m == inbox[i]
        IN  /\ m.id \in DOMAIN registry /\ m.chain \in {registry[m.id], NoChain}
            /\ call[registry[m.id]] = "waiting" /\ owner[registry[m.id]] = m.client
            /\ m.chain # NoChain => Kept(m.chain, m.client)
            /\ \A j \in DOMAIN inbox : inbox[j].id = m.id => j = i
            /\ \A t \in tasks : t.step # "called" => t.id # m.id

(* No call waits on a client that dispose has passed by unnoticed.         *)
CallsInv ==
    \A a \in Adds :
        /\ call[a] # "idle" => client[owner[a]] # "new"
        /\ call[a] \in {"waiting", "resolved"} => Waits(owner[a])
        /\ call[a] = "resolved" => result[a] \in {a, NoChain}
        /\ call[a] = "resolved" /\ result[a] # NoChain => Kept(a, owner[a])
        /\ call[a] = "done" => result[a] = a

ChainsInv ==
    /\ nativeClients = {c \in Clients : Initialized(c)}
    /\ \A c \in Clients :
           /\ \A h \in Handles(c) : call[h] = "done"
           /\ \A i, j \in DOMAIN chains[c] : chains[c][i] = chains[c][j] => i = j
           /\ chains[c] # <<>> => Initialized(c)
           /\ \A h \in Adds : <<c, h>> \in removing => Waits(c)
           /\ changed[c] => client[c] = "looping" /\ c \in overlapped

CallbackInv == RegistryInv /\ TasksInv /\ InboxInv /\ CallsInv

ClientInv == ChainsInv /\ Served /\ NothingLeft /\ CallbacksOpen /\ DisposeCompletes

Inv == TypeOK /\ CallbackInv /\ ClientInv
=============================================================================
