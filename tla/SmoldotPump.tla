----------------------------- MODULE SmoldotPump -----------------------------
(***************************************************************************)
(* RawJsonRpc of packages/smoldot and smoldot_next_json_rpc_response: each *)
(* chain's responses are pulled one at a time by Rust tasks, which share   *)
(* the chain's stream under a lock and call back into the isolate with an  *)
(* id.  Chains are closed as SmoldotClient.removeChain does it.  The light *)
(* client that makes the responses is external.                            *)
(***************************************************************************)
EXTENDS Naturals, SequencesExt

CONSTANTS
    Chains,
    Pulls,         \* calls of next
    MaxResponses   \* bound on the responses a chain makes

ASSUME ChainsAssumption == Chains # {}
ASSUME ResponsesAssumption == MaxResponses \in Nat

VARIABLES
    nextCallbackId, \* _nextCallbackId, of the process
    registry,       \* _responseRegistry: callback ids to pulls
    pull,           \* "idle", "waiting", "received" or "failed"
    of,             \* the chain of each pull
    id,             \* its callback id
    value,          \* the response it received, a chain and a number
    earlier,        \* the responses received on its chain when it began
    disposed,       \* chains whose pump is disposed, its NativeCallable closed
    task,           \* how far the Rust task of each pull is
    queue,          \* the tasks at each stream's lock; the head holds it
    produced,       \* the responses each chain made so far
    taken,          \* those taken from its stream
    carried,        \* the response a task took
    removed,        \* chains removed from the light client
    inbox,          \* callbacks posted to the isolate
    faults          \* what the process does not survive

dartVars == <<nextCallbackId, registry, pull, of, id, value, earlier, disposed>>
rustVars == <<task, carried, queue, produced, taken, removed, faults>>
vars == <<dartVars, rustVars, inbox>>

NoResponse == [chain |-> CHOOSE c \in Chains : TRUE, number |-> 0]

Steps == {"none", "spawned", "queued", "answered", "refused", "done"}

Messages == [id : Nat, chain : Chains, number : 0..MaxResponses]

TypeOK ==
    /\ nextCallbackId \in Nat
    /\ DOMAIN registry \subseteq Nat /\ registry \in [DOMAIN registry -> Pulls]
    /\ pull \in [Pulls -> {"idle", "waiting", "received", "failed"}]
    /\ of \in [Pulls -> Chains]
    /\ id \in [Pulls -> Nat]
    /\ value \in [Pulls -> [chain : Chains, number : 0..MaxResponses]]
    /\ earlier \in [Pulls -> SUBSET (1..MaxResponses)]
    /\ task \in [Pulls -> Steps]
    /\ carried \in [Pulls -> 0..MaxResponses]
    /\ queue \in [Chains -> Seq(Pulls)]
    /\ inbox \in Seq(Messages)
    /\ disposed = removed /\ removed \subseteq Chains
    /\ taken \in [Chains -> Nat] /\ produced \in [Chains -> 0..MaxResponses]
    /\ \A c \in Chains : taken[c] <= produced[c]

Init ==
    /\ nextCallbackId = 0
    /\ registry = <<>>
    /\ pull = [p \in Pulls |-> "idle"]
    /\ of = [p \in Pulls |-> CHOOSE c \in Chains : TRUE]
    /\ id = [p \in Pulls |-> 0]
    /\ value = [p \in Pulls |-> NoResponse]
    /\ earlier = [p \in Pulls |-> {}]
    /\ disposed = {}
    /\ task = [p \in Pulls |-> "none"]
    /\ carried = [p \in Pulls |-> 0]
    /\ queue = [c \in Chains |-> <<>>]
    /\ produced = [c \in Chains |-> 0]
    /\ taken = [c \in Chains |-> 0]
    /\ removed = {}
    /\ inbox = <<>>
    /\ faults = {}

-----------------------------------------------------------------------------
Received(c) == {value[p].number : p \in {q \in Pulls : of[q] = c /\ pull[q] = "received"}}

(* Variant: every pump counts its own pulls.                               *)
PumpsOwnId(c) == Cardinality({p \in Pulls : of[p] = c /\ pull[p] # "idle"})

FreshId(c) == nextCallbackId

(* RawJsonRpc.next and the part of the library function that runs in it.   *)
Pull(p, c) ==
    /\ pull[p] = "idle"
    /\ c \notin disposed
    /\ id' = [id EXCEPT ![p] = FreshId(c)]
    /\ nextCallbackId' = nextCallbackId + 1
    /\ registry' = [i \in DOMAIN registry \cup {FreshId(c)} |->
                        IF i = FreshId(c) THEN p ELSE registry[i]]
    /\ pull' = [pull EXCEPT ![p] = "waiting"]
    /\ of' = [of EXCEPT ![p] = c]
    /\ earlier' = [earlier EXCEPT ![p] = Received(c)]
    /\ task' = [task EXCEPT ![p] = "spawned"]
    /\ UNCHANGED <<value, disposed, carried, queue, produced, taken, removed, inbox, faults>>

-----------------------------------------------------------------------------
(* The light client makes a response or a notification.                    *)
Produce(c) ==
    /\ c \notin removed
    /\ produced[c] < MaxResponses
    /\ produced' = [produced EXCEPT ![c] = @ + 1]
    /\ UNCHANGED <<dartVars, task, carried, queue, taken, removed, inbox, faults>>

(* Tasks come to the lock in any order, and get it in that order.          *)
RustLocks(p) ==
    /\ task[p] = "spawned"
    /\ task' = [task EXCEPT ![p] = "queued"]
    /\ queue' = [queue EXCEPT ![of[p]] = Append(@, p)]
    /\ UNCHANGED <<dartVars, carried, produced, taken, removed, inbox, faults>>

Holds(p) == task[p] = "queued" /\ Head(queue[of[p]]) = p

Release(p) == queue' = [queue EXCEPT ![of[p]] = Tail(@)]

(* Variant: the lock is kept for good.                                     *)
RustTakesForGood(p) ==
    /\ Holds(p)
    /\ taken[of[p]] < produced[of[p]]
    /\ taken' = [taken EXCEPT ![of[p]] = @ + 1]
    /\ carried' = [carried EXCEPT ![p] = taken'[of[p]]]
    /\ task' = [task EXCEPT ![p] = "answered"]
    /\ UNCHANGED <<dartVars, queue, produced, removed, inbox, faults>>

(* responses.next() is awaited with the lock held.                         *)
RustTakes(p) ==
    /\ Holds(p)
    /\ taken[of[p]] < produced[of[p]]
    /\ taken' = [taken EXCEPT ![of[p]] = @ + 1]
    /\ carried' = [carried EXCEPT ![p] = taken'[of[p]]]
    /\ task' = [task EXCEPT ![p] = "answered"]
    /\ Release(p)
    /\ UNCHANGED <<dartVars, produced, removed, inbox, faults>>

(* The stream of a chain that was removed ends: "Channel closed".          *)
RustEnds(p) ==
    /\ Holds(p)
    /\ of[p] \in removed
    /\ task' = [task EXCEPT ![p] = "refused"]
    /\ Release(p)
    /\ UNCHANGED <<dartVars, carried, produced, taken, removed, inbox, faults>>

(* The callback posts a message to the isolate.  A call of a NativeCallable*)
(* that is closed is undefined.                                            *)
RustCalls(p) ==
    /\ task[p] \in {"answered", "refused"}
    /\ task' = [task EXCEPT ![p] = "done"]
    /\ IF of[p] \in disposed
       THEN faults' = faults \cup {"closed callable called"} /\ UNCHANGED inbox
       ELSE /\ inbox' = Append(inbox, [id |-> id[p], chain |-> of[p], number |->
                                          IF task[p] = "answered" THEN carried[p] ELSE 0])
            /\ UNCHANGED faults
    /\ UNCHANGED <<dartVars, carried, queue, produced, taken, removed>>

-----------------------------------------------------------------------------
Settle(q, how) == pull' = [pull EXCEPT ![q] = IF @ = "waiting" THEN how ELSE @]

(* Variants: the completer is looked up but stays registered, or that of   *)
(* the chain's newest pull is completed.                                   *)
RegistryKept(i) == registry

NewestCompleted(m) ==
    CHOOSE p \in Range(registry) :
        /\ of[p] = m.chain
        /\ \A q \in Range(registry) : of[q] = m.chain => id[q] <= id[p]

(* _responseRegistry.remove: what stays registered, and whose completer it *)
(* gives.                                                                  *)
RegistryAfter(i) == Restrict(registry, DOMAIN registry \ {i})

Completed(m) == registry[m.id]

(* _onJsonRpcResponse.  A closed NativeCallable has no message delivered.  *)
DartCallback ==
    /\ inbox # <<>>
    /\ inbox' = Tail(inbox)
    /\ LET m == Head(inbox)
       IN  IF m.id \in DOMAIN registry /\ m.chain \notin disposed
           THEN /\ registry' = RegistryAfter(m.id)
                /\ value' = [value EXCEPT ![Completed(m)] =
                                 [chain |-> m.chain, number |-> m.number]]
                /\ Settle(Completed(m), IF m.number = 0 THEN "failed" ELSE "received")
           ELSE UNCHANGED <<registry, value, pull>>
    /\ UNCHANGED <<nextCallbackId, of, id, earlier, disposed, rustVars>>

(* _pending: what RawJsonRpc.dispose settles.                              *)
Pending(c) == {p \in Pulls : of[p] = c /\ pull[p] = "waiting"}

(* Variant: only the last pull is settled.                                 *)
SettledByDisposeLast(c) == {p \in Pending(c) : \A q \in Pending(c) : id[q] <= id[p]}

SettledByDispose(c) == Pending(c)

(* SmoldotClient.removeChain up to its await: the library removes the      *)
(* chain, RawJsonRpc.dispose settles what is pending and closes the        *)
(* NativeCallable.                                                         *)
Close(c) ==
    /\ c \notin removed
    /\ removed' = removed \cup {c}
    /\ disposed' = disposed \cup {c}
    /\ LET settled == SettledByDispose(c)
       IN  /\ pull' = [p \in Pulls |-> IF p \in settled THEN "failed" ELSE pull[p]]
           /\ registry' = Restrict(registry, {i \in DOMAIN registry : registry[i] \notin settled})
    /\ UNCHANGED <<nextCallbackId, of, id, value, earlier, task, carried, queue, produced, taken,
                   inbox, faults>>

-----------------------------------------------------------------------------
Next ==
    \/ \E p \in Pulls :
           \/ \E c \in Chains : Pull(p, c)
           \/ RustLocks(p) \/ RustTakes(p) \/ RustEnds(p) \/ RustCalls(p)
    \/ \E c \in Chains : Produce(c) \/ Close(c)
    \/ DartCallback

(* Tokio runs its tasks and the event loop its messages.                   *)
Fairness ==
    /\ \A p \in Pulls : WF_vars(RustLocks(p) \/ RustTakes(p) \/ RustEnds(p) \/ RustCalls(p))
    /\ WF_vars(DartCallback)

Spec == Init /\ [][Next]_vars /\ Fairness

-----------------------------------------------------------------------------
(* A pull that waits is registered under its id, and either its task will  *)
(* still call back or its callback is on the way: no interleaving of       *)
(* tasks, callbacks and dispose leaves a caller waiting for nothing.       *)
WaitingIsServed ==
    \A p \in Pulls : pull[p] = "waiting" =>
        /\ id[p] \in DOMAIN registry /\ registry[id[p]] = p
        /\ \/ task[p] \notin {"none", "done"}
           \/ \E i \in DOMAIN inbox : inbox[i].id = id[p]

(* "Process-wide monotonic callback id so concurrent chains never collide":*)
(* a pull receives a response of its own chain, and no other pull the same.*)
OwnResponses ==
    \A p, q \in Pulls : pull[p] = "received" =>
        /\ value[p].chain = of[p]
        /\ pull[q] = "received" /\ value[q] = value[p] => q = p

(* "Responses come out in FIFO order": what a pull receives is later in    *)
(* the stream than all that had been received when it began, although the  *)
(* tasks of concurrent pulls come to the lock in any order.                *)
LaterGetsLater ==
    \A p \in Pulls : pull[p] = "received" => \A n \in earlier[p] : n < value[p].number

(* "No race conditions between concurrent requests": each pull takes the   *)
(* first response of its chain's stream at one moment between its          *)
(* beginning and its end, no other gets that response, and it fails only   *)
(* with its chain: SmoldotPump implements ResponsePromise.                 *)
Promise == INSTANCE ResponsePromise WITH takes <- carried, closed <- removed
KeepsPromise == Promise!Spec

(* Responses do not stay in the stream while somebody waits for one.       *)
ResponsesArrive ==
    \A c \in Chains : []<>(Pending(c) = {} \/ taken[c] = produced[c])

(* "Release the native callback and settle any in-flight pulls" (dispose): *)
(* nothing calls back once the callback is released.                       *)
CallbacksReleased == faults = {}

-----------------------------------------------------------------------------
(* What holds the properties up.                                           *)

Sends(p, m) ==
    /\ m.id = id[p] /\ m.chain = of[p] /\ task[p] = "done"
    /\ m.number \in {0, carried[p]}

(* Ids are never used again, and what is registered is what waits.         *)
RegistryInv ==
    /\ \A p \in Pulls : pull[p] # "idle" =>
           /\ id[p] < nextCallbackId
           /\ \A q \in Pulls : pull[q] # "idle" /\ id[q] = id[p] => q = p
    /\ \A i \in DOMAIN registry : pull[registry[i]] = "waiting" /\ id[registry[i]] = i

(* The lock of a stream: a task waits for it once.                         *)
LockInv ==
    /\ \A c \in Chains : \A i \in DOMAIN queue[c] :
           /\ of[queue[c][i]] = c /\ task[queue[c][i]] = "queued"
           /\ \A j \in DOMAIN queue[c] : queue[c][j] = queue[c][i] => j = i
    /\ \A p \in Pulls : task[p] = "queued" => \E i \in DOMAIN queue[of[p]] : queue[of[p]][i] = p

(* A task takes a response that no other has taken, and none before its    *)
(* pull began.                                                             *)
TasksInv ==
    \A p \in Pulls :
        /\ pull[p] = "idle" <=> task[p] = "none"
        /\ pull[p] = "waiting" => of[p] \notin removed
        /\ task[p] = "answered" => carried[p] # 0
        /\ carried[p] # 0 =>
               /\ task[p] \in {"answered", "done"} /\ carried[p] <= taken[of[p]]
               /\ \A n \in earlier[p] : n < carried[p]
               /\ \A q \in Pulls : of[q] = of[p] /\ carried[q] = carried[p] => q = p
        /\ \A n \in earlier[p] : n <= taken[of[p]]
        /\ pull[p] = "received" => value[p] = [chain |-> of[p], number |-> carried[p]]
        /\ pull[p] = "received" => carried[p] # 0

InboxInv ==
    \A i \in DOMAIN inbox :
        /\ \E p \in Pulls : pull[p] # "idle" /\ Sends(p, inbox[i])
        /\ \A j \in DOMAIN inbox : inbox[j].id = inbox[i].id => j = i

(* A task without a response is that of a chain that was removed.          *)
EndedInv ==
    /\ \A p \in Pulls : task[p] = "refused" => of[p] \in removed
    /\ \A i \in DOMAIN inbox : inbox[i].number = 0 => inbox[i].chain \in removed

Inv == TypeOK /\ RegistryInv /\ LockInv /\ TasksInv /\ InboxInv /\ EndedInv /\ WaitingIsServed
=============================================================================
