--------------------------- MODULE ResponsePromise ---------------------------
(***************************************************************************)
(* What RawJsonRpc.next promises: a chain's responses form one queue, from *)
(* which every call takes the first at some moment between its beginning   *)
(* and its end, although calls on all chains are under way at once.  A call*)
(* fails only if its chain is closed, and then every call that waits does. *)
(***************************************************************************)
EXTENDS Naturals

CONSTANTS Chains, Pulls,
          NoResponse  \* what a call has received before it ends

VARIABLES pull,      \* each call: "idle", "waiting", "received" or "failed"
          of,        \* its chain
          takes,     \* the response it takes, by its number: 0 for none
          value,     \* the response it received
          produced,  \* the number of responses of each chain
          taken,     \* the number of those that left its queue
          closed     \* the chains that were closed

promiseVars == <<pull, of, takes, value, produced, taken, closed>>

Init ==
    /\ pull = [p \in Pulls |-> "idle"]
    /\ of \in [Pulls -> Chains]
    /\ takes = [p \in Pulls |-> 0]
    /\ value = [p \in Pulls |-> NoResponse]
    /\ produced = [c \in Chains |-> 0]
    /\ taken = [c \in Chains |-> 0]
    /\ closed = {}

Begin(p, c) ==
    /\ pull[p] = "idle"
    /\ c \notin closed
    /\ pull' = [pull EXCEPT ![p] = "waiting"]
    /\ of' = [of EXCEPT ![p] = c]
    /\ UNCHANGED <<takes, value, produced, taken, closed>>

Produce(c) ==
    /\ c \notin closed
    /\ produced' = [produced EXCEPT ![c] = @ + 1]
    /\ UNCHANGED <<pull, of, takes, value, taken, closed>>

(* A call that its chain's end overtakes loses what it takes.              *)
Take(p) ==
    /\ pull[p] # "idle"
    /\ takes[p] = 0
    /\ taken[of[p]] < produced[of[p]]
    /\ taken' = [taken EXCEPT ![of[p]] = @ + 1]
    /\ takes' = [takes EXCEPT ![p] = taken'[of[p]]]
    /\ UNCHANGED <<pull, of, value, produced, closed>>

Receive(p) ==
    /\ pull[p] = "waiting"
    /\ takes[p] # 0
    /\ pull' = [pull EXCEPT ![p] = "received"]
    /\ value' = [value EXCEPT ![p] = [chain |-> of[p], number |-> takes[p]]]
    /\ UNCHANGED <<of, takes, produced, taken, closed>>

Close(c) ==
    /\ c \notin closed
    /\ closed' = closed \cup {c}
    /\ pull' = [p \in Pulls |-> IF pull[p] = "waiting" /\ of[p] = c THEN "failed" ELSE pull[p]]
    /\ UNCHANGED <<of, takes, value, produced, taken>>

Next ==
    \/ \E p \in Pulls : (\E c \in Chains : Begin(p, c)) \/ Take(p) \/ Receive(p)
    \/ \E c \in Chains : Produce(c) \/ Close(c)

Spec == Init /\ [][Next]_promiseVars
=============================================================================
