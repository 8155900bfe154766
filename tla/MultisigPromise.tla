--------------------------- MODULE MultisigPromise ---------------------------
(***************************************************************************)
(* What the library promises the wallets of a multisig account for one     *)
(* call hash.  Every call is an optimistic transaction: it reads the       *)
(* pending operation once and acts on that very operation or not at all.   *)
(* If nothing changed since it read, it does what it was asked for: an     *)
(* approval is recorded and leaves the last one open, an execution         *)
(* executes.  If something did change, it may also be late for its round   *)
(* and fail, but never approves or executes another one.                   *)
(***************************************************************************)
EXTENDS Naturals, FiniteSets

CONSTANTS Signatories,  \* the accounts behind the multisig account
          Threshold,    \* approvals required for an execution
          Calls,        \* the calls of the signatories' wallets
          Nobody        \* the signatory of a call that has not read

VARIABLES round,        \* 0, or the identity of the pending operation
          approvers,    \* the signatories that approved the pending operation
          executed,     \* the executions so far, each with those who approved it
          stage,        \* how far each call is
          view          \* what a call that is pending has read and means to do

accountVars == <<round, approvers, executed>>
promiseVars == <<round, approvers, executed, stage, view>>

NoView == [by |-> Nobody, round |-> 0, executes |-> FALSE, current |-> FALSE]

Init ==
    /\ round = 0
    /\ approvers = {}
    /\ executed = {}
    /\ stage = [c \in Calls |-> "unread"]
    /\ view = [c \in Calls |-> NoView]

(* A call goes on with what it read if its signatory has not approved yet  *)
(* and the operation is not complete; it executes exactly if one approval  *)
(* is missing.                                                             *)
Read(c, s) ==
    /\ stage[c] = "unread"
    /\ s \notin approvers
    /\ Cardinality(approvers) < Threshold
    /\ stage' = [stage EXCEPT ![c] = "pending"]
    /\ view' = [view EXCEPT ![c] =
           [by |-> s, round |-> round,
            executes |-> Cardinality(approvers) = Threshold - 1, current |-> TRUE]]
    /\ UNCHANGED accountVars

(* A call that ends without an effect overtakes nobody.                    *)
End(c, outcome) ==
    /\ stage[c] = "pending"
    /\ stage' = [stage EXCEPT ![c] = outcome]
    /\ view' = [view EXCEPT ![c] = NoView]
    /\ UNCHANGED accountVars

(* A call that acts does so on the round it read and for the purpose it    *)
(* read it; it overtakes every other pending call.                         *)
Act(c, executes, outcome) ==
    /\ stage[c] = "pending"
    /\ view[c].round = round
    /\ view[c].executes = executes
    /\ stage' = [stage EXCEPT ![c] = outcome]
    /\ view' = [d \in Calls |->
           IF d = c THEN NoView ELSE [view[d] EXCEPT !.current = FALSE]]

(* A first approval starts a round that no execution has used.             *)
Open(c) ==
    /\ round = 0
    /\ Act(c, FALSE, "approved")
    /\ round' \in Nat \ {0}
    /\ \A e \in executed : e.round # round'
    /\ approvers' = {view[c].by}
    /\ UNCHANGED executed

(* The last approval is for an execution to give, unless the call was      *)
(* overtaken.                                                              *)
Approve(c) ==
    /\ round # 0
    /\ Act(c, FALSE, "approved")
    /\ view[c].by \notin approvers
    /\ view[c].current => Cardinality(approvers) < Threshold - 1
    /\ approvers' = approvers \cup {view[c].by}
    /\ UNCHANGED <<round, executed>>

(* The executing signatory's own approval counts if it is needed.          *)
Execute(c) ==
    LET counted == IF Cardinality(approvers) < Threshold
                   THEN approvers \cup {view[c].by} ELSE approvers
    IN  /\ round # 0
        /\ Act(c, TRUE, "executed")
        /\ Cardinality(counted) >= Threshold
        /\ executed' = executed \cup {[round |-> round, by |-> counted]}
        /\ round' = 0
        /\ approvers' = {}

(* Only a call that was overtaken fails.                                   *)
Fail(c) == ~view[c].current /\ End(c, "failed")

(* A transaction may never be included.                                    *)
Drop(c) == End(c, "dropped")

(* Every step takes one call further.                                      *)
Next ==
    \E c \in Calls :
        /\ stage'[c] # stage[c]
        /\ \/ \E s \in Signatories : Read(c, s)
           \/ Open(c)
           \/ Approve(c)
           \/ Execute(c)
           \/ Fail(c)
           \/ Drop(c)

Spec == Init /\ [][Next]_promiseVars
=============================================================================
