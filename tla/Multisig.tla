------------------------------- MODULE Multisig -------------------------------
(***************************************************************************)
(* Multisig of packages/polkadart: the wallets of several accounts call    *)
(* approveAsMulti, asMulti and cancel for one multisig account and one     *)
(* call hash.  A library call reads the operation from the chain's         *)
(* storage, decides, then fetches chain data and a nonce, signs and        *)
(* submits; between these awaits every other wallet may act.  The node's   *)
(* transaction pool and pallet_multisig are external: they are modelled    *)
(* from what the library sends them and reads back.                        *)
(***************************************************************************)
EXTENDS Naturals, FiniteSets

CONSTANTS
    Accounts,     \* the accounts whose wallets use the library
    Signatories,  \* those that are signatories of the multisig account
    Threshold,    \* MultisigAccount.threshold
    Calls,        \* identities of library calls: the bound on their number
    GivenNonces,  \* nonces a caller may pass instead of having one fetched
    Nobody        \* the depositor of an operation that does not exist

ASSUME SignatoriesAssumption ==
    /\ Signatories \subseteq Accounts
    /\ IsFiniteSet(Signatories)
    /\ Nobody \notin Accounts

(* MultisigAccount's factory refuses any other threshold.                  *)
ASSUME ThresholdAssumption ==
    /\ Threshold \in Nat
    /\ 2 <= Threshold
    /\ Threshold <= Cardinality(Signatories)

ASSUME CallsAssumption == IsFiniteSet(Calls) /\ GivenNonces \subseteq Nat

VARIABLES
    op,        \* the chain's storage entry of the operation
    height,    \* multisig extrinsics included so far; the last one's timepoint
    changed,   \* the height at which op changed last
    index,     \* each account's nonce on the chain
    phase,     \* how far each library call is
    request,   \* what each call was asked: its method and its caller
    built,     \* what each call knows: the timepoint it put into the runtime
               \* call, the height at which it read op, and the nonce it signs
    executed   \* every execution, with the approvals it was made with

chainVars == <<op, height, changed, index, executed>>
vars == <<op, height, changed, index, phase, request, built, executed>>

-----------------------------------------------------------------------------
Methods == {"approveAsMulti", "asMulti", "cancel"}

InFlight == {"checking", "preparing", "submitting"}
Included == {"approved", "executed", "failed"}
Ended    == {"refused", "unencodable", "rejected", "expired"} \cup Included
Phases   == {"idle", "pooled"} \cup InFlight \cup Ended

(* A timepoint 0 stands for the null the library passes when it read no    *)
(* operation, and no operation has it.                                     *)
NoOp == [when |-> 0, depositor |-> Nobody, approvals |-> {}]

Operations == [when : Nat, depositor : Accounts \cup {Nobody},
               approvals : SUBSET Signatories]

TypeOK ==
    /\ op \in Operations
    /\ height \in Nat
    /\ changed \in Nat
    /\ index \in [Accounts -> Nat]
    /\ phase \in [Calls -> Phases]
    /\ request \in [Calls -> [method : Methods, by : Accounts]]
    /\ built \in [Calls -> [when : Nat, seen : Nat, nonce : Nat]]
    /\ executed \subseteq [round : Nat, by : SUBSET Signatories]

Init ==
    /\ op = NoOp
    /\ height = 0
    /\ changed = 0
    /\ index = [a \in Accounts |-> 0]
    /\ phase = [c \in Calls |-> "idle"]
    /\ request = [c \in Calls |-> [method |-> "cancel", by |-> CHOOSE a \in Accounts : TRUE]]
    /\ built = [c \in Calls |-> [when |-> 0, seen |-> 0, nonce |-> 0]]
    /\ executed = {}

-----------------------------------------------------------------------------

(* MultisigStorage: what the library concludes from the storage it read.   *)

HasApproved(s, st)  == s \in st.approvals
IsDepositor(s, st)  == s = st.depositor
IsFinalApproval(st) == Cardinality(st.approvals) = Threshold - 1
IsComplete(st)      == Cardinality(st.approvals) >= Threshold

(* Variants: approveAsMulti takes the final approval too, or one from a    *)
(* signatory that has approved already.                                    *)
ApprovesFinally(s, st) == st # NoOp /\ (HasApproved(s, st) \/ IsComplete(st))

ApprovesTwice(s, st) == st # NoOp /\ (IsComplete(st) \/ IsFinalApproval(st))

(* Variant: asMulti does not ask whether the final approval is next.       *)
ExecutesEarly(s, st) == st = NoOp \/ HasApproved(s, st) \/ IsComplete(st)

(* The StateErrors of approveAsMulti, asMulti and cancel.                  *)
RefusesApprove(s, st) ==
    /\ st # NoOp
    /\ HasApproved(s, st) \/ IsComplete(st) \/ IsFinalApproval(st)

RefusesExecute(s, st) ==
    \/ st = NoOp
    \/ HasApproved(s, st)
    \/ IsComplete(st)
    \/ ~IsFinalApproval(st)

RefusesCancel(s, st) == st = NoOp \/ ~IsDepositor(s, st)

Refuses(m, s, st) ==
    CASE m = "approveAsMulti" -> RefusesApprove(s, st)
      [] m = "asMulti"        -> RefusesExecute(s, st)
      [] m = "cancel"         -> RefusesCancel(s, st)

(* otherSignatoriesForAddress finds the signer among the signatories.      *)
HasOthers(s) == s \in Signatories

(* _createRuntimeCall: the arguments it always gives and the extras of     *)
(* each method.  The codec of runtime calls throws when one that the       *)
(* pallet declares, other than an Option, is missing.                      *)
GivenArgs(m) ==
    {"threshold", "other_signatories", "maybe_timepoint"} \cup
    CASE m = "approveAsMulti" -> {"call_hash", "max_weight"}
      [] m = "asMulti"        -> {"call", "max_weight"}
      [] m = "cancel"         -> {}

PalletArgs(m) ==
    {"threshold", "other_signatories", "maybe_timepoint"} \cup
    CASE m = "approveAsMulti" -> {"call_hash", "max_weight"}
      [] m = "asMulti"        -> {"call", "max_weight"}
      [] m = "cancel"         -> {"call_hash"}

Encodable(m) == PalletArgs(m) \ {"maybe_timepoint"} \subseteq GivenArgs(m)

-----------------------------------------------------------------------------
(* The library's calls.                                                    *)

(* approveAsMulti and asMulti check containsAddress before they read the   *)
(* storage; cancel does not.                                               *)
Start(c, m, s) ==
    /\ phase[c] = "idle"
    /\ request' = [request EXCEPT ![c] = [method |-> m, by |-> s]]
    /\ phase' = [phase EXCEPT ![c] =
           IF m # "cancel" /\ s \notin Signatories THEN "refused" ELSE "checking"]
    /\ UNCHANGED <<built, chainVars>>

(* Variant: the timepoint is not handed on to the runtime call.            *)
DecideWithoutTimepoint(c) ==
    LET m == request[c].method
        s == request[c].by
    IN  /\ phase[c] = "checking"
        /\ phase' = [phase EXCEPT ![c] =
               IF Refuses(m, s, op) \/ ~HasOthers(s) THEN "refused"
               ELSE IF ~Encodable(m) THEN "unencodable"
               ELSE "preparing"]
        /\ built' = [built EXCEPT ![c] = [when |-> 0, seen |-> height, nonce |-> 0]]
        /\ UNCHANGED <<request, chainVars>>

(* The awaited MultisigStorage.fetch completes, and the call runs on to    *)
(* its next await: refusals, the runtime call, which has no others to name *)
(* for a signer that is no signatory, and its encoding.                    *)
Decide(c) ==
    LET m == request[c].method
        s == request[c].by
    IN  /\ phase[c] = "checking"
        /\ phase' = [phase EXCEPT ![c] =
               IF Refuses(m, s, op) \/ ~HasOthers(s) THEN "refused"
               ELSE IF ~Encodable(m) THEN "unencodable"
               ELSE "preparing"]
        /\ built' = [built EXCEPT ![c] = [when |-> op.when, seen |-> height, nonce |-> 0]]
        /\ UNCHANGED <<request, chainVars>>

Pooled(s) == {c \in Calls : phase[c] = "pooled" /\ request[c].by = s}

(* system_accountNextIndex: the account's nonce, past the pooled           *)
(* transactions that follow on from it without a gap.                      *)
NextIndex(s) ==
    index[s] + Cardinality({c \in Pooled(s) :
                               /\ built[c].nonce >= index[s]
                               /\ \A k \in index[s]..built[c].nonce :
                                      \E d \in Pooled(s) : built[d].nonce = k})

(* Variant: the timepoint is fetched again, with the chain data.           *)
PrepareTimepoint(c) ==
    /\ phase[c] = "preparing"
    /\ \E n \in {NextIndex(request[c].by)} \cup GivenNonces :
           built' = [built EXCEPT ![c].nonce = n, ![c].when = op.when]
    /\ phase' = [phase EXCEPT ![c] = "submitting"]
    /\ UNCHANGED <<request, chainVars>>

(* _submitCall's fetchStandardData and, unless the caller gave a nonce,    *)
(* the nonce; then the payload is signed.                                  *)
Prepare(c) ==
    /\ phase[c] = "preparing"
    /\ \E n \in {NextIndex(request[c].by)} \cup GivenNonces :
           built' = [built EXCEPT ![c].nonce = n]
    /\ phase' = [phase EXCEPT ![c] = "submitting"]
    /\ UNCHANGED <<request, chainVars>>

(* author_submitExtrinsic: the pool takes a transaction with a nonce that  *)
(* is neither used on the chain nor by another pooled transaction.         *)
Submit(c) ==
    LET s == request[c].by
    IN  /\ phase[c] = "submitting"
        /\ phase' = [phase EXCEPT ![c] =
               IF /\ built[c].nonce >= index[s]
                  /\ \A d \in Pooled(s) : built[d].nonce # built[c].nonce
               THEN "pooled" ELSE "rejected"]
        /\ UNCHANGED <<request, built, chainVars>>

-----------------------------------------------------------------------------
(* The chain: pallet_multisig, its operate() split by outcome.             *)

(* A transaction past its mortality leaves the pool.                       *)
Expire(c) ==
    /\ phase[c] = "pooled"
    /\ phase' = [phase EXCEPT ![c] = "expired"]
    /\ UNCHANGED <<request, built, chainVars>>

Votes(s) == s \notin op.approvals /\ Cardinality(op.approvals) < Threshold

Executes(c) ==
    /\ op # NoOp
    /\ built[c].when = op.when
    /\ request[c].method = "asMulti"
    /\ Cardinality(op.approvals) + (IF Votes(request[c].by) THEN 1 ELSE 0) >= Threshold

Opens(c) == op = NoOp /\ built[c].when = 0

Records(c) ==
    /\ op # NoOp
    /\ built[c].when = op.when
    /\ Votes(request[c].by)
    /\ ~Executes(c)

(* A transaction is included when its nonce is its sender's turn.          *)
Include(c, outcome) ==
    LET s == request[c].by
    IN  /\ phase[c] = "pooled"
        /\ built[c].nonce = index[s]
        /\ index' = [index EXCEPT ![s] = @ + 1]
        /\ height' = height + 1
        /\ phase' = [phase EXCEPT ![c] = outcome]
        /\ UNCHANGED <<request, built>>

IncludeOpen(c) ==
    /\ Opens(c)
    /\ Include(c, "approved")
    /\ op' = [when |-> height + 1, depositor |-> request[c].by,
              approvals |-> {request[c].by}]
    /\ changed' = height + 1
    /\ UNCHANGED executed

IncludeApproval(c) ==
    /\ Records(c)
    /\ Include(c, "approved")
    /\ op' = [op EXCEPT !.approvals = @ \cup {request[c].by}]
    /\ changed' = height + 1
    /\ UNCHANGED executed

IncludeExecution(c) ==
    /\ Executes(c)
    /\ Include(c, "executed")
    /\ executed' = executed \cup
           {[round |-> op.when, by |-> IF Votes(request[c].by)
                                       THEN op.approvals \cup {request[c].by}
                                       ELSE op.approvals]}
    /\ op' = NoOp
    /\ changed' = height + 1

(* NoTimepoint, WrongTimepoint, UnexpectedTimepoint or AlreadyApproved:    *)
(* the fee is paid and nothing changes.                                    *)
IncludeFailure(c) ==
    /\ ~Opens(c) /\ ~Records(c) /\ ~Executes(c)
    /\ Include(c, "failed")
    /\ UNCHANGED <<op, changed, executed>>

Next ==
    \E c \in Calls :
        \/ \E m \in Methods, s \in Accounts : Start(c, m, s)
        \/ Decide(c)
        \/ Prepare(c)
        \/ Submit(c)
        \/ Expire(c)
        \/ IncludeOpen(c)
        \/ IncludeApproval(c)
        \/ IncludeExecution(c)
        \/ IncludeFailure(c)

Spec == Init /\ [][Next]_vars

-----------------------------------------------------------------------------
(* The library checks the storage "before submitting transactions to avoid *)
(* wasting gas fees" (multisig_storage.dart): a transaction it submitted   *)
(* fails on the chain only if the operation changed after the call had     *)
(* read it.                                                                *)
OvertakenFailure ==
    \A c \in Calls : phase'[c] = "failed" /\ phase[c] # "failed"
                    => changed > built[c].seen

FailsOnlyIfOvertaken == [][OvertakenFailure]_vars

(* approveAsMulti leaves the last approval to asMulti: an approval that    *)
(* completes the operation without executing it was decided on a storage   *)
(* entry that had changed by the time of its inclusion.                    *)
StaleCompletion ==
    \A c \in Calls : /\ phase'[c] = "approved" /\ phase[c] # "approved"
                    /\ Cardinality(op'.approvals) >= Threshold
                    => changed > built[c].seen

CompletedOnlyByStaleApproval == [][StaleCompletion]_vars

(* Every approval of the pending operation, and every one an execution     *)
(* was made with, except the one that opened the operation, is that of a   *)
(* call whose signatory had read this very operation, not an earlier one   *)
(* for the same call data; and an execution has enough of them.            *)
ApprovedFor(s, r) ==
    \E c \in Calls : /\ request[c].by = s
                    /\ built[c].when = r /\ r <= built[c].seen
                    /\ phase[c] \in {"approved", "executed"}

ApprovalsAreMeant ==
    /\ op # NoOp =>
           \A s \in op.approvals \ {op.depositor} : ApprovedFor(s, op.when)
    /\ \A e \in executed :
           /\ Cardinality(e.by) >= Threshold
           /\ \E opener \in e.by :
                  \A s \in e.by \ {opener} : ApprovedFor(s, e.round)

(* What holds of the entry and of every call between its reading of the    *)
(* storage and its transaction's end; with ApprovalsAreMeant, the inductive*)
(* invariant.  A call that was not overtaken still knows the entry as it   *)
(* is, and would be decided the same way again.                            *)
Undecided(c) == phase[c] = "checking"
Decided(c)   == phase[c] \in {"preparing", "submitting", "pooled"}

EntryInv ==
    /\ op.when = 0 => op = NoOp
    /\ op # NoOp => op.depositor \in op.approvals
    /\ op.when <= height
    /\ changed <= height
    /\ \A e \in executed : e.round <= height /\ (op # NoOp => e.round # op.when)

FreshInv(c) ==
    changed <= built[c].seen =>
        /\ built[c].when = op.when
        /\ ~Refuses(request[c].method, request[c].by, op)

(* An asMulti goes on only when one approval is missing, and the operation *)
(* it read never loses any.                                                *)
LastIsMissing(c) ==
    /\ built[c].when # 0
    /\ built[c].when = op.when => Cardinality(op.approvals) >= Threshold - 1

CallInv(c) ==
    /\ Undecided(c) => request[c].method = "cancel" \/ request[c].by \in Signatories
    /\ Decided(c) =>
           /\ request[c].method \in {"approveAsMulti", "asMulti"}
           /\ request[c].by \in Signatories
           /\ built[c].when <= built[c].seen /\ built[c].seen <= height
           /\ FreshInv(c)
           /\ request[c].method = "approveAsMulti" /\ built[c].when # 0 => Threshold > 2
           /\ request[c].method = "asMulti" => LastIsMissing(c)

Inv ==
    /\ TypeOK
    /\ EntryInv
    /\ \A c \in Calls : CallInv(c)
    /\ ApprovalsAreMeant

(* With a threshold of two the race for the last approval cannot happen:   *)
(* the first approval already makes the next one final.                    *)
TwoNeverStuck == Threshold = 2 => Cardinality(op.approvals) < Threshold

(* The account's promise.  The timepoint is the round's identity; a call   *)
(* is pending while its transaction is on its way, and what it read is     *)
(* current until the operation changes.                                    *)
StageOf(c) ==
    CASE Decided(c)                            -> "pending"
      [] phase[c] \in Included                 -> phase[c]
      [] phase[c] \in {"rejected", "expired"}  -> "dropped"
      [] OTHER                                 -> "unread"

ViewOf(c) ==
    IF Decided(c)
    THEN [by |-> request[c].by, round |-> built[c].when,
          executes |-> request[c].method = "asMulti",
          current |-> changed <= built[c].seen]
    ELSE [by |-> Nobody, round |-> 0, executes |-> FALSE, current |-> FALSE]

Stage == [c \in Calls |-> StageOf(c)]
View  == [c \in Calls |-> ViewOf(c)]

Promise == INSTANCE MultisigPromise
               WITH round <- op.when, approvers <- op.approvals,
                    stage <- Stage, view <- View
KeepsPromise == Promise!Spec
=============================================================================
