---------------------------- MODULE MultisigProofs ----------------------------
(***************************************************************************)
(* Proofs about Multisig, for any accounts, signatories, threshold and     *)
(* number of calls, and about MultisigAccount, for any addresses, lists    *)
(* and wallets.                                                            *)
(***************************************************************************)
EXTENDS Multisig, MultisigAccount, FiniteSetTheorems, FunctionTheorems, TLAPS

-----------------------------------------------------------------------------
(* The numbers of approvals the pallet and the library compute with.       *)

LEMMA ApprovalsCount ==
    ASSUME NEW S \in SUBSET Signatories
    PROVE  /\ Cardinality(S) \in Nat
           /\ \A s \in Signatories \ S : Cardinality(S \cup {s}) = Cardinality(S) + 1
           /\ \A s \in Signatories : Cardinality(S \cup {s}) >= Cardinality(S)
           /\ S # {} => Cardinality(S) >= 1
<1>1. IsFiniteSet(S)
  BY FS_Subset, SignatoriesAssumption
<1>2. Cardinality(S) \in Nat
  BY <1>1, FS_CardinalityType
<1>3. \A s : Cardinality(S \cup {s}) =
                 IF s \in S THEN Cardinality(S) ELSE Cardinality(S) + 1
  BY <1>1, FS_AddElement
<1>4. S # {} => Cardinality(S) # 0
  BY <1>1, FS_EmptySet
<1>. QED
  BY <1>2, <1>3, <1>4

LEMMA OneApproval == \A s : Cardinality({s}) = 1
BY FS_Singleton

(* The node answers system_accountNextIndex with a natural number.         *)
LEMMA NextIndexType ==
    ASSUME TypeOK, NEW s \in Accounts
    PROVE  NextIndex(s) \in Nat
<1> DEFINE chain == {c \in Pooled(s) :
                        /\ built[c].nonce >= index[s]
                        /\ \A k \in index[s]..built[c].nonce :
                               \E d \in Pooled(s) : built[d].nonce = k}
<1>1. chain \in SUBSET Calls
  BY DEF Pooled
<1>2. IsFiniteSet(chain)
  BY <1>1, FS_Subset, CallsAssumption
<1>3. Cardinality(chain) \in Nat
  BY <1>2, FS_CardinalityType
<1>4. index[s] \in Nat
  BY DEF TypeOK
<1>5. NextIndex(s) = index[s] + Cardinality(chain)
  BY DEF NextIndex
<1>. QED
  BY <1>3, <1>4, <1>5

LEMMA SomeAccount == Accounts # {}
<1>1. Signatories # {}
  BY ThresholdAssumption, FS_EmptySet, SignatoriesAssumption
<1>. QED
  BY <1>1, SignatoriesAssumption

-----------------------------------------------------------------------------
LEMMA InitInv == Init => Inv
<1> SUFFICES ASSUME Init PROVE Inv
  OBVIOUS
<1>1. TypeOK
  BY SomeAccount DEF Init, TypeOK, NoOp, Operations, Phases, Methods
<1>2. EntryInv
  BY DEF Init, EntryInv, NoOp
<1>3. \A c \in Calls : CallInv(c)
  BY DEF Init, CallInv, Undecided, Decided
<1>4. ApprovalsAreMeant
  BY DEF Init, ApprovalsAreMeant
<1>. QED
  BY <1>1, <1>2, <1>3, <1>4 DEF Inv

(* Type correctness is preserved by every step of a state that satisfies   *)
(* the invariant.                                                          *)
LEMMA TypeStep == Inv /\ [Next]_vars => TypeOK'
<1> SUFFICES ASSUME Inv, [Next]_vars PROVE TypeOK'
  OBVIOUS
<1>1. TypeOK
  BY DEF Inv
<1>2. CASE UNCHANGED vars
  BY <1>1, <1>2 DEF vars, TypeOK
<1>3. ASSUME NEW c \in Calls, NEW m \in Methods, NEW s \in Accounts, Start(c, m, s)
      PROVE  TypeOK'
  BY <1>1, <1>3 DEF TypeOK, Start, chainVars, Phases, InFlight, Ended
<1>4. ASSUME NEW c \in Calls, Decide(c)
      PROVE  TypeOK'
  BY <1>1, <1>4 DEF TypeOK, Decide, chainVars, Phases, InFlight, Ended, Operations
<1>5. ASSUME NEW c \in Calls, Prepare(c)
      PROVE  TypeOK'
  <2>1. request[c].by \in Accounts
    BY <1>1 DEF TypeOK
  <2>2. {NextIndex(request[c].by)} \cup GivenNonces \subseteq Nat
    BY <1>1, <2>1, NextIndexType, CallsAssumption
  <2>. QED
    BY <1>1, <1>5, <2>2 DEF TypeOK, Prepare, chainVars, Phases, InFlight
<1>6. ASSUME NEW c \in Calls, Submit(c)
      PROVE  TypeOK'
  BY <1>1, <1>6 DEF TypeOK, Submit, chainVars, Phases, Ended
<1>7. ASSUME NEW c \in Calls, Expire(c)
      PROVE  TypeOK'
  BY <1>1, <1>7 DEF TypeOK, Expire, chainVars, Phases, Ended
<1>8. ASSUME NEW c \in Calls, NEW o \in Included, Include(c, o)
      PROVE  /\ index' \in [Accounts -> Nat]
             /\ height' \in Nat
             /\ phase' \in [Calls -> Phases]
             /\ request' \in [Calls -> [method : Methods, by : Accounts]]
             /\ built' \in [Calls -> [when : Nat, seen : Nat, nonce : Nat]]
  BY <1>1, <1>8 DEF TypeOK, Include, Phases, Ended
<1>9. ASSUME NEW c \in Calls, phase[c] = "pooled"
      PROVE  request[c].by \in Signatories
  BY <1>9 DEF Inv, CallInv, Decided
<1>10. ASSUME NEW c \in Calls, IncludeOpen(c)
       PROVE  TypeOK'
  <2>1. request[c].by \in Signatories
    BY <1>9, <1>10 DEF IncludeOpen, Include
  <2>. QED
    BY <1>1, <1>8, <1>10, <2>1, SignatoriesAssumption
    DEF TypeOK, IncludeOpen, Operations, Included
<1>11. ASSUME NEW c \in Calls, IncludeApproval(c)
       PROVE  TypeOK'
  <2>1. request[c].by \in Signatories
    BY <1>9, <1>11 DEF IncludeApproval, Include
  <2>2. op \in Operations /\ op.approvals \cup {request[c].by} \in SUBSET Signatories
    BY <1>1, <2>1 DEF TypeOK, Operations
  <2>3. op' = [op EXCEPT !.approvals = op.approvals \cup {request[c].by}]
    BY <1>11 DEF IncludeApproval
  <2>4. op' \in Operations
    BY <2>2, <2>3 DEF Operations
  <2>5. changed' \in Nat /\ executed' = executed
    BY <1>1, <1>11 DEF TypeOK, IncludeApproval
  <2>6. Include(c, "approved")
    BY <1>11 DEF IncludeApproval
  <2>. QED
    BY <1>1, <1>8, <2>4, <2>5, <2>6 DEF TypeOK, Included
<1>12. ASSUME NEW c \in Calls, IncludeExecution(c)
       PROVE  TypeOK'
  <2>1. request[c].by \in Signatories
    BY <1>9, <1>12 DEF IncludeExecution, Include
  <2>. QED
    BY <1>1, <1>8, <1>12, <2>1
    DEF TypeOK, IncludeExecution, Operations, NoOp, Included
<1>13. ASSUME NEW c \in Calls, IncludeFailure(c)
       PROVE  TypeOK'
  BY <1>1, <1>8, <1>13 DEF TypeOK, IncludeFailure, Included
<1>. QED
  BY <1>2, <1>3, <1>4, <1>5, <1>6, <1>7, <1>10, <1>11, <1>12, <1>13 DEF Next

-----------------------------------------------------------------------------
(* What an inclusion does to the calls: one pooled call ends, the others   *)
(* and every call's request and knowledge stay.                            *)

LEMMA IncludedCall ==
    ASSUME Inv, NEW c \in Calls, NEW o \in Included, Include(c, o)
    PROVE  /\ phase[c] = "pooled"
           /\ Decided(c)
           /\ phase' = [phase EXCEPT ![c] = o]
           /\ request' = request /\ built' = built
           /\ height' = height + 1
           /\ request[c].by \in Signatories
           /\ built[c].when <= built[c].seen
           /\ \A d \in Calls : Undecided(d)' => Undecided(d)
           /\ \A d \in Calls : Decided(d)' => Decided(d) /\ d # c
BY DEF Include, Inv, CallInv, TypeOK, Undecided, Decided, Included

LEMMA EntryStep == Inv /\ [Next]_vars => EntryInv'
<1> SUFFICES ASSUME Inv, [Next]_vars PROVE EntryInv'
  OBVIOUS
<1>1. EntryInv /\ TypeOK
  BY DEF Inv
<1>2. CASE UNCHANGED <<op, changed, executed>> /\ height' \in {height, height + 1}
  BY <1>1, <1>2 DEF EntryInv, TypeOK, Operations
<1>3. ASSUME NEW c \in Calls, IncludeOpen(c)
      PROVE  EntryInv'
  BY <1>1, <1>3 DEF EntryInv, TypeOK, Operations, IncludeOpen, Include
<1>4. ASSUME NEW c \in Calls, IncludeApproval(c)
      PROVE  EntryInv'
  <2>1. op # NoOp /\ op.when # 0
    BY <1>1, <1>4 DEF IncludeApproval, Records, EntryInv
  <2>2. op' = [op EXCEPT !.approvals = op.approvals \cup {request[c].by}]
    BY <1>4 DEF IncludeApproval
  <2>3. op'.when = op.when /\ op'.depositor = op.depositor /\ op.depositor \in op'.approvals
    BY <1>1, <2>1, <2>2 DEF EntryInv, TypeOK, Operations
  <2>4. height' = height + 1 /\ changed' = height + 1 /\ executed' = executed
    BY <1>4 DEF IncludeApproval, Include
  <2>. QED
    BY <1>1, <2>1, <2>3, <2>4 DEF EntryInv, TypeOK, Operations
<1>5. ASSUME NEW c \in Calls, IncludeExecution(c)
      PROVE  EntryInv'
  BY <1>1, <1>5 DEF EntryInv, TypeOK, Operations, IncludeExecution, Include, NoOp
<1>6. ASSUME NEW c \in Calls, IncludeFailure(c)
      PROVE  EntryInv'
  BY <1>2, <1>6 DEF IncludeFailure, Include
<1>7. ASSUME NEW c \in Calls,
             \/ \E m \in Methods, s \in Accounts : Start(c, m, s)
             \/ Decide(c) \/ Prepare(c) \/ Submit(c) \/ Expire(c)
      PROVE  EntryInv'
  BY <1>2, <1>7 DEF Start, Decide, Prepare, Submit, Expire, chainVars
<1>. QED
  BY <1>2, <1>3, <1>4, <1>5, <1>6, <1>7 DEF Next, vars

-----------------------------------------------------------------------------
(* Only approveAsMulti and asMulti get past the encoding.                  *)
LEMMA OnlyApprovalsEncode ==
    ASSUME NEW m \in Methods, Encodable(m)
    PROVE  m \in {"approveAsMulti", "asMulti"}
<1> SUFFICES ASSUME m = "cancel" PROVE FALSE
  BY DEF Methods
<1>1. "call_hash" \in PalletArgs(m) \ {"maybe_timepoint"}
  BY DEF PalletArgs
<1>2. "call_hash" \notin GivenArgs(m)
  BY DEF GivenArgs
<1>. QED
  BY <1>1, <1>2 DEF Encodable

(* A call that goes on from its reading of the storage: what the library   *)
(* established for it.                                                     *)
LEMMA DecidedCall ==
    ASSUME Inv, NEW c \in Calls, Decide(c), Decided(c)'
    PROVE  CallInv(c)'
<1>1. TypeOK /\ EntryInv /\ CallInv(c)
  BY DEF Inv
<1>2. phase[c] = "checking" /\ phase'[c] = "preparing"
  BY <1>1 DEF Decide, Decided, TypeOK
<1>3. /\ ~Refuses(request[c].method, request[c].by, op)
      /\ Encodable(request[c].method)
  BY <1>1, <1>2 DEF Decide, TypeOK
<1>4. request[c].method \in {"approveAsMulti", "asMulti"}
  BY <1>1, <1>3, OnlyApprovalsEncode DEF TypeOK
<1>5. request[c].by \in Signatories
  BY <1>1, <1>2, <1>4 DEF CallInv, Undecided
<1>6. /\ request' = request /\ op' = op /\ changed' = changed /\ height' = height
      /\ built'[c].when = op.when /\ built'[c].seen = height
  BY <1>1 DEF Decide, chainVars, TypeOK
<1>7. ASSUME request[c].method = "approveAsMulti", op.when # 0
      PROVE  Threshold > 2
  <2>1. op # NoOp /\ op.approvals # {} /\ op.approvals \in SUBSET Signatories
    BY <1>1, <1>7 DEF EntryInv, TypeOK, Operations, NoOp
  <2>2. Cardinality(op.approvals) \in Nat /\ Cardinality(op.approvals) >= 1
    BY <2>1, ApprovalsCount
  <2>3. ~IsComplete(op) /\ ~IsFinalApproval(op)
    BY <1>3, <1>7, <2>1 DEF Refuses, RefusesApprove
  <2>. QED
    BY <2>2, <2>3, ThresholdAssumption DEF IsComplete, IsFinalApproval
<1>8. built'[c].when <= built'[c].seen /\ built'[c].seen <= height'
  BY <1>1, <1>6 DEF TypeOK, EntryInv
<1>9. FreshInv(c)'
  BY <1>3, <1>6 DEF FreshInv, Refuses, RefusesApprove, RefusesExecute, RefusesCancel,
     HasApproved, IsDepositor, IsFinalApproval, IsComplete
<1>10. ~Undecided(c)'
  BY <1>2 DEF Undecided
<1>11. ASSUME request[c].method = "asMulti"
       PROVE  LastIsMissing(c)'
  <2>1. op # NoOp /\ Cardinality(op.approvals) = Threshold - 1
    BY <1>3, <1>11 DEF Refuses, RefusesExecute, IsFinalApproval
  <2>2. op.when # 0
    BY <1>1, <2>1 DEF EntryInv
  <2>3. Threshold - 1 \in Nat
    BY ThresholdAssumption
  <2>. QED
    BY <1>6, <2>1, <2>2, <2>3 DEF LastIsMissing
<1>. QED
  BY <1>4, <1>5, <1>6, <1>7, <1>8, <1>9, <1>10, <1>11 DEF CallInv

(* A step that leaves the entry and the call's knowledge alone keeps what  *)
(* is known of the call, as long as the call does not get ahead.           *)
LEMMA UndisturbedCall ==
    ASSUME Inv, NEW d \in Calls,
           op' = op, changed' = changed, height' \in {height, height + 1},
           request'[d] = request[d],
           built'[d].when = built[d].when, built'[d].seen = built[d].seen,
           Undecided(d)' => Undecided(d), Decided(d)' => Decided(d)
    PROVE  CallInv(d)'
<1>1. TypeOK /\ CallInv(d)
  BY DEF Inv
<1>2. FreshInv(d) => FreshInv(d)'
  BY DEF FreshInv, Refuses, RefusesApprove, RefusesExecute, RefusesCancel,
     HasApproved, IsDepositor, IsFinalApproval, IsComplete
<1>3. built[d].seen <= height => built'[d].seen <= height'
  BY <1>1 DEF TypeOK
<1>4. built[d].when <= built[d].seen => built'[d].when <= built'[d].seen
  OBVIOUS
<1>5. LastIsMissing(d) => LastIsMissing(d)'
  BY DEF LastIsMissing
<1>. QED
  BY <1>1, <1>2, <1>3, <1>4, <1>5 DEF CallInv

(* The entry is opened with a new timepoint, closed, or gets approvals.    *)
EntryMoves ==
    \/ op'.when \in {0, height + 1}
    \/ /\ op'.when = op.when
       /\ Cardinality(op.approvals) >= Threshold - 1
              => Cardinality(op'.approvals) >= Threshold - 1

LEMMA ChangesMoveEntry ==
    ASSUME Inv, NEW c \in Calls,
           IncludeOpen(c) \/ IncludeApproval(c) \/ IncludeExecution(c)
    PROVE  EntryMoves
<1>1. TypeOK
  BY DEF Inv
<1>2. CASE IncludeOpen(c) \/ IncludeExecution(c)
  BY <1>2 DEF IncludeOpen, IncludeExecution, NoOp, EntryMoves
<1>3. CASE IncludeApproval(c)
  <2>1. op'.when = op.when /\ op'.approvals = op.approvals \cup {request[c].by}
    BY <1>1, <1>3 DEF IncludeApproval, TypeOK, Operations
  <2>2. request[c].by \in Signatories
    BY <1>3, IncludedCall DEF IncludeApproval, Included
  <2>3. op.approvals \in SUBSET Signatories
    BY <1>1 DEF TypeOK, Operations
  <2>4. /\ Cardinality(op.approvals) \in Nat
        /\ Cardinality(op'.approvals) \in Nat
        /\ Cardinality(op'.approvals) >= Cardinality(op.approvals)
    <3>1. op.approvals \cup {request[c].by} \in SUBSET Signatories
      BY <2>2, <2>3
    <3>. QED
      BY <2>1, <2>2, <2>3, <3>1, ApprovalsCount
  <2>5. Threshold - 1 \in Int
    BY ThresholdAssumption
  <2>. QED
    BY <2>1, <2>4, <2>5 DEF EntryMoves
<1>. QED
  BY <1>2, <1>3

(* A step that changes the entry overtakes every call that is still going. *)
LEMMA OvertakenCall ==
    ASSUME Inv, NEW d \in Calls, EntryMoves,
           changed' = height + 1, height' = height + 1,
           request'[d] = request[d], built'[d] = built[d],
           Undecided(d)' => Undecided(d), Decided(d)' => Decided(d)
    PROVE  CallInv(d)'
<1>1. TypeOK /\ CallInv(d)
  BY DEF Inv
<1>2. built[d].seen \in Nat /\ height \in Nat
  BY <1>1 DEF TypeOK
<1>3. built[d].seen <= height => FreshInv(d)' /\ built'[d].seen <= height'
  BY <1>2 DEF FreshInv
<1>4. built[d].when \in Nat
  BY <1>1 DEF TypeOK
<1>5. ASSUME LastIsMissing(d), built[d].when <= built[d].seen, built[d].seen <= height
      PROVE  LastIsMissing(d)'
  BY <1>2, <1>4, <1>5 DEF LastIsMissing, EntryMoves
<1>. QED
  BY <1>1, <1>3, <1>5 DEF CallInv

LEMMA CallStep == Inv /\ [Next]_vars => \A d \in Calls : CallInv(d)'
<1> SUFFICES ASSUME Inv, [Next]_vars, NEW d \in Calls PROVE CallInv(d)'
  OBVIOUS
<1>1. TypeOK
  BY DEF Inv
<1>2. CASE UNCHANGED vars
  BY <1>2, UndisturbedCall DEF vars, Undecided, Decided
<1>3. ASSUME NEW c \in Calls, NEW m \in Methods, NEW s \in Accounts, Start(c, m, s)
      PROVE  CallInv(d)'
  <2>1. CASE d # c
    BY <1>1, <1>3, <2>1, UndisturbedCall DEF Start, chainVars, TypeOK, Undecided, Decided
  <2>2. CASE d = c
    BY <1>1, <1>3, <2>2 DEF Start, TypeOK, CallInv, Undecided, Decided
  <2>. QED
    BY <2>1, <2>2
<1>4. ASSUME NEW c \in Calls, Decide(c)
      PROVE  CallInv(d)'
  <2>1. CASE d # c
    BY <1>1, <1>4, <2>1, UndisturbedCall DEF Decide, chainVars, TypeOK, Undecided, Decided
  <2>2. CASE d = c /\ Decided(c)'
    BY <1>4, <2>2, DecidedCall
  <2>3. CASE d = c /\ ~Decided(c)'
    BY <1>1, <1>4, <2>3 DEF Decide, TypeOK, CallInv, Undecided
  <2>. QED
    BY <2>1, <2>2, <2>3
<1>5. ASSUME NEW c \in Calls, Prepare(c)
      PROVE  CallInv(d)'
  <2>1. built'[d].when = built[d].when /\ built'[d].seen = built[d].seen
    BY <1>1, <1>5 DEF Prepare, TypeOK
  <2>. QED
    BY <1>1, <1>5, <2>1, UndisturbedCall DEF Prepare, chainVars, TypeOK, Undecided, Decided
<1>6. ASSUME NEW c \in Calls, Submit(c) \/ Expire(c)
      PROVE  CallInv(d)'
  BY <1>1, <1>6, UndisturbedCall DEF Submit, Expire, chainVars, TypeOK, Undecided, Decided
<1>7. ASSUME NEW c \in Calls, IncludeOpen(c) \/ IncludeApproval(c) \/ IncludeExecution(c)
      PROVE  CallInv(d)'
  <2>1. PICK o \in Included : Include(c, o)
    BY <1>7 DEF IncludeOpen, IncludeApproval, IncludeExecution, Included
  <2>2. changed' = height + 1
    BY <1>7 DEF IncludeOpen, IncludeApproval, IncludeExecution
  <2>. QED
    BY <1>7, <2>1, <2>2, IncludedCall, ChangesMoveEntry, OvertakenCall
<1>8. ASSUME NEW c \in Calls, IncludeFailure(c)
      PROVE  CallInv(d)'
  <2>1. PICK o \in Included : Include(c, o)
    BY <1>8 DEF IncludeFailure, Included
  <2>. QED
    BY <1>8, <2>1, IncludedCall, UndisturbedCall DEF IncludeFailure
<1>. QED
  BY <1>2, <1>3, <1>4, <1>5, <1>6, <1>7, <1>8 DEF Next

-----------------------------------------------------------------------------
(* A call that approved or executed has ended: its record stays.           *)
(* StillApprovedFor is ApprovedFor in the next state, for a round that may *)
(* be an expression of the current one.                                    *)
StillApprovedFor(s, r) ==
    \E c \in Calls : /\ request'[c].by = s
                    /\ built'[c].when = r /\ r <= built'[c].seen
                    /\ phase'[c] \in {"approved", "executed"}

LEMMA ApprovalsStay ==
    Inv /\ [Next]_vars =>
        \A s \in Signatories, r \in Nat : ApprovedFor(s, r) => StillApprovedFor(s, r)
<1> SUFFICES ASSUME Inv, [Next]_vars,
                    NEW d \in Calls, phase[d] \in {"approved", "executed"}
             PROVE  phase'[d] = phase[d] /\ request'[d] = request[d] /\ built'[d] = built[d]
  BY DEF ApprovedFor, StillApprovedFor
<1>1. TypeOK
  BY DEF Inv
<1>2. CASE UNCHANGED vars
  BY <1>2 DEF vars
<1>3. ASSUME NEW c \in Calls, NEW m \in Methods, NEW s \in Accounts, Start(c, m, s)
      PROVE  phase'[d] = phase[d] /\ request'[d] = request[d] /\ built'[d] = built[d]
  BY <1>1, <1>3 DEF Start, TypeOK
<1>4. ASSUME NEW c \in Calls, Decide(c) \/ Prepare(c) \/ Submit(c) \/ Expire(c)
      PROVE  phase'[d] = phase[d] /\ request'[d] = request[d] /\ built'[d] = built[d]
  BY <1>1, <1>4 DEF Decide, Prepare, Submit, Expire, TypeOK
<1>5. ASSUME NEW c \in Calls, NEW o \in Included, Include(c, o)
      PROVE  phase'[d] = phase[d] /\ request'[d] = request[d] /\ built'[d] = built[d]
  BY <1>1, <1>5 DEF Include, TypeOK
<1>6. ASSUME NEW c \in Calls, \/ IncludeOpen(c) \/ IncludeApproval(c)
                              \/ IncludeExecution(c) \/ IncludeFailure(c)
      PROVE  \E o \in Included : Include(c, o)
  BY <1>6 DEF IncludeOpen, IncludeApproval, IncludeExecution, IncludeFailure, Included
<1>. QED
  BY <1>2, <1>3, <1>4, <1>5, <1>6 DEF Next

(* Executing takes Threshold approvals, the caller's included if it is     *)
(* still needed.                                                           *)
LEMMA ExecutionCount ==
    ASSUME Inv, NEW c \in Calls, IncludeExecution(c),
           NEW S, S = IF Votes(request[c].by)
                      THEN op.approvals \cup {request[c].by} ELSE op.approvals
    PROVE  /\ S \in SUBSET Signatories
           /\ Cardinality(S) >= Threshold
           /\ op.depositor \in S
<1>1. TypeOK /\ EntryInv
  BY DEF Inv
<1>2. request[c].by \in Signatories
  BY IncludedCall DEF IncludeExecution, Included
<1>3. op.approvals \in SUBSET Signatories /\ op # NoOp
  BY <1>1 DEF TypeOK, Operations, IncludeExecution, Executes
<1>4. op.depositor \in op.approvals
  BY <1>1, <1>3 DEF EntryInv
<1>5. Cardinality(op.approvals) + (IF Votes(request[c].by) THEN 1 ELSE 0) >= Threshold
  BY DEF IncludeExecution, Executes
<1>6. CASE Votes(request[c].by)
  <2>1. Cardinality(S) = Cardinality(op.approvals) + 1
    BY <1>2, <1>3, <1>6, ApprovalsCount DEF Votes
  <2>. QED
    BY <1>2, <1>3, <1>4, <1>5, <1>6, <2>1
<1>7. CASE ~Votes(request[c].by)
  <2>1. Cardinality(op.approvals) \in Nat
    BY <1>3, ApprovalsCount
  <2>. QED
    BY <1>3, <1>4, <1>5, <1>7, <2>1, ThresholdAssumption
<1>. QED
  BY <1>6, <1>7

LEMMA MeantStep == Inv /\ [Next]_vars => ApprovalsAreMeant'
<1> SUFFICES ASSUME Inv, [Next]_vars PROVE ApprovalsAreMeant'
  OBVIOUS
<1>1. TypeOK /\ EntryInv /\ ApprovalsAreMeant
  BY DEF Inv
<1>2. \A s \in Signatories, r \in Nat : ApprovedFor(s, r) => StillApprovedFor(s, r)
  BY ApprovalsStay
<1>3. op.approvals \subseteq Signatories /\ op.when \in Nat
  BY <1>1 DEF TypeOK, Operations
<1>4. /\ op # NoOp => \A s \in op.approvals \ {op.depositor} : StillApprovedFor(s, op.when)
      /\ \A e \in executed : /\ Cardinality(e.by) >= Threshold
                             /\ \E opener \in e.by :
                                    \A s \in e.by \ {opener} : StillApprovedFor(s, e.round)
  BY <1>1, <1>2, <1>3 DEF ApprovalsAreMeant, TypeOK
<1>5. CASE UNCHANGED <<op, executed>>
  BY <1>4, <1>5 DEF ApprovalsAreMeant, ApprovedFor, StillApprovedFor
<1>6. ASSUME NEW c \in Calls, IncludeOpen(c)
      PROVE  ApprovalsAreMeant'
  BY <1>4, <1>6 DEF ApprovalsAreMeant, IncludeOpen, ApprovedFor, StillApprovedFor
<1>7. ASSUME NEW c \in Calls, IncludeApproval(c)
      PROVE  ApprovalsAreMeant'
  <2>1. op # NoOp /\ built[c].when = op.when
    BY <1>7 DEF IncludeApproval, Records
  <2>2. /\ phase'[c] = "approved" /\ request' = request /\ built' = built
        /\ built[c].when <= built[c].seen
    BY <1>1, <1>7, IncludedCall DEF IncludeApproval, TypeOK, Included
  <2>3. StillApprovedFor(request[c].by, op.when)
    BY <2>1, <2>2 DEF StillApprovedFor
  <2>4. /\ op'.when = op.when /\ op'.depositor = op.depositor
        /\ op'.approvals = op.approvals \cup {request[c].by}
        /\ executed' = executed
    BY <1>1, <1>7 DEF IncludeApproval, TypeOK, Operations
  <2>5. \A s \in op'.approvals \ {op'.depositor} : StillApprovedFor(s, op'.when)
    BY <1>4, <2>1, <2>3, <2>4
  <2>. QED
    BY <1>4, <2>4, <2>5 DEF ApprovalsAreMeant, ApprovedFor, StillApprovedFor
<1>8. ASSUME NEW c \in Calls, IncludeExecution(c)
      PROVE  ApprovalsAreMeant'
  <2> DEFINE S == IF Votes(request[c].by)
                  THEN op.approvals \cup {request[c].by} ELSE op.approvals
  <2>1. Cardinality(S) >= Threshold /\ op.depositor \in S
    BY <1>8, ExecutionCount
  <2>2. op # NoOp /\ built[c].when = op.when
    BY <1>8 DEF IncludeExecution, Executes
  <2>3. /\ phase'[c] = "executed" /\ request' = request /\ built' = built
        /\ built[c].when <= built[c].seen
    BY <1>1, <1>8, IncludedCall DEF IncludeExecution, TypeOK, Included
  <2>4. StillApprovedFor(request[c].by, op.when)
    BY <2>2, <2>3 DEF StillApprovedFor
  <2>5. \A s \in S \ {op.depositor} : StillApprovedFor(s, op.when)
    BY <1>4, <2>2, <2>4
  <2>6. executed' = executed \cup {[round |-> op.when, by |-> S]} /\ op' = NoOp
    BY <1>8 DEF IncludeExecution
  <2>. HIDE DEF S
  <2>7. \A e \in executed' : /\ Cardinality(e.by) >= Threshold
                             /\ \E opener \in e.by :
                                    \A s \in e.by \ {opener} : StillApprovedFor(s, e.round)
    <3>1. TAKE e \in executed'
    <3>2. CASE e \in executed
      BY <1>4, <3>2
    <3>3. CASE e = [round |-> op.when, by |-> S]
      BY <2>1, <2>5, <3>3
    <3>. QED
      BY <2>6, <3>2, <3>3
  <2>. QED
    BY <2>6, <2>7 DEF ApprovalsAreMeant, ApprovedFor, StillApprovedFor
<1>9. ASSUME NEW c \in Calls,
             \/ \E m \in Methods, s \in Accounts : Start(c, m, s)
             \/ Decide(c) \/ Prepare(c) \/ Submit(c) \/ Expire(c) \/ IncludeFailure(c)
      PROVE  ApprovalsAreMeant'
  BY <1>5, <1>9 DEF Start, Decide, Prepare, Submit, Expire, IncludeFailure, chainVars
<1>. QED
  BY <1>5, <1>6, <1>7, <1>8, <1>9 DEF Next, vars

-----------------------------------------------------------------------------
(* The inductive invariant, and with it type correctness and the meaning   *)
(* of every approval: wallets that race, retry and lose transactions never *)
(* get an execution that Threshold signatories did not ask for.            *)
THEOREM InvCorrect == Spec => []Inv
<1>1. Inv /\ [Next]_vars => Inv'
  BY TypeStep, EntryStep, CallStep, MeantStep DEF Inv
<1>. QED
  BY <1>1, InitInv, PTL DEF Spec

THEOREM TypeCorrect == Spec => []TypeOK
<1>1. Inv => TypeOK
  BY DEF Inv
<1>. QED
  BY <1>1, InvCorrect, PTL

THEOREM ApprovalsMeant == Spec => []ApprovalsAreMeant
<1>1. Inv => ApprovalsAreMeant
  BY DEF Inv
<1>. QED
  BY <1>1, InvCorrect, PTL

-----------------------------------------------------------------------------
(* What a call decided is what the pallet does, if nothing came between:   *)
(* an approval is recorded, short of the threshold; an asMulti executes.   *)
LEMMA FreshOutcome ==
    ASSUME Inv, NEW c \in Calls, Decided(c), changed <= built[c].seen
    PROVE  \/ Opens(c)
           \/ /\ request[c].method = "approveAsMulti" /\ Records(c)
              /\ Cardinality(op.approvals \cup {request[c].by}) < Threshold
           \/ Executes(c)
<1>1. TypeOK /\ EntryInv /\ CallInv(c)
  BY DEF Inv
<1>2. /\ built[c].when = op.when
      /\ request[c].by \in Signatories
      /\ ~Refuses(request[c].method, request[c].by, op)
      /\ request[c].method \in {"approveAsMulti", "asMulti"}
  BY <1>1 DEF CallInv, FreshInv
<1>3. /\ op.approvals \in SUBSET Signatories
      /\ Cardinality(op.approvals) \in Nat
      /\ Threshold \in Nat
  BY <1>1, ApprovalsCount, ThresholdAssumption DEF TypeOK, Operations
<1>4. CASE op = NoOp
  BY <1>2, <1>4 DEF Opens, NoOp
<1>5. CASE op # NoOp /\ request[c].method = "approveAsMulti"
  <2>1. /\ request[c].by \notin op.approvals
        /\ Cardinality(op.approvals) < Threshold
        /\ Cardinality(op.approvals) # Threshold - 1
    BY <1>2, <1>3, <1>5
    DEF Refuses, RefusesApprove, HasApproved, IsComplete, IsFinalApproval
  <2>2. Cardinality(op.approvals \cup {request[c].by}) = Cardinality(op.approvals) + 1
    BY <1>2, <1>3, <2>1, ApprovalsCount
  <2>. QED
    BY <1>2, <1>3, <1>5, <2>1, <2>2 DEF Records, Votes, Executes
<1>6. CASE op # NoOp /\ request[c].method = "asMulti"
  <2>1. /\ request[c].by \notin op.approvals
        /\ Cardinality(op.approvals) = Threshold - 1
    BY <1>2, <1>6 DEF Refuses, RefusesExecute, HasApproved, IsComplete, IsFinalApproval
  <2>. QED
    BY <1>2, <1>3, <1>6, <2>1 DEF Executes, Votes
<1>. QED
  BY <1>2, <1>4, <1>5, <1>6

(* Only an inclusion makes a call approved or failed, and it was decided   *)
(* before.                                                                 *)
LEMMA OnlyIncluded ==
    ASSUME Inv, [Next]_vars, NEW c \in Calls,
           phase'[c] \in {"approved", "failed"}, phase'[c] # phase[c]
    PROVE  /\ Decided(c)
           /\ \/ phase'[c] = "failed" /\ IncludeFailure(c)
              \/ phase'[c] = "approved" /\ (IncludeOpen(c) \/ IncludeApproval(c))
<1>1. TypeOK
  BY DEF Inv
<1>2. PICK d \in Calls : \/ \E m \in Methods, s \in Accounts : Start(d, m, s)
                         \/ Decide(d) \/ Prepare(d) \/ Submit(d) \/ Expire(d)
                         \/ IncludeOpen(d) \/ IncludeApproval(d)
                         \/ IncludeExecution(d) \/ IncludeFailure(d)
  BY DEF Next, vars
<1>3. CASE \/ \E m \in Methods, s \in Accounts : Start(d, m, s)
           \/ Decide(d) \/ Prepare(d) \/ Submit(d) \/ Expire(d)
  BY <1>1, <1>3 DEF Start, Decide, Prepare, Submit, Expire, TypeOK
<1>4. CASE IncludeOpen(d) \/ IncludeApproval(d)
  BY <1>1, <1>4 DEF IncludeOpen, IncludeApproval, Include, TypeOK, Decided
<1>5. CASE IncludeExecution(d)
  BY <1>1, <1>5 DEF IncludeExecution, Include, TypeOK
<1>6. CASE IncludeFailure(d)
  BY <1>1, <1>6 DEF IncludeFailure, Include, TypeOK, Decided
<1>. QED
  BY <1>2, <1>3, <1>4, <1>5, <1>6

(* The checks before a submission are worth their round trip: no           *)
(* transaction fails unless the operation changed after it was read.       *)
THEOREM OvertakenOnly == Spec => FailsOnlyIfOvertaken
<1>1. ASSUME Inv, [Next]_vars, NEW c \in Calls,
             phase'[c] = "failed", phase[c] # "failed"
      PROVE  changed > built[c].seen
  <2>1. Decided(c) /\ ~Opens(c) /\ ~Records(c) /\ ~Executes(c)
    BY <1>1, OnlyIncluded DEF IncludeFailure
  <2>2. ~(changed <= built[c].seen)
    BY <1>1, <2>1, FreshOutcome
  <2>3. changed \in Nat /\ built[c].seen \in Nat
    BY <1>1 DEF Inv, TypeOK
  <2>. QED
    BY <2>2, <2>3
<1>2. Inv /\ [Next]_vars => [OvertakenFailure]_vars
  BY <1>1 DEF OvertakenFailure
<1>. QED
  BY <1>2, InvCorrect, PTL DEF Spec, FailsOnlyIfOvertaken

(* An operation reaches its threshold without being executed only by an    *)
(* approval that was decided before another one was recorded.              *)
THEOREM StuckOnlyByRace == Spec => CompletedOnlyByStaleApproval
<1>1. ASSUME Inv, [Next]_vars, NEW c \in Calls,
             phase'[c] = "approved", phase[c] # "approved",
             Cardinality(op'.approvals) >= Threshold
      PROVE  changed > built[c].seen
  <2>1. Decided(c) /\ (IncludeOpen(c) \/ IncludeApproval(c))
    BY <1>1, OnlyIncluded
  <2>2. TypeOK /\ changed \in Nat /\ built[c].seen \in Nat
    BY <1>1 DEF Inv, TypeOK
  <2>3. CASE IncludeOpen(c)
    <3>1. op'.approvals = {request[c].by}
      BY <2>3 DEF IncludeOpen
    <3>2. Cardinality(op'.approvals) = 1
      BY <3>1, OneApproval, Zenon
    <3>. QED
      BY <1>1, <3>2, ThresholdAssumption
  <2>4. CASE IncludeApproval(c)
    <3>1. op'.approvals = op.approvals \cup {request[c].by}
      BY <2>2, <2>4 DEF IncludeApproval, TypeOK, Operations
    <3>2. op.approvals \cup {request[c].by} \in SUBSET Signatories
      BY <1>1, <2>1, <2>2 DEF Inv, CallInv, TypeOK, Operations
    <3>3. Cardinality(op.approvals \cup {request[c].by}) \in Nat /\ Threshold \in Nat
      BY <3>2, ApprovalsCount, ThresholdAssumption
    <3>4. ~Opens(c) /\ ~Executes(c)
      BY <2>4 DEF IncludeApproval, Records, Opens
    <3>5. ~(changed <= built[c].seen)
      BY <1>1, <2>1, <3>1, <3>3, <3>4, FreshOutcome
    <3>. QED
      BY <2>2, <3>5
  <2>. QED
    BY <2>1, <2>3, <2>4
<1>2. Inv /\ [Next]_vars => [StaleCompletion]_vars
  BY <1>1 DEF StaleCompletion
<1>. QED
  BY <1>2, InvCorrect, PTL DEF Spec, CompletedOnlyByStaleApproval

(* A multisig account with threshold two never gets stuck.                 *)
THEOREM TwoIsSafe == Spec => []TwoNeverStuck
<1>1. Init => TwoNeverStuck
  BY FS_EmptySet DEF Init, NoOp, TwoNeverStuck
<1>2. ASSUME Inv, TwoNeverStuck, [Next]_vars, Threshold = 2
      PROVE  Cardinality(op'.approvals) < 2
  <2>1. TypeOK /\ EntryInv
    BY <1>2 DEF Inv
  <2>2. CASE op' = op
    BY <1>2, <2>2 DEF TwoNeverStuck
  <2>3. ASSUME NEW c \in Calls, IncludeOpen(c)
        PROVE  Cardinality(op'.approvals) < 2
    <3>1. op'.approvals = {request[c].by}
      BY <2>3 DEF IncludeOpen
    <3>2. Cardinality(op'.approvals) = 1
      BY <3>1, OneApproval, Zenon
    <3>. QED
      BY <3>2
  <2>4. ASSUME NEW c \in Calls, IncludeExecution(c)
        PROVE  Cardinality(op'.approvals) < 2
    <3>1. op'.approvals = {}
      BY <2>4 DEF IncludeExecution, NoOp
    <3>. QED
      BY <3>1, FS_EmptySet
  <2>5. ASSUME NEW c \in Calls, IncludeApproval(c)
        PROVE  FALSE
    <3>1. op # NoOp /\ built[c].when = op.when /\ Votes(request[c].by) /\ ~Executes(c)
      BY <2>5 DEF IncludeApproval, Records
    <3>2. op.when # 0 /\ op.approvals # {}
      BY <2>1, <3>1 DEF EntryInv
    <3>3. Decided(c) /\ CallInv(c)
      BY <1>2, <2>5, IncludedCall DEF IncludeApproval, Included, Inv
    <3>4. request[c].method = "asMulti"
      BY <1>2, <3>1, <3>2, <3>3 DEF CallInv
    <3>5. Cardinality(op.approvals) \in Nat /\ Cardinality(op.approvals) >= 1
      BY <2>1, <3>2, ApprovalsCount DEF TypeOK, Operations
    <3>. QED
      BY <1>2, <3>1, <3>4, <3>5 DEF Executes
  <2>. QED
    BY <1>2, <2>2, <2>3, <2>4, <2>5
    DEF Next, vars, chainVars, Start, Decide, Prepare, Submit, Expire, IncludeFailure
<1>3. Inv /\ TwoNeverStuck /\ [Next]_vars => TwoNeverStuck'
  BY <1>2 DEF TwoNeverStuck
<1>. QED
  BY <1>1, <1>3, InvCorrect, PTL DEF Spec

-----------------------------------------------------------------------------
(* The abstract specification counts with the same Cardinality.            *)
LEMMA SameCardinality == \A S : Promise!Cardinality(S) = Cardinality(S)
BY Zenon DEF Cardinality, Promise!Cardinality

(* How a step of the model moves the calls of the promise: the call it is  *)
(* of, and the views of those it overtakes.                                *)
LEMMA MovedStage ==
    ASSUME TypeOK, NEW c \in Calls, NEW o, phase' = [phase EXCEPT ![c] = o]
    PROVE  /\ Stage' = [Stage EXCEPT ![c] = StageOf(c)']
           /\ \A d \in Calls : d # c => (Decided(d)' <=> Decided(d))
<1>1. \A d \in Calls : d # c => phase'[d] = phase[d]
  BY DEF TypeOK
<1>2. \A d \in Calls : d # c => StageOf(d)' = StageOf(d) /\ (Decided(d)' <=> Decided(d))
  BY <1>1 DEF StageOf, Decided
<1>. QED
  BY <1>2 DEF Stage

LEMMA SameView ==
    ASSUME NEW d \in Calls, request'[d] = request[d], built'[d] = built[d],
           changed' = changed, Decided(d)' <=> Decided(d)
    PROVE  ViewOf(d)' = ViewOf(d)
BY DEF ViewOf

LEMMA NoViewOf == \A c \in Calls : /\ ~Decided(c) => ViewOf(c) = Promise!NoView
                                   /\ ~Decided(c)' => ViewOf(c)' = Promise!NoView
BY DEF ViewOf, Promise!NoView

LEMMA NoLongerCurrent ==
    ASSUME NEW v, NEW s, NEW r, NEW e, NEW f, NEW g,
           v = [by |-> s, round |-> r, executes |-> e, current |-> f]
    PROVE  [v EXCEPT !.current = g] = [by |-> s, round |-> r, executes |-> e, current |-> g]
OBVIOUS

LEMMA OvertakenView ==
    ASSUME Inv, NEW d \in Calls, changed' = height + 1,
           request' = request, built' = built, Decided(d)' <=> Decided(d)
    PROVE  ViewOf(d)' = [ViewOf(d) EXCEPT !.current = FALSE]
<1>1. CASE Decided(d)
  <2>1. built[d].seen <= height /\ built[d].seen \in Nat /\ height \in Nat
    BY <1>1 DEF Inv, TypeOK, CallInv
  <2>2. (changed' <= built'[d].seen) = FALSE
    BY <2>1
  <2> DEFINE fresh == changed <= built[d].seen
             asks == request[d].method = "asMulti"
  <2>3. ViewOf(d)' = [by |-> request[d].by, round |-> built[d].when,
                      executes |-> request[d].method = "asMulti", current |-> FALSE]
    BY <1>1, <2>2 DEF ViewOf
  <2>4. ViewOf(d) = [by |-> request[d].by, round |-> built[d].when,
                     executes |-> request[d].method = "asMulti",
                     current |-> changed <= built[d].seen]
    BY <1>1 DEF ViewOf
  <2>5. [ViewOf(d) EXCEPT !.current = FALSE]
            = [by |-> request[d].by, round |-> built[d].when,
               executes |-> request[d].method = "asMulti", current |-> FALSE]
    <3>1. ViewOf(d) = [by |-> request[d].by, round |-> built[d].when,
                       executes |-> asks, current |-> fresh]
      BY <2>4
    <3> DEFINE late == FALSE
    <3> HIDE DEF asks, fresh, late
    <3>2. [ViewOf(d) EXCEPT !.current = late]
              = [by |-> request[d].by, round |-> built[d].when,
                 executes |-> asks, current |-> late]
      BY <3>1, NoLongerCurrent
    <3>. QED
      BY <3>2, Zenon DEF asks, late
  <2>. QED
    BY <2>3, <2>5
<1>2. CASE ~Decided(d)
  <2>1. ViewOf(d) = Promise!NoView /\ ViewOf(d)' = Promise!NoView
    BY <1>2, NoViewOf
  <2>. QED
    <3> DEFINE late == FALSE
    <3>1. Promise!NoView = [by |-> Nobody, round |-> 0, executes |-> late, current |-> late]
      BY DEF Promise!NoView
    <3> HIDE DEF late
    <3>2. [Promise!NoView EXCEPT !.current = late] = Promise!NoView
      BY <3>1, NoLongerCurrent
    <3>3. [Promise!NoView EXCEPT !.current = FALSE] = Promise!NoView
      BY <3>2, Zenon DEF late
    <3>. QED
      BY <2>1, <3>3, Zenon
<1>. QED
  BY <1>1, <1>2

(* A pending call that ends without an effect.                             *)
LEMMA EndStep ==
    ASSUME Inv, NEW c \in Calls, Decided(c), NEW o \in {"failed", "rejected", "expired"},
           phase' = [phase EXCEPT ![c] = o], request' = request, built' = built,
           op' = op, executed' = executed, changed' = changed
    PROVE  /\ Promise!End(c, IF o = "failed" THEN "failed" ELSE "dropped")
           /\ Stage'[c] # Stage[c]
<1> DEFINE outcome == IF o = "failed" THEN "failed" ELSE "dropped"
<1>1. TypeOK
  BY DEF Inv
<1>2. phase'[c] = o
  BY <1>1 DEF TypeOK
<1>3. StageOf(c) = "pending" /\ StageOf(c)' = outcome /\ ~Decided(c)'
  BY <1>2 DEF StageOf, Decided, Included
<1>4. /\ Stage' = [Stage EXCEPT ![c] = outcome]
      /\ \A d \in Calls : d # c => (Decided(d)' <=> Decided(d))
  BY <1>1, <1>3, MovedStage
<1>5. \A d \in Calls : d # c => ViewOf(d)' = ViewOf(d)
  BY <1>4, SameView
<1>6. ViewOf(c)' = Promise!NoView
  BY <1>3, NoViewOf
<1>7. View' = [View EXCEPT ![c] = Promise!NoView]
  BY <1>5, <1>6 DEF View
<1>8. Stage[c] = "pending" /\ Stage'[c] = outcome
  BY <1>3 DEF Stage
<1>. QED
  BY <1>4, <1>7, <1>8 DEF Promise!End, Promise!accountVars

(* A pending call whose transaction takes effect.                          *)
LEMMA ActStep ==
    ASSUME Inv, NEW c \in Calls, NEW o \in {"approved", "executed"}, Include(c, o),
           changed' = height + 1, built[c].when = op.when,
           NEW executes, executes = (request[c].method = "asMulti")
    PROVE  /\ Promise!Act(c, executes, o)
           /\ Stage'[c] # Stage[c]
           /\ View[c].by = request[c].by
           /\ View[c].current = (changed <= built[c].seen)
<1>1. TypeOK
  BY DEF Inv
<1>2. /\ Decided(c)
      /\ phase' = [phase EXCEPT ![c] = o]
      /\ request' = request /\ built' = built
  BY IncludedCall DEF Included
<1>3. phase'[c] = o
  BY <1>1, <1>2 DEF TypeOK
<1>4. StageOf(c) = "pending" /\ StageOf(c)' = o /\ ~Decided(c)'
  BY <1>2, <1>3 DEF StageOf, Decided, Included
<1>5. /\ Stage' = [Stage EXCEPT ![c] = o]
      /\ \A d \in Calls : d # c => (Decided(d)' <=> Decided(d))
  BY <1>1, <1>2, <1>4, MovedStage
<1>6. \A d \in Calls : d # c => ViewOf(d)' = [ViewOf(d) EXCEPT !.current = FALSE]
  BY <1>2, <1>5, OvertakenView
<1>7. ViewOf(c)' = Promise!NoView
  BY <1>4, NoViewOf
<1>8. View' = [d \in Calls |-> IF d = c THEN Promise!NoView
                               ELSE [View[d] EXCEPT !.current = FALSE]]
  BY <1>6, <1>7 DEF View
<1>9. View[c] = [by |-> request[c].by, round |-> op.when,
                 executes |-> request[c].method = "asMulti",
                 current |-> changed <= built[c].seen]
  BY <1>2 DEF View, ViewOf
<1>10. /\ View[c].round = op.when /\ View[c].executes = executes
       /\ View[c].by = request[c].by
       /\ View[c].current = (changed <= built[c].seen)
  BY <1>9
<1>11. Stage[c] = "pending" /\ Stage'[c] = o
  BY <1>4 DEF Stage
<1>. QED
  BY <1>5, <1>8, <1>10, <1>11 DEF Promise!Act

(* A call that goes on after its reading of the storage: the library's     *)
(* checks make it a Read of the promise.                                   *)
LEMMA ReadStep ==
    ASSUME Inv, NEW c \in Calls, Decide(c), Decided(c)'
    PROVE  Promise!Read(c, request[c].by) /\ Stage'[c] # Stage[c]
<1>1. TypeOK /\ EntryInv
  BY DEF Inv
<1>2. /\ phase[c] = "checking"
      /\ phase' = [phase EXCEPT ![c] = "preparing"]
      /\ phase'[c] = "preparing"
  BY <1>1 DEF Decide, Decided, TypeOK
<1>3. /\ ~Refuses(request[c].method, request[c].by, op)
      /\ Encodable(request[c].method)
  BY <1>1, <1>2 DEF Decide, TypeOK
<1>4. request[c].method \in {"approveAsMulti", "asMulti"}
  BY <1>1, <1>3, OnlyApprovalsEncode DEF TypeOK
<1>5. /\ op.approvals \in SUBSET Signatories
      /\ Cardinality(op.approvals) \in Nat
      /\ Threshold \in Nat /\ 2 <= Threshold
  BY <1>1, ApprovalsCount, ThresholdAssumption DEF TypeOK, Operations
<1>6. op = NoOp => op.approvals = {} /\ Cardinality(op.approvals) = 0
  BY FS_EmptySet DEF NoOp
<1>7. /\ request[c].by \notin op.approvals
      /\ Cardinality(op.approvals) < Threshold
      /\ request[c].method = "asMulti" <=> Cardinality(op.approvals) = Threshold - 1
  <2>1. CASE request[c].method = "approveAsMulti"
    <3>1. op = NoOp \/ ~(HasApproved(request[c].by, op) \/ IsComplete(op) \/ IsFinalApproval(op))
      BY <1>3, <2>1 DEF Refuses, RefusesApprove
    <3>. QED
      BY <1>5, <1>6, <2>1, <3>1 DEF HasApproved, IsComplete, IsFinalApproval
  <2>2. CASE request[c].method = "asMulti"
    BY <1>3, <1>5, <2>2 DEF Refuses, RefusesExecute, HasApproved, IsComplete, IsFinalApproval
  <2>. QED
    BY <1>4, <2>1, <2>2
<1>8. /\ request' = request /\ op' = op /\ changed' = changed
      /\ height' = height /\ executed' = executed
      /\ built'[c].when = op.when /\ built'[c].seen = height
      /\ \A d \in Calls : d # c => built'[d] = built[d]
  BY <1>1 DEF Decide, chainVars, TypeOK
<1>9. changed' <= built'[c].seen
  BY <1>1, <1>8 DEF EntryInv
<1>10. StageOf(c) = "unread" /\ StageOf(c)' = "pending"
  BY <1>2 DEF StageOf, Decided, Included
<1>11. /\ Stage' = [Stage EXCEPT ![c] = "pending"]
       /\ \A d \in Calls : d # c => (Decided(d)' <=> Decided(d))
  BY <1>1, <1>2, <1>10, MovedStage
<1>12. \A d \in Calls : d # c => ViewOf(d)' = ViewOf(d)
  BY <1>8, <1>11, SameView
<1> DEFINE seen == [by |-> request[c].by, round |-> op.when,
                    executes |-> Cardinality(op.approvals) = Threshold - 1, current |-> TRUE]
<1>13. ViewOf(c)' = seen
  BY <1>7, <1>8, <1>9 DEF ViewOf
<1> HIDE DEF seen
<1>14. View' = [View EXCEPT ![c] = seen]
  BY <1>12, <1>13 DEF View
<1>15. Stage[c] = "unread" /\ Stage'[c] = "pending"
  BY <1>10 DEF Stage
<1>. QED
  BY <1>7, <1>8, <1>11, <1>14, <1>15, SameCardinality
  DEF seen, Promise!Read, Promise!accountVars

(* A step that moves no call of the promise.                               *)
LEMMA StutterStep ==
    ASSUME Inv, NEW c \in Calls, NEW o, phase' = [phase EXCEPT ![c] = o],
           op' = op, executed' = executed, changed' = changed,
           StageOf(c)' = StageOf(c), Decided(c)' <=> Decided(c),
           Decided(c) => request'[c] = request[c] /\ built'[c].when = built[c].when
                            /\ built'[c].seen = built[c].seen,
           \A d \in Calls : d # c => request'[d] = request[d] /\ built'[d] = built[d]
    PROVE  UNCHANGED Promise!promiseVars
<1>1. /\ Stage' = [Stage EXCEPT ![c] = StageOf(c)]
      /\ \A d \in Calls : d # c => (Decided(d)' <=> Decided(d))
  BY MovedStage DEF Inv
<1>2. Stage' = Stage
  BY <1>1 DEF Stage
<1>3. \A d \in Calls : d # c => ViewOf(d)' = ViewOf(d)
  BY <1>1, SameView
<1>4. ViewOf(c)' = ViewOf(c)
  BY DEF ViewOf
<1>5. View' = View
  BY <1>3, <1>4 DEF View
<1>. QED
  BY <1>2, <1>5 DEF Promise!promiseVars

(* The wallets, the pool and the pallet together keep the promise: every   *)
(* effect is the one that a call's own reading allows, and no call that is *)
(* current fails.                                                          *)
LEMMA PromiseStep == Inv /\ [Next]_vars => [Promise!Next]_(Promise!promiseVars)
<1> SUFFICES ASSUME Inv, [Next]_vars
             PROVE  Promise!Next \/ UNCHANGED Promise!promiseVars
  OBVIOUS
<1>1. TypeOK /\ EntryInv
  BY DEF Inv
<1>2. CASE UNCHANGED vars
  BY <1>2 DEF vars, Promise!promiseVars, Stage, View, StageOf, ViewOf, Decided
<1>3. ASSUME NEW c \in Calls, NEW m \in Methods, NEW s \in Accounts, Start(c, m, s)
      PROVE  UNCHANGED Promise!promiseVars
  <2>1. PICK o \in {"refused", "checking"} : phase' = [phase EXCEPT ![c] = o]
    BY <1>3 DEF Start
  <2>2. phase[c] = "idle" /\ phase'[c] = o
    BY <1>1, <1>3, <2>1 DEF Start, TypeOK
  <2>3. StageOf(c)' = StageOf(c) /\ ~Decided(c) /\ ~Decided(c)'
    BY <2>2 DEF StageOf, Decided, Included
  <2>4. /\ op' = op /\ executed' = executed /\ changed' = changed
        /\ \A d \in Calls : d # c => request'[d] = request[d] /\ built'[d] = built[d]
    BY <1>1, <1>3 DEF Start, chainVars, TypeOK
  <2>. QED
    BY <2>1, <2>3, <2>4, StutterStep
<1>4. ASSUME NEW c \in Calls, Decide(c)
      PROVE  Promise!Next \/ UNCHANGED Promise!promiseVars
  <2>1. CASE Decided(c)'
    <3>1. phase[c] = "checking"
      BY <1>4 DEF Decide
    <3>2. CallInv(c)'
      BY <1>4, <2>1, DecidedCall
    <3>3. request[c].by \in Signatories
      BY <1>4, <2>1, <3>2 DEF CallInv, Decide
    <3>. QED
      BY <1>4, <2>1, <3>3, ReadStep DEF Promise!Next
  <2>2. CASE ~Decided(c)'
    <3>1. PICK o \in {"refused", "unencodable", "preparing"} : phase' = [phase EXCEPT ![c] = o]
      BY <1>4 DEF Decide
    <3>2. phase[c] = "checking" /\ phase'[c] = o
      BY <1>1, <1>4, <3>1 DEF Decide, TypeOK
    <3>3. StageOf(c)' = StageOf(c) /\ ~Decided(c)
      BY <2>2, <3>2 DEF StageOf, Decided, Included
    <3>4. /\ op' = op /\ executed' = executed /\ changed' = changed
          /\ \A d \in Calls : d # c => request'[d] = request[d] /\ built'[d] = built[d]
      BY <1>1, <1>4 DEF Decide, chainVars, TypeOK
    <3>. QED
      BY <2>2, <3>1, <3>3, <3>4, StutterStep
  <2>. QED
    BY <2>1, <2>2
<1>5. ASSUME NEW c \in Calls, Prepare(c)
      PROVE  UNCHANGED Promise!promiseVars
  <2>1. /\ phase[c] = "preparing"
        /\ phase' = [phase EXCEPT ![c] = "submitting"]
        /\ phase'[c] = "submitting"
    BY <1>1, <1>5 DEF Prepare, TypeOK
  <2>2. StageOf(c)' = StageOf(c) /\ Decided(c) /\ Decided(c)'
    BY <2>1 DEF StageOf, Decided, Included
  <2>3. /\ op' = op /\ executed' = executed /\ changed' = changed
        /\ request' = request
        /\ built'[c].when = built[c].when /\ built'[c].seen = built[c].seen
        /\ \A d \in Calls : d # c => built'[d] = built[d]
    BY <1>1, <1>5 DEF Prepare, chainVars, TypeOK
  <2>. QED
    BY <2>1, <2>2, <2>3, StutterStep
<1>6. ASSUME NEW c \in Calls, Submit(c)
      PROVE  Promise!Next \/ UNCHANGED Promise!promiseVars
  <2>1. PICK o \in {"pooled", "rejected"} : phase' = [phase EXCEPT ![c] = o]
    BY <1>6 DEF Submit
  <2>2. phase[c] = "submitting" /\ phase'[c] = o
    BY <1>1, <1>6, <2>1 DEF Submit, TypeOK
  <2>3. /\ op' = op /\ executed' = executed /\ changed' = changed
        /\ request' = request /\ built' = built /\ Decided(c)
    BY <1>6, <2>2 DEF Submit, chainVars, Decided
  <2>4. CASE o = "pooled"
    <3>1. StageOf(c)' = StageOf(c) /\ Decided(c)'
      BY <2>2, <2>4 DEF StageOf, Decided, Included
    <3>. QED
      BY <2>1, <2>3, <3>1, StutterStep
  <2>5. CASE o = "rejected"
    <3>1. Promise!End(c, "dropped") /\ Stage'[c] # Stage[c]
      BY <2>1, <2>3, <2>5, EndStep
    <3>. QED
      BY <3>1 DEF Promise!Next, Promise!Drop
  <2>. QED
    BY <2>4, <2>5
<1>7. ASSUME NEW c \in Calls, Expire(c)
      PROVE  Promise!Next
  <2>1. /\ phase' = [phase EXCEPT ![c] = "expired"]
        /\ op' = op /\ executed' = executed /\ changed' = changed
        /\ request' = request /\ built' = built /\ Decided(c)
    BY <1>7 DEF Expire, chainVars, Decided
  <2>2. Promise!End(c, "dropped") /\ Stage'[c] # Stage[c]
    BY <2>1, EndStep
  <2>. QED
    BY <2>2 DEF Promise!Next, Promise!Drop
<1>8. ASSUME NEW c \in Calls, phase[c] = "pooled"
      PROVE  /\ Decided(c)
             /\ request[c].method \in {"approveAsMulti", "asMulti"}
             /\ request[c].method = "asMulti" => LastIsMissing(c)
  BY <1>8 DEF Inv, CallInv, Decided
<1>9. ASSUME NEW c \in Calls, IncludeOpen(c)
      PROVE  Promise!Next
  <2>1. phase[c] = "pooled" /\ Include(c, "approved") /\ changed' = height + 1
    BY <1>9 DEF IncludeOpen, Include
  <2>2. /\ op = NoOp /\ op.when = 0 /\ built[c].when = op.when
        /\ op'.when = height + 1 /\ op'.approvals = {request[c].by}
        /\ executed' = executed
    BY <1>9 DEF IncludeOpen, Opens, NoOp
  <2>3. FALSE = (request[c].method = "asMulti")
    BY <1>8, <2>1, <2>2 DEF LastIsMissing
  <2>4. op'.when \in Nat \ {0} /\ \A e \in executed : e.round # op'.when
    BY <1>1, <2>2 DEF EntryInv, TypeOK
  <2>5. Promise!Act(c, FALSE, "approved") /\ Stage'[c] # Stage[c] /\ View[c].by = request[c].by
    BY <2>1, <2>2, <2>3, ActStep
  <2>6. Promise!Open(c)
    BY <2>2, <2>4, <2>5 DEF Promise!Open
  <2>. QED
    BY <2>5, <2>6 DEF Promise!Next
<1>10. ASSUME NEW c \in Calls, IncludeApproval(c)
       PROVE  Promise!Next
  <2>1. phase[c] = "pooled" /\ Include(c, "approved") /\ changed' = height + 1
    BY <1>10 DEF IncludeApproval, Include
  <2>2. /\ op # NoOp /\ built[c].when = op.when /\ ~Executes(c)
        /\ request[c].by \notin op.approvals
        /\ Cardinality(op.approvals) < Threshold
    BY <1>10 DEF IncludeApproval, Records, Votes
  <2>3. op.when # 0
    BY <1>1, <2>2 DEF EntryInv
  <2>4. /\ op.approvals \in SUBSET Signatories
        /\ Cardinality(op.approvals) \in Nat /\ Threshold \in Nat
    BY <1>1, ApprovalsCount, ThresholdAssumption DEF TypeOK, Operations
  <2>5. request[c].method # "asMulti"
    <3>1. SUFFICES ASSUME request[c].method = "asMulti" PROVE FALSE
      OBVIOUS
    <3>2. Cardinality(op.approvals) >= Threshold - 1
      BY <1>8, <2>1, <2>2, <3>1 DEF LastIsMissing
    <3>. QED
      BY <2>2, <2>4, <3>1, <3>2 DEF Executes, Votes
  <2>10. FALSE = (request[c].method = "asMulti")
    BY <2>5
  <2>6. /\ op'.when = op.when /\ op'.approvals = op.approvals \cup {request[c].by}
        /\ executed' = executed
    BY <1>1, <1>10 DEF IncludeApproval, TypeOK, Operations
  <2>7. /\ Promise!Act(c, FALSE, "approved") /\ Stage'[c] # Stage[c]
        /\ View[c].by = request[c].by /\ View[c].current = (changed <= built[c].seen)
    BY <2>1, <2>2, <2>10, ActStep
  <2>8. changed <= built[c].seen => Cardinality(op.approvals) < Threshold - 1
    <3>1. SUFFICES ASSUME changed <= built[c].seen
                   PROVE  Cardinality(op.approvals) < Threshold - 1
      OBVIOUS
    <3>2. request[c].method = "approveAsMulti" /\ CallInv(c) /\ Decided(c)
      BY <1>8, <2>1, <2>5 DEF Inv
    <3>3. ~RefusesApprove(request[c].by, op)
      BY <3>1, <3>2 DEF CallInv, FreshInv, Refuses
    <3>. QED
      BY <2>2, <2>4, <3>3 DEF RefusesApprove, IsFinalApproval
  <2>9. Promise!Approve(c)
    BY <2>2, <2>3, <2>6, <2>7, <2>8, SameCardinality DEF Promise!Approve
  <2>. QED
    BY <2>7, <2>9 DEF Promise!Next
<1>11. ASSUME NEW c \in Calls, IncludeExecution(c)
       PROVE  Promise!Next
  <2> DEFINE counted == IF Cardinality(op.approvals) < Threshold
                        THEN op.approvals \cup {request[c].by} ELSE op.approvals
  <2>1. phase[c] = "pooled" /\ Include(c, "executed") /\ changed' = height + 1
    BY <1>11 DEF IncludeExecution, Include
  <2>2. /\ op # NoOp /\ built[c].when = op.when /\ request[c].method = "asMulti"
        /\ op'.when = 0 /\ op'.approvals = {}
    BY <1>11 DEF IncludeExecution, Executes, NoOp
  <2>3. op.when # 0
    BY <1>1, <2>2 DEF EntryInv
  <2>4. counted = IF Votes(request[c].by)
                  THEN op.approvals \cup {request[c].by} ELSE op.approvals
    BY DEF Votes
  <2>5. Cardinality(counted) >= Threshold
    BY <1>11, <2>4, ExecutionCount
  <2>6. executed' = executed \cup {[round |-> op.when, by |-> counted]}
    BY <1>11, <2>4 DEF IncludeExecution
  <2>7. Promise!Act(c, TRUE, "executed") /\ Stage'[c] # Stage[c] /\ View[c].by = request[c].by
    <3>1. TRUE = (request[c].method = "asMulti")
      BY <2>2
    <3>. QED
      BY <2>1, <2>2, <3>1, ActStep
  <2>8. Promise!Execute(c)
    BY <2>2, <2>3, <2>5, <2>6, <2>7, SameCardinality DEF Promise!Execute
  <2>. QED
    BY <2>7, <2>8 DEF Promise!Next
<1>12. ASSUME NEW c \in Calls, IncludeFailure(c)
       PROVE  Promise!Next
  <2>1. /\ phase[c] = "pooled" /\ phase' = [phase EXCEPT ![c] = "failed"]
        /\ op' = op /\ executed' = executed /\ changed' = changed
        /\ request' = request /\ built' = built
        /\ ~Opens(c) /\ ~Records(c) /\ ~Executes(c)
    BY <1>12 DEF IncludeFailure, Include
  <2>2. Promise!End(c, "failed") /\ Stage'[c] # Stage[c] /\ Decided(c)
    BY <1>8, <2>1, EndStep
  <2>3. ~(changed <= built[c].seen)
    BY <2>1, <2>2, FreshOutcome
  <2>4. View[c].current = (changed <= built[c].seen)
    BY <2>2 DEF View, ViewOf
  <2>5. Promise!Fail(c)
    BY <2>2, <2>3, <2>4 DEF Promise!Fail
  <2>. QED
    BY <2>2, <2>5 DEF Promise!Next
<1>. QED
  BY <1>2, <1>3, <1>4, <1>5, <1>6, <1>7, <1>9, <1>10, <1>11, <1>12 DEF Next

(* Every call through the library is an optimistic transaction on the      *)
(* operation it read.                                                      *)
THEOREM PromiseKept == Spec => KeepsPromise
<1>1. Init => Promise!Init
  BY DEF Init, NoOp, Promise!Init, Promise!NoView, Stage, View, StageOf, ViewOf,
     Decided, Included
<1>. QED
  BY <1>1, PromiseStep, InvCorrect, PTL DEF Spec, KeepsPromise, Promise!Spec

-----------------------------------------------------------------------------
(* The lists the factory of MultisigAccount computes.                      *)

(* Elements that are ordered by what is not after them can be numbered in  *)
(* that order.                                                             *)
LEMMA Ranking ==
    ASSUME NEW S, IsFiniteSet(S),
           NEW upTo \in [S -> SUBSET S],
           \A x \in S : x \in upTo[x],
           \A x, y \in S : x # y => \/ (upTo[x] \subseteq upTo[y] /\ y \notin upTo[x])
                                    \/ (upTo[y] \subseteq upTo[x] /\ x \notin upTo[y])
    PROVE  /\ Cardinality(S) \in Nat
           /\ \A k \in 1..Cardinality(S) : \E x \in S : Cardinality(upTo[x]) = k
           /\ \A x \in S : Cardinality(upTo[x]) \in 1..Cardinality(S)
           /\ \A x, y \in S : Cardinality(upTo[x]) < Cardinality(upTo[y])
                                => upTo[x] \subseteq upTo[y] /\ y \notin upTo[x]
           /\ \A x, y \in S : Cardinality(upTo[x]) = Cardinality(upTo[y]) => x = y
<1> DEFINE rank == [x \in S |-> Cardinality(upTo[x])]
           c == Cardinality(S)
<1>1. c \in Nat
  BY FS_CardinalityType
<1>2. \A x \in S : upTo[x] \in SUBSET S /\ IsFiniteSet(upTo[x])
  BY FS_Subset
<1>3. \A x \in S : rank[x] \in 1..c
  <2> TAKE x \in S
  <2>1. Cardinality(upTo[x]) \in Nat /\ Cardinality(upTo[x]) <= c
    BY <1>2, FS_Subset, FS_CardinalityType
  <2>2. Cardinality(upTo[x]) # 0
    BY <1>2, FS_EmptySet
  <2>. QED
    BY <1>1, <2>1, <2>2
<1>4. ASSUME NEW x \in S, NEW y \in S, upTo[x] \subseteq upTo[y], y \notin upTo[x]
      PROVE  rank[x] < rank[y]
  <2>1. Cardinality(upTo[x]) <= Cardinality(upTo[y])
    BY <1>2, <1>4, FS_Subset
  <2>2. Cardinality(upTo[x]) # Cardinality(upTo[y])
    BY <1>2, <1>4, FS_Subset
  <2>3. rank[x] = Cardinality(upTo[x]) /\ rank[y] = Cardinality(upTo[y])
    OBVIOUS
  <2>. QED
    BY <1>1, <1>3, <2>1, <2>2, <2>3
<1>5. rank \in Injection(S, 1..c)
  BY <1>1, <1>3, <1>4 DEF Injection, IsInjective
<1>6. IsFiniteSet(1..c) /\ Cardinality(1..c) = c
  BY <1>1, FS_Interval
<1>7. rank \in Surjection(S, 1..c)
  BY <1>5, <1>6, FS_Injection
<1>8. \A k \in 1..c : \E x \in S : rank[x] = k
  BY <1>7 DEF Surjection
<1>9. \A x, y \in S : rank[x] < rank[y] => upTo[x] \subseteq upTo[y] /\ y \notin upTo[x]
  BY <1>3, <1>4
<1>10. \A x, y \in S : rank[x] = rank[y] => x = y
  BY <1>5 DEF Injection, IsInjective
<1>11. \A x \in S : rank[x] = Cardinality(upTo[x])
  OBVIOUS
<1> HIDE DEF rank
<1>. QED
  BY <1>1, <1>3, <1>8, <1>9, <1>10, <1>11

(* MembersAt takes the members at the places one by one, in ascending      *)
(* order.                                                                  *)
LEMMA MembersAtPlaces ==
    ASSUME NEW s, NEW n \in Nat, NEW places \in SUBSET (1..n)
    PROVE  /\ Cardinality(places) \in Nat
           /\ \E place \in Bijection(1..Cardinality(places), places) :
                  /\ \A k, l \in 1..Cardinality(places) : k < l => place[k] < place[l]
                  /\ MembersAt(s, places) =
                         [k \in 1..Cardinality(places) |-> s[place[k]]]
<1> DEFINE upTo == [i \in places |-> {j \in places : j <= i}]
           c == Cardinality(places)
           place == [k \in 1..c |-> CHOOSE i \in places : Cardinality({j \in places : j <= i}) = k]
<1>1. IsFiniteSet(places)
  <2>1. IsFiniteSet(1..n)
    BY FS_Interval
  <2>. QED
    BY <2>1, FS_Subset
<1>2. upTo \in [places -> SUBSET places]
  OBVIOUS
<1>3. \A i \in places : i \in Nat
  OBVIOUS
<1>4. \A i \in places : upTo[i] = {j \in places : j <= i}
  OBVIOUS
<1> HIDE DEF upTo
<1>5. \A i, j \in places : j \in upTo[i] <=> j <= i
  BY <1>4
<1>6. \A i \in places : i \in upTo[i]
  BY <1>3, <1>5
<1>7. ASSUME NEW i \in places, NEW j \in places, i <= j
      PROVE  upTo[i] \subseteq upTo[j]
  <2>1. \A k \in places : k \in upTo[i] => k \in upTo[j]
    BY <1>3, <1>7, <1>5
  <2>. QED
    BY <1>2, <2>1
<1>8. \A i, j \in places : i < j => j \notin upTo[i]
  <2> TAKE i, j \in places
  <2>1. i \in Nat /\ j \in Nat
    BY <1>3
  <2>2. i < j => ~(j <= i)
    BY <2>1
  <2>. QED
    BY <1>5, <2>2
<1>9. \A i, j \in places : i # j => \/ (upTo[i] \subseteq upTo[j] /\ j \notin upTo[i])
                                    \/ (upTo[j] \subseteq upTo[i] /\ i \notin upTo[j])
  <2> TAKE i, j \in places
  <2>1. i = j \/ i < j \/ j < i
    BY <1>3
  <2>2. \A k, l \in places : k < l => k <= l
    BY <1>3
  <2>. QED
    BY <1>7, <1>8, <2>1, <2>2
<1>10. /\ c \in Nat
       /\ \A k \in 1..c : \E i \in places : Cardinality(upTo[i]) = k
       /\ \A i \in places : Cardinality(upTo[i]) \in 1..c
       /\ \A i, j \in places : Cardinality(upTo[i]) < Cardinality(upTo[j])
                                 => upTo[i] \subseteq upTo[j] /\ j \notin upTo[i]
       /\ \A i, j \in places : Cardinality(upTo[i]) = Cardinality(upTo[j]) => i = j
  BY <1>1, <1>2, <1>6, <1>9, Ranking
<1>11. \A k \in 1..c : \E i \in places : Cardinality({j \in places : j <= i}) = k
  <2>1. \A i \in places : Cardinality({j \in places : j <= i}) = Cardinality(upTo[i])
    BY <1>4
  <2>. QED
    BY <1>10, <2>1
<1>12. \A k \in 1..c : place[k] \in places /\ Cardinality({j \in places : j <= place[k]}) = k
  BY <1>11
<1>13. MembersAt(s, places) = [k \in 1..c |-> s[place[k]]]
  BY DEF MembersAt
<1>14. place \in [1..c -> places]
  BY <1>12
<1> HIDE DEF place, c
<1>15. \A k \in 1..c : place[k] \in places /\ Cardinality(upTo[place[k]]) = k
  BY <1>4, <1>12
<1>16. \A k, l \in 1..c : place[k] = place[l] => k = l
  BY <1>15
<1>17. \A i \in places : \E k \in 1..c : place[k] = i
  BY <1>10, <1>15
<1>18. place \in Bijection(1..c, places)
  BY <1>14, <1>16, <1>17, Fun_IsBij
<1>19. ASSUME NEW k \in 1..c, NEW l \in 1..c, k < l
       PROVE  place[k] < place[l]
  <2>1. upTo[place[k]] \subseteq upTo[place[l]] /\ place[l] \notin upTo[place[k]]
    BY <1>10, <1>15, <1>19
  <2>2. place[k] \in places /\ place[l] \in places
    BY <1>15
  <2>3. place[k] \in Nat /\ place[l] \in Nat
    BY <1>3, <2>2
  <2>4. ~(place[l] <= place[k])
    BY <1>5, <2>1, <2>2
  <2>. QED
    BY <2>3, <2>4
<1>20. c \in Nat
  BY <1>10
<1>. QED
  BY <1>13, <1>18, <1>19, <1>20 DEF c

(* Equal members may stand in any order.                                   *)
Ascending(s) == \A i, j \in DOMAIN s : i <= j => s[i] <= s[j]

(* s has the members of t, each as often.                                  *)
Rearranged(s, t) ==
    \E order \in Bijection(DOMAIN s, DOMAIN t) : \A i \in DOMAIN s : s[i] = t[order[i]]

(* Every list of keys can be put in ascending order, and is by             *)
(* SortedPubkeys.                                                          *)
LEMMA SortedPubkeysSorts ==
    ASSUME NEW pubkeys \in Seq(Nat)
    PROVE  /\ SortedPubkeys(pubkeys) \in [DOMAIN pubkeys -> Nat]
           /\ Ascending(SortedPubkeys(pubkeys))
           /\ Rearranged(SortedPubkeys(pubkeys), pubkeys)
<1> DEFINE places == DOMAIN pubkeys
           upTo == [i \in places |-> {j \in places : \/ pubkeys[j] < pubkeys[i]
                                                    \/ /\ pubkeys[j] = pubkeys[i]
                                                       /\ j <= i}]
           c == Cardinality(places)
<1>1. places = 1..Len(pubkeys) /\ Len(pubkeys) \in Nat
  OBVIOUS
<1>2. IsFiniteSet(places) /\ c = Len(pubkeys) /\ places \in SUBSET Nat
  BY <1>1, FS_Interval
<1>3. \A i \in places : i \in Nat /\ pubkeys[i] \in Nat
  BY <1>2
<1>4. upTo \in [places -> SUBSET places]
  OBVIOUS
<1>5. \A i, j \in places : j \in upTo[i] <=> \/ pubkeys[j] < pubkeys[i]
                                             \/ (pubkeys[j] = pubkeys[i] /\ j <= i)
  OBVIOUS
<1> HIDE DEF upTo
<1>6. \A i \in places : i \in upTo[i]
  BY <1>3, <1>5
<1>7. \A i, j \in places : i # j => \/ (upTo[i] \subseteq upTo[j] /\ j \notin upTo[i])
                                    \/ (upTo[j] \subseteq upTo[i] /\ i \notin upTo[j])
  <2>1. ASSUME NEW i \in places, NEW j \in places, i # j, i \in upTo[j]
        PROVE  upTo[i] \subseteq upTo[j] /\ j \notin upTo[i]
    <3>1. \A k \in places : k \in upTo[i] => k \in upTo[j]
      BY <1>3, <1>5, <2>1
    <3>2. j \notin upTo[i]
      BY <1>3, <1>5, <2>1
    <3>. QED
      BY <1>4, <3>1, <3>2
  <2>2. \A i, j \in places : i \in upTo[j] \/ j \in upTo[i]
    BY <1>3, <1>5
  <2>. QED
    BY <2>1, <2>2
<1>8. /\ \A k \in 1..c : \E i \in places : Cardinality(upTo[i]) = k
      /\ \A i \in places : Cardinality(upTo[i]) \in 1..c
      /\ \A i, j \in places : Cardinality(upTo[i]) < Cardinality(upTo[j])
                                => upTo[i] \subseteq upTo[j] /\ j \notin upTo[i]
      /\ \A i, j \in places : Cardinality(upTo[i]) = Cardinality(upTo[j]) => i = j
  BY <1>2, <1>4, <1>6, <1>7, Ranking
<1> DEFINE best == [k \in places |-> CHOOSE i \in places : Cardinality(upTo[i]) = k]
<1>9. places = 1..c
  BY <1>1, <1>2
<1>10. \A k \in places : best[k] \in places /\ Cardinality(upTo[best[k]]) = k
  BY <1>8, <1>9
<1>11. best \in [places -> places]
  BY <1>10
<1> HIDE DEF best, c, places
<1>12. best \in Bijection(places, places)
  <2>1. \A k, l \in places : best[k] = best[l] => k = l
    BY <1>10
  <2>2. ASSUME NEW i \in places
        PROVE  \E k \in places : best[k] = i
    <3>1. Cardinality(upTo[i]) \in places
      BY <1>8, <1>9
    <3>2. best[Cardinality(upTo[i])] = i
      BY <1>8, <1>10, <3>1
    <3>. QED
      BY <3>1, <3>2
  <2>. QED
    BY <1>11, <2>1, <2>2, Fun_IsBij
<1>13. \A i, j \in places : i <= j => pubkeys[best[i]] <= pubkeys[best[j]]
  <2>1. SUFFICES ASSUME NEW i \in places, NEW j \in places, i < j
                 PROVE  pubkeys[best[i]] <= pubkeys[best[j]]
    <3>1. \A i \in places : pubkeys[best[i]] \in Nat
      BY <1>3, <1>11
    <3>2. \A i, j \in places : i <= j => i < j \/ i = j
      BY <1>3
    <3>3. \A i \in places : pubkeys[best[i]] <= pubkeys[best[i]]
      BY <3>1
    <3>. QED
      BY <3>2, <3>3
  <2>2. best[j] \notin upTo[best[i]]
    BY <1>8, <1>10, <2>1
  <2>. QED
    BY <1>3, <1>5, <1>10, <2>2
<1> DEFINE order == CHOOSE o \in Bijection(places, places) :
                        \A i, j \in places : i <= j => pubkeys[o[i]] <= pubkeys[o[j]]
<1>14. /\ order \in Bijection(places, places)
       /\ \A i, j \in places : i <= j => pubkeys[order[i]] <= pubkeys[order[j]]
  BY <1>12, <1>13
<1>15. SortedPubkeys(pubkeys) = [i \in places |-> pubkeys[order[i]]]
  BY DEF SortedPubkeys, places
<1> HIDE DEF order
<1>16. order \in [places -> places]
  BY <1>14, Fun_BijectionProperties
<1>17. DOMAIN SortedPubkeys(pubkeys) = places
       /\ \A i \in places : SortedPubkeys(pubkeys)[i] = pubkeys[order[i]]
  BY <1>15
<1>18. SortedPubkeys(pubkeys) \in [places -> Nat]
  BY <1>3, <1>15, <1>16
<1>19. Ascending(SortedPubkeys(pubkeys))
  BY <1>14, <1>17 DEF Ascending
<1>20. Rearranged(SortedPubkeys(pubkeys), pubkeys)
  <2>1. DOMAIN pubkeys = places
    BY DEF places
  <2>. QED
    BY <1>14, <1>17, <2>1 DEF Rearranged
<1>. QED
  BY <1>18, <1>19, <1>20 DEF places

-----------------------------------------------------------------------------
LEMMA BijectionIs ==
    ASSUME NEW S, NEW T, NEW f \in Bijection(S, T)
    PROVE  /\ f \in [S -> T]
           /\ \A x, y \in S : f[x] = f[y] => x = y
           /\ \A y \in T : \E x \in S : f[x] = y
BY DEF Bijection, Injection, Surjection, IsInjective

LEMMA PlacesBijection ==
    ASSUME NEW c, NEW places, NEW place \in Bijection(1..c, places)
    PROVE  /\ place \in [1..c -> places]
           /\ \A k, l \in 1..c : place[k] = place[l] => k = l
           /\ \A i \in places : \E k \in 1..c : place[k] = i
<1> DEFINE N == 1..c
<1>1. place \in Bijection(N, places)
  OBVIOUS
<1> HIDE DEF N
<1>2. /\ place \in [N -> places]
      /\ \A k, l \in N : place[k] = place[l] => k = l
      /\ \A i \in places : \E k \in N : place[k] = i
  BY <1>1, BijectionIs
<1>. QED
  BY <1>2 DEF N

LEMMA Interval ==
    ASSUME NEW n \in Nat
    PROVE  IsFiniteSet(1..n) /\ Cardinality(1..n) = n
<1>1. IsFiniteSet(1..n) /\ Cardinality(1..n) = IF 1 > n THEN 0 ELSE n - 1 + 1
  BY FS_Interval
<1>. QED
  BY <1>1

LEMMA RearrangedBack ==
    ASSUME NEW s, NEW t, Rearranged(s, t)
    PROVE  Rearranged(t, s)
<1>1. PICK order \in Bijection(DOMAIN s, DOMAIN t) : \A i \in DOMAIN s : s[i] = t[order[i]]
  BY DEF Rearranged
<1> DEFINE back == Inverse(order, DOMAIN s, DOMAIN t)
<1>2. /\ back \in Bijection(DOMAIN t, DOMAIN s)
      /\ \A i \in DOMAIN s : back[order[i]] = i
  BY Fun_BijInverse
<1> HIDE DEF back
<1>3. \A j \in DOMAIN t : \E i \in DOMAIN s : order[i] = j
  BY BijectionIs
<1>4. \A j \in DOMAIN t : t[j] = s[back[j]]
  BY <1>1, <1>2, <1>3
<1>. QED
  BY <1>2, <1>4 DEF Rearranged

LEMMA RearrangedTwice ==
    ASSUME NEW s, NEW t, NEW u, Rearranged(s, t), Rearranged(t, u)
    PROVE  Rearranged(s, u)
<1>1. PICK p \in Bijection(DOMAIN s, DOMAIN t) : \A i \in DOMAIN s : s[i] = t[p[i]]
  BY DEF Rearranged
<1>2. PICK q \in Bijection(DOMAIN t, DOMAIN u) : \A i \in DOMAIN t : t[i] = u[q[i]]
  BY DEF Rearranged
<1> DEFINE r == [i \in DOMAIN s |-> q[p[i]]]
<1>3. r \in Bijection(DOMAIN s, DOMAIN u)
  BY Fun_BijTransitive
<1>4. p \in [DOMAIN s -> DOMAIN t]
  BY Fun_BijectionProperties
<1>5. \A i \in DOMAIN s : s[i] = u[r[i]]
  BY <1>1, <1>2, <1>4
<1> HIDE DEF r
<1>. QED
  BY <1>3, <1>5 DEF Rearranged

(* Rearranged lists are of one length and have the same members.           *)
LEMMA RearrangedMembers ==
    ASSUME NEW S, NEW s \in Seq(S), NEW t \in Seq(S), Rearranged(s, t)
    PROVE  Len(s) = Len(t) /\ ToSet(s) = ToSet(t)
<1>1. PICK order \in Bijection(DOMAIN s, DOMAIN t) : \A i \in DOMAIN s : s[i] = t[order[i]]
  BY DEF Rearranged
<1>2. /\ DOMAIN s = 1..Len(s) /\ Len(s) \in Nat
      /\ DOMAIN t = 1..Len(t) /\ Len(t) \in Nat
  OBVIOUS
<1>3. /\ IsFiniteSet(DOMAIN s) /\ Cardinality(DOMAIN s) = Len(s)
      /\ Cardinality(DOMAIN t) = Len(t)
  BY <1>2, Interval
<1>4. Len(s) = Len(t)
  BY <1>1, <1>3, FS_Bijection, Fun_ExistsBij
<1>5. /\ order \in [DOMAIN s -> DOMAIN t]
      /\ \A j \in DOMAIN t : \E i \in DOMAIN s : order[i] = j
  BY BijectionIs
<1>6. ToSet(s) = ToSet(t)
  BY <1>1, <1>5 DEF ToSet
<1>. QED
  BY <1>4, <1>6

(* Of two ascending lists of the same keys neither is below the other      *)
(* anywhere: where it were, its keys up to there would all be among the    *)
(* fewer that the other has before.                                        *)
LEMMA AscendingNotBelow ==
    ASSUME NEW n \in Nat, NEW s \in [1..n -> Nat], NEW t \in [1..n -> Nat],
           Ascending(s), Ascending(t), Rearranged(s, t),
           NEW k \in 1..n
    PROVE  s[k] >= t[k]
<1>1. PICK order \in Bijection(1..n, 1..n) : \A i \in 1..n : s[i] = t[order[i]]
  BY DEF Rearranged
<1>2. /\ order \in [1..n -> 1..n]
      /\ \A i, j \in 1..n : order[i] = order[j] => i = j
  BY PlacesBijection
<1> SUFFICES ASSUME s[k] < t[k] PROVE FALSE
  OBVIOUS
<1>3. ASSUME NEW i \in 1..k
      PROVE  order[i] \in 1..(k - 1)
  <2>1. i \in 1..n /\ i <= k
    OBVIOUS
  <2>2. i \in 1..n /\ i <= k /\ order[i] \in 1..n
    BY <1>2, <2>1
  <2>3. s[i] <= s[k]
    BY <2>2 DEF Ascending
  <2>4. t[order[i]] < t[k]
    BY <1>1, <2>2, <2>3
  <2>5. k <= order[i] => t[k] <= t[order[i]]
    BY <2>2 DEF Ascending
  <2>. QED
    BY <2>2, <2>4, <2>5
<1> DEFINE first == [i \in 1..k |-> order[i]]
<1>4. first \in [1..k -> 1..(k - 1)]
  BY <1>3
<1>5. /\ IsFiniteSet(1..k) /\ Cardinality(1..k) = k
      /\ IsFiniteSet(1..(k - 1)) /\ Cardinality(1..(k - 1)) = k - 1
  <2>1. k \in Nat /\ k - 1 \in Nat
    OBVIOUS
  <2>. QED
    BY <2>1, Interval
<1>6. \A i \in 1..k : first[i] = order[i] /\ i \in 1..n
  OBVIOUS
<1> HIDE DEF first
<1>7. \E i, j \in 1..k : i # j /\ first[i] = first[j]
  <2>1. k - 1 < k
    OBVIOUS
  <2>. QED
    BY <1>4, <1>5, <2>1, FS_PigeonHole
<1>. QED
  BY <1>2, <1>6, <1>7

(* Whatever order the same keys come in, sorting makes the same list.      *)
LEMMA SortedOnce ==
    ASSUME NEW s \in Seq(Nat), NEW t \in Seq(Nat), Rearranged(s, t)
    PROVE  SortedPubkeys(s) = SortedPubkeys(t)
<1> DEFINE a == SortedPubkeys(s)
           b == SortedPubkeys(t)
           n == Len(s)
<1>1. n \in Nat /\ DOMAIN s = 1..n /\ DOMAIN t = 1..n
  BY RearrangedMembers
<1>2. a \in [1..n -> Nat] /\ Ascending(a) /\ Rearranged(a, s)
  BY <1>1, SortedPubkeysSorts
<1>3. b \in [1..n -> Nat] /\ Ascending(b) /\ Rearranged(b, t)
  BY <1>1, SortedPubkeysSorts
<1> HIDE DEF a, b, n
<1>4. Rearranged(a, b)
  BY <1>2, <1>3, RearrangedBack, RearrangedTwice
<1>5. \A k \in 1..n : a[k] >= b[k]
  BY <1>1, <1>2, <1>3, <1>4, AscendingNotBelow
<1>6. \A k \in 1..n : b[k] >= a[k]
  BY <1>1, <1>2, <1>3, <1>4, RearrangedBack, AscendingNotBelow
<1>7. \A k \in 1..n : a[k] = b[k]
  BY <1>1, <1>2, <1>3, <1>5, <1>6
<1>8. a = b
  <2>1. a = [i \in 1..n |-> a[i]] /\ b = [i \in 1..n |-> b[i]]
    BY <1>2, <1>3
  <2>. QED
    BY <1>7, <2>1
<1>. QED
  BY <1>8 DEF a, b

-----------------------------------------------------------------------------
(* No member occurs twice.                                                 *)
OneToOne(s) == \A i, j \in DOMAIN s : s[i] = s[j] => i = j

(* Two lists without duplicates and with the same members are              *)
(* rearrangements of each other.                                           *)
LEMMA SameMembers ==
    ASSUME NEW s, NEW t, OneToOne(s), OneToOne(t), ToSet(s) = ToSet(t)
    PROVE  Rearranged(s, t)
<1> DEFINE S == DOMAIN s
           T == DOMAIN t
           order == [i \in S |-> CHOOSE j \in T : t[j] = s[i]]
<1>1. /\ \A i \in S : \E j \in T : t[j] = s[i]
      /\ \A j \in T : \E i \in S : t[j] = s[i]
  BY DEF ToSet
<1>2. \A i \in S : order[i] \in T /\ t[order[i]] = s[i]
  BY <1>1
<1>3. order \in [S -> T]
  BY <1>2
<1> HIDE DEF order
<1>4. \A i, j \in S : order[i] = order[j] => i = j
  BY <1>2 DEF OneToOne
<1>5. \A j \in T : \E i \in S : order[i] = j
  BY <1>1, <1>2 DEF OneToOne
<1>6. order \in Bijection(S, T)
  BY <1>3, <1>4, <1>5, Fun_IsBij
<1>. QED
  BY <1>2, <1>6 DEF Rearranged

(* A set of places of a list has a first.                                  *)
LEMMA FirstPlace ==
    ASSUME NEW n \in Nat, NEW places \in SUBSET (1..n), places # {}
    PROVE  \E i \in places : \A j \in places : i <= j
<1> DEFINE c == Cardinality(places)
<1>1. c \in Nat
  BY MembersAtPlaces
<1>2. PICK place \in Bijection(1..c, places) :
          \A k, l \in 1..c : k < l => place[k] < place[l]
  BY MembersAtPlaces
<1> HIDE DEF c
<1>3. /\ place \in [1..c -> places]
      /\ \A i \in places : \E k \in 1..c : place[k] = i
  BY BijectionIs
<1>4. 1 \in 1..c
  <2>1. PICK k \in 1..c : TRUE
    BY <1>3
  <2>. QED
    BY <1>1, <2>1
<1>5. place[1] \in places
  BY <1>3, <1>4
<1>6. ASSUME NEW j \in places
      PROVE  place[1] <= j
  <2>1. PICK k \in 1..c : place[k] = j
    BY <1>3
  <2>2. k = 1 \/ 1 < k
    BY <1>1
  <2>3. 1 < k => place[1] < j
    BY <1>2, <1>4, <2>1
  <2>4. \A i \in places : i \in Nat
    OBVIOUS
  <2>5. place[1] \in Nat /\ j \in Nat
    BY <1>5, <1>6, <2>4
  <2>. QED
    BY <2>1, <2>2, <2>3, <2>5
<1>. QED
  BY <1>5, <1>6

(* toSet().toList() keeps every address once.                              *)
LEMMA UniqueAddressesKeepsOne ==
    ASSUME NEW S, NEW addresses \in Seq(S)
    PROVE  /\ UniqueAddresses(addresses) \in Seq(S)
           /\ ToSet(UniqueAddresses(addresses)) = ToSet(addresses)
           /\ OneToOne(UniqueAddresses(addresses))
<1> DEFINE n == Len(addresses)
           places == {i \in DOMAIN addresses :
                         \A j \in 1..(i - 1) : addresses[j] # addresses[i]}
           unique == UniqueAddresses(addresses)
           c == Cardinality(places)
<1>1. n \in Nat /\ DOMAIN addresses = 1..n /\ places \in SUBSET (1..n)
  OBVIOUS
<1>2. \A i \in places : addresses[i] \in S
  BY <1>1
<1>3. unique = MembersAt(addresses, places)
  BY DEF UniqueAddresses
<1>4. \A i, j \in places : addresses[i] = addresses[j] => i = j
  <2>1. ASSUME NEW i \in places, NEW j \in places, i < j
        PROVE  addresses[i] # addresses[j]
    <3>1. i \in 1..(j - 1)
      BY <1>1, <2>1
    <3>. QED
      BY <3>1
  <2>2. \A i, j \in places : i < j \/ j < i \/ i = j
    BY <1>1
  <2>. QED
    BY <2>1, <2>2
<1>5. ASSUME NEW i \in 1..n
      PROVE  \E j \in places : addresses[j] = addresses[i]
  <2> DEFINE same == {j \in 1..n : addresses[j] = addresses[i]}
  <2>1. same \in SUBSET (1..n) /\ same # {}
    OBVIOUS
  <2>2. PICK j \in same : \A k \in same : j <= k
    BY <1>1, <2>1, FirstPlace
  <2>3. ASSUME NEW k \in 1..(j - 1), addresses[k] = addresses[j]
        PROVE  FALSE
    <3>1. k \in 1..n /\ k < j
      BY <1>1, <2>1
    <3>2. k \in same
      BY <2>3, <3>1
    <3>3. j <= k
      BY <2>2, <3>2
    <3>. QED
      BY <1>1, <2>1, <3>1, <3>3
  <2>4. j \in places
    BY <1>1, <2>3
  <2>. QED
    BY <2>4
<1> HIDE DEF places, unique, n
<1>6. c \in Nat
  BY <1>1, MembersAtPlaces
<1>7. PICK place \in Bijection(1..c, places) :
          MembersAt(addresses, places) = [k \in 1..c |-> addresses[place[k]]]
  <2>1. n \in Nat /\ places \in SUBSET (1..n)
    BY <1>1
  <2>. QED
    BY <2>1, MembersAtPlaces
<1> HIDE DEF c
<1>8. /\ place \in [1..c -> places]
      /\ \A i \in places : \E k \in 1..c : place[k] = i
      /\ \A k, l \in 1..c : place[k] = place[l] => k = l
  BY PlacesBijection
<1>9. unique = [k \in 1..c |-> addresses[place[k]]]
  BY <1>3, <1>7
<1>10. DOMAIN unique = 1..c /\ \A k \in 1..c : unique[k] = addresses[place[k]]
  BY <1>9
<1>11. \A k \in 1..c : unique[k] \in S
  BY <1>2, <1>8, <1>10
<1>12. unique \in Seq(S)
  BY <1>6, <1>9, <1>11
<1>13. OneToOne(unique)
  BY <1>4, <1>8, <1>10 DEF OneToOne
<1>14. ToSet(unique) = ToSet(addresses)
  <2>1. \A k \in 1..c : \E i \in 1..n : addresses[i] = unique[k]
    BY <1>1, <1>8, <1>10
  <2>2. \A i \in 1..n : \E k \in 1..c : addresses[i] = unique[k]
    BY <1>5, <1>8, <1>10
  <2>3. /\ ToSet(unique) = {unique[k] : k \in 1..c}
        /\ ToSet(addresses) = {addresses[i] : i \in 1..n}
    BY <1>1, <1>10 DEF ToSet
  <2>. QED
    BY <2>1, <2>2, <2>3
<1>. QED
  BY <1>12, <1>13, <1>14 DEF unique

-----------------------------------------------------------------------------
(* Addresses and the strings that are none.                                *)
Texts == Addresses \cup {Garbage}

(* What the factory makes of the addresses it accepts.                     *)
LEMMA AcceptedMakes ==
    ASSUME NEW addresses \in Seq(Texts), NEW threshold \in Nat,
           MultisigAccount(addresses, threshold).made
    PROVE  LET unique  == UniqueAddresses(addresses)
               pubkeys == PubkeysOf(unique)
               made    == MultisigAccount(addresses, threshold)
           IN  /\ Accepts(unique, threshold)
               /\ unique \in Seq(Addresses)
               /\ pubkeys \in Seq(Nat)
               /\ DOMAIN pubkeys = DOMAIN unique
               /\ \A i \in DOMAIN unique : pubkeys[i] = unique[i].key
               /\ made.threshold = threshold
               /\ made.publicKeys = SortedPubkeys(pubkeys)
               /\ made.multisigPubkey = Derive(SortedPubkeys(pubkeys), threshold)
<1> DEFINE unique  == UniqueAddresses(addresses)
           pubkeys == PubkeysOf(unique)
           made    == MultisigAccount(addresses, threshold)
<1>1. /\ unique \in Seq(Texts)
      /\ ToSet(unique) = ToSet(addresses)
      /\ OneToOne(unique)
  BY UniqueAddressesKeepsOne
<1>2. made = IF Accepts(unique, threshold)
             THEN [made |-> TRUE, threshold |-> threshold,
                   publicKeys |-> SortedPubkeys(pubkeys),
                   multisigPubkey |-> Derive(SortedPubkeys(pubkeys), threshold)]
             ELSE Refused
  BY DEF MultisigAccount
<1>3. pubkeys = [i \in DOMAIN unique |-> unique[i].key]
  BY DEF PubkeysOf
<1>4. made.made
  OBVIOUS
<1> HIDE DEF unique, pubkeys, made
<1>5. Accepts(unique, threshold)
  BY <1>2, <1>4 DEF Refused
<1>6. /\ made.threshold = threshold
      /\ made.publicKeys = SortedPubkeys(pubkeys)
      /\ made.multisigPubkey = Derive(SortedPubkeys(pubkeys), threshold)
  BY <1>2, <1>5
<1>7. DOMAIN unique = 1..Len(unique) /\ Len(unique) \in Nat
  BY <1>1
<1>8. \A i \in DOMAIN unique : unique[i] \in Addresses
  <2>1. \A i \in DOMAIN unique : unique[i] \in Texts
    BY <1>1
  <2>2. Garbage \notin ToSet(unique)
    BY <1>5 DEF Accepts
  <2>3. \A i \in DOMAIN unique : unique[i] # Garbage
    BY <2>2 DEF ToSet
  <2>. QED
    BY <2>1, <2>3 DEF Texts
<1>9. unique \in Seq(Addresses)
  BY <1>1, <1>7, <1>8
<1>10. pubkeys \in Seq(Nat)
  BY <1>3, <1>7, <1>8, AddressesAssumption
<1>. QED
  BY <1>3, <1>5, <1>6, <1>9, <1>10 DEF unique, pubkeys, made

(* The lists of two wallets that name the same addresses make one account. *)
LEMMA SameAddressesSameAccount ==
    ASSUME NEW a \in Seq(Texts), NEW b \in Seq(Texts), NEW threshold \in Nat,
           ToSet(a) = ToSet(b), MultisigAccount(a, threshold).made
    PROVE  MultisigAccount(a, threshold) = MultisigAccount(b, threshold)
<1> DEFINE u == UniqueAddresses(a)
           v == UniqueAddresses(b)
           p == PubkeysOf(u)
           q == PubkeysOf(v)
<1>1. /\ Accepts(u, threshold)
      /\ u \in Seq(Addresses) /\ p \in Seq(Nat) /\ DOMAIN p = DOMAIN u
      /\ \A i \in DOMAIN u : p[i] = u[i].key
  BY AcceptedMakes
<1>2. u \in Seq(Texts) /\ ToSet(u) = ToSet(a) /\ OneToOne(u)
  BY UniqueAddressesKeepsOne
<1>3. v \in Seq(Texts) /\ ToSet(v) = ToSet(b) /\ OneToOne(v)
  BY UniqueAddressesKeepsOne
<1>4. q = [i \in DOMAIN v |-> v[i].key]
  BY DEF PubkeysOf
<1>5. /\ MultisigAccount(a, threshold) =
             IF Accepts(u, threshold)
             THEN [made |-> TRUE, threshold |-> threshold, publicKeys |-> SortedPubkeys(p),
                   multisigPubkey |-> Derive(SortedPubkeys(p), threshold)]
             ELSE Refused
      /\ MultisigAccount(b, threshold) =
             IF Accepts(v, threshold)
             THEN [made |-> TRUE, threshold |-> threshold, publicKeys |-> SortedPubkeys(q),
                   multisigPubkey |-> Derive(SortedPubkeys(q), threshold)]
             ELSE Refused
  BY DEF MultisigAccount
<1> HIDE DEF u, v, p, q
<1>6. Rearranged(u, v)
  BY <1>2, <1>3, SameMembers
<1>7. Len(u) = Len(v)
  BY <1>2, <1>3, <1>6, RearrangedMembers
<1>8. Accepts(v, threshold)
  BY <1>1, <1>2, <1>3, <1>7 DEF Accepts
<1>9. PICK order \in Bijection(DOMAIN u, DOMAIN v) : \A i \in DOMAIN u : u[i] = v[order[i]]
  BY <1>6 DEF Rearranged
<1>10. order \in [DOMAIN u -> DOMAIN v]
       /\ \A j \in DOMAIN v : \E i \in DOMAIN u : order[i] = j
  BY BijectionIs
<1>11. DOMAIN q = DOMAIN v /\ \A i \in DOMAIN v : q[i] = v[i].key
  BY <1>4
<1>12. \A i \in DOMAIN p : p[i] = q[order[i]]
  BY <1>1, <1>9, <1>10, <1>11
<1>13. Rearranged(p, q)
  BY <1>1, <1>9, <1>11, <1>12 DEF Rearranged
<1>14. q \in Seq(Nat)
  <2>1. \A j \in DOMAIN v : q[j] \in Nat
    <3> TAKE j \in DOMAIN v
    <3>1. PICK i \in DOMAIN u : order[i] = j
      BY <1>10
    <3>2. q[j] = p[i] /\ i \in DOMAIN p
      BY <1>1, <1>12, <3>1
    <3>. QED
      BY <1>1, <3>2
  <2>2. DOMAIN v = 1..Len(v) /\ Len(v) \in Nat
    BY <1>3
  <2>. QED
    BY <1>4, <2>1, <2>2
<1>15. SortedPubkeys(p) = SortedPubkeys(q)
  BY <1>1, <1>13, <1>14, SortedOnce
<1>. QED
  BY <1>1, <1>5, <1>8, <1>15

-----------------------------------------------------------------------------
(* The keys other than one, as otherSignatoriesForPubkey lists them.       *)
Others(keys, key) == MembersAt(keys, {i \in DOMAIN keys : keys[i] # key})

(* s has the members of t at c places, in their order.                     *)
Enumerates(s, t, places, c) ==
    \E place \in Bijection(1..c, places) :
        /\ \A k, l \in 1..c : k < l => place[k] < place[l]
        /\ \A k \in 1..c : s[k] = t[place[k]]

LEMMA OthersPlaces ==
    ASSUME NEW S, NEW keys \in Seq(S), NEW key
    PROVE  LET places == {i \in DOMAIN keys : keys[i] # key}
               c      == Cardinality(places)
               others == Others(keys, key)
           IN  /\ c \in Nat
               /\ others \in [1..c -> S]
               /\ Enumerates(others, keys, places, c)
<1> DEFINE n == Len(keys)
           places == {i \in DOMAIN keys : keys[i] # key}
           c == Cardinality(places)
           others == Others(keys, key)
<1>1. n \in Nat /\ places \in SUBSET (1..n)
  OBVIOUS
<1>2. others = MembersAt(keys, places)
  BY DEF Others
<1>3. \A i \in places : keys[i] \in S
  OBVIOUS
<1> HIDE DEF n, places, others
<1>4. c \in Nat
  BY <1>1, MembersAtPlaces
<1>5. PICK place \in Bijection(1..c, places) :
          /\ \A k, l \in 1..c : k < l => place[k] < place[l]
          /\ MembersAt(keys, places) = [k \in 1..c |-> keys[place[k]]]
  <2>1. \E place \in Bijection(1..Cardinality(places), places) :
            /\ \A k, l \in 1..Cardinality(places) : k < l => place[k] < place[l]
            /\ MembersAt(keys, places) =
                   [k \in 1..Cardinality(places) |-> keys[place[k]]]
    BY <1>1, MembersAtPlaces
  <2>. QED
    BY <2>1
<1> HIDE DEF c
<1>6. place \in [1..c -> places]
  BY BijectionIs
<1>7. others = [k \in 1..c |-> keys[place[k]]]
  BY <1>2, <1>5
<1>8. others \in [1..c -> S]
  BY <1>3, <1>4, <1>6, <1>7
<1>9. \A k \in 1..c : others[k] = keys[place[k]]
  BY <1>7
<1>10. Enumerates(others, keys, places, c)
  BY <1>5, <1>9 DEF Enumerates
<1>. QED
  BY <1>4, <1>8, <1>10 DEF c, others, places

(* Where no key occurs twice, the pallet accepts the other keys, and they  *)
(* and the caller's are the account's.                                     *)
LEMMA OthersOfOneToOne ==
    ASSUME NEW keys \in Seq(Nat), Ascending(keys), OneToOne(keys),
           NEW key \in ToSet(keys)
    PROVE  /\ PalletAccepts(key, Others(keys, key))
           /\ Append(Others(keys, key), key) \in Seq(Nat)
           /\ Rearranged(Append(Others(keys, key), key), keys)
<1> DEFINE n == Len(keys)
           places == {i \in DOMAIN keys : keys[i] # key}
           c == Cardinality(places)
           others == Others(keys, key)
           all == Append(others, key)
<1>1. n \in Nat /\ DOMAIN keys = 1..n /\ \A i \in 1..n : keys[i] \in Nat
  OBVIOUS
<1>2. PICK at \in 1..n : keys[at] = key
  BY <1>1 DEF ToSet
<1>3. key \in Nat
  BY <1>1, <1>2
<1>4. places = (1..n) \ {at}
  BY <1>1, <1>2 DEF OneToOne
<1>5. c = n - 1
  <2>1. IsFiniteSet(1..n) /\ Cardinality(1..n) = n
    BY <1>1, Interval
  <2>. QED
    BY <1>4, <2>1, FS_RemoveElement
<1>6. others \in Seq(Nat) /\ Len(others) = c
  <2>1. others \in [1..c -> Nat]
    BY OthersPlaces
  <2> HIDE DEF c, others
  <2>2. c \in Nat
    BY <1>1, <1>2, <1>5
  <2>. QED
    BY <2>1, <2>2
<1>7. PICK place \in Bijection(1..c, places) :
          /\ \A k, l \in 1..c : k < l => place[k] < place[l]
          /\ \A k \in 1..c : others[k] = keys[place[k]]
  <2>1. Enumerates(others, keys, places, c)
    BY OthersPlaces
  <2> HIDE DEF c, others, places
  <2>. QED
    BY <2>1 DEF Enumerates
<1> HIDE DEF n, places, c, others
<1>8. /\ place \in [1..c -> places]
      /\ \A i \in places : \E k \in 1..c : place[k] = i
      /\ \A k, l \in 1..c : place[k] = place[l] => k = l
  BY PlacesBijection
<1>9. c \in Nat /\ n = c + 1 /\ DOMAIN others = 1..c
  BY <1>1, <1>2, <1>5, <1>6
<1>10. \A k \in 1..c : place[k] \in 1..n /\ place[k] # at
  BY <1>4, <1>8
<1>11. PalletAccepts(key, others)
  <2>1. ASSUME NEW k \in 2..Len(others)
        PROVE  others[k - 1] < others[k]
    <3>1. k \in 1..c /\ k - 1 \in 1..c /\ k - 1 < k
      BY <1>6, <1>9, <2>1
    <3>2. place[k - 1] < place[k]
      BY <1>7, <3>1
    <3>3. place[k - 1] \in 1..n /\ place[k] \in 1..n
      BY <1>10, <3>1
    <3>4. place[k - 1] <= place[k] /\ place[k - 1] # place[k]
      BY <1>1, <3>2, <3>3
    <3>5. keys[place[k - 1]] <= keys[place[k]]
      BY <1>1, <3>3, <3>4 DEF Ascending
    <3>6. keys[place[k - 1]] # keys[place[k]]
      BY <1>1, <3>3, <3>4 DEF OneToOne
    <3>7. keys[place[k - 1]] < keys[place[k]]
      BY <1>1, <3>3, <3>5, <3>6
    <3>. QED
      BY <1>7, <3>1, <3>7
  <2>2. \A k \in 1..c : others[k] # key
    BY <1>1, <1>2, <1>7, <1>10 DEF OneToOne
  <2>3. key \notin ToSet(others)
    BY <1>9, <2>2 DEF ToSet
  <2>. QED
    BY <2>1, <2>3 DEF PalletAccepts, StrictlySorted
<1>12. /\ all \in Seq(Nat) /\ DOMAIN all = 1..n
       /\ \A k \in 1..c : all[k] = others[k]
       /\ all[n] = key
  BY <1>3, <1>6, <1>9
<1> DEFINE order == [k \in 1..n |-> IF k = n THEN at ELSE place[k]]
<1>13. /\ order[n] = at
       /\ \A k \in 1..c : order[k] = place[k]
       /\ \A k \in 1..n : k = n \/ k \in 1..c
       /\ n \in 1..n
       /\ \A k \in 1..c : k \in 1..n
  BY <1>9
<1>14. order \in [1..n -> 1..n]
  BY <1>10, <1>13
<1> HIDE DEF order, all
<1>15. \A k, l \in 1..n : order[k] = order[l] => k = l
  <2> TAKE k, l \in 1..n
  <2>1. CASE k = n /\ l = n
    BY <2>1
  <2>2. CASE k = n /\ l \in 1..c
    BY <1>10, <1>13, <2>2
  <2>3. CASE k \in 1..c /\ l = n
    BY <1>10, <1>13, <2>3
  <2>4. CASE k \in 1..c /\ l \in 1..c
    BY <1>8, <1>13, <2>4
  <2>. QED
    BY <1>13, <2>1, <2>2, <2>3, <2>4
<1>16. \A i \in 1..n : \E k \in 1..n : order[k] = i
  <2> TAKE i \in 1..n
  <2>1. CASE i = at
    BY <1>13, <2>1
  <2>2. CASE i # at
    BY <1>4, <1>8, <1>13, <2>2
  <2>. QED
    BY <2>1, <2>2
<1>17. order \in Bijection(1..n, 1..n)
  BY <1>14, <1>15, <1>16, Fun_IsBij
<1>18. \A k \in 1..n : all[k] = keys[order[k]]
  BY <1>2, <1>7, <1>12, <1>13
<1>19. Rearranged(all, keys)
  BY <1>1, <1>12, <1>17, <1>18 DEF Rearranged
<1>. QED
  BY <1>11, <1>12, <1>19 DEF all, others

(* Where a key occurs twice, otherSignatoriesForPubkey leaves out both.    *)
LEMMA OthersOfDuplicate ==
    ASSUME NEW keys \in Seq(Nat), NEW i \in DOMAIN keys, NEW j \in DOMAIN keys,
           i # j, keys[i] = keys[j]
    PROVE  /\ Append(Others(keys, keys[i]), keys[i]) \in Seq(Nat)
           /\ Len(Append(Others(keys, keys[i]), keys[i])) < Len(keys)
<1> DEFINE n == Len(keys)
           key == keys[i]
           places == {k \in DOMAIN keys : keys[k] # key}
           c == Cardinality(places)
           others == Others(keys, key)
<1>1. n \in Nat /\ DOMAIN keys = 1..n /\ key \in Nat
  OBVIOUS
<1>2. others \in Seq(Nat) /\ Len(others) = c /\ c \in Nat
  <2>1. c \in Nat /\ others \in [1..c -> Nat]
    BY OthersPlaces
  <2> HIDE DEF c, others
  <2>. QED
    BY <2>1
<1> DEFINE N == 1..n
<1>3. /\ IsFiniteSet(N) /\ Cardinality(N) = n
      /\ i \in N /\ j \in N \ {i}
      /\ places \in SUBSET ((N \ {i}) \ {j})
  BY <1>1, Interval
<1> HIDE DEF N, places
<1>4. IsFiniteSet(N \ {i}) /\ Cardinality(N \ {i}) = n - 1
  BY <1>3, FS_RemoveElement
<1>5. /\ IsFiniteSet((N \ {i}) \ {j})
      /\ Cardinality((N \ {i}) \ {j}) = n - 1 - 1
  BY <1>3, <1>4, FS_RemoveElement
<1>6. c <= n - 1 - 1
  BY <1>3, <1>5, FS_Subset
<1>. QED
  BY <1>1, <1>2, <1>6

LEMMA RearrangedOneToOne ==
    ASSUME NEW s, NEW t, Rearranged(s, t), OneToOne(t)
    PROVE  OneToOne(s)
<1>1. PICK order \in Bijection(DOMAIN s, DOMAIN t) : \A i \in DOMAIN s : s[i] = t[order[i]]
  BY DEF Rearranged
<1>2. /\ order \in [DOMAIN s -> DOMAIN t]
      /\ \A i, j \in DOMAIN s : order[i] = order[j] => i = j
  BY BijectionIs
<1>. QED
  BY <1>1, <1>2 DEF OneToOne

(* The keys of an account are ascending, and none occurs twice exactly if  *)
(* none was given in two formats.                                          *)
LEMMA AccountKeys ==
    ASSUME NEW addresses \in Seq(Texts), NEW threshold \in Nat,
           MultisigAccount(addresses, threshold).made
    PROVE  LET made == MultisigAccount(addresses, threshold)
               keys == made.publicKeys
           IN  /\ keys \in Seq(Nat)
               /\ Ascending(keys)
               /\ threshold \in 2..Len(keys)
               /\ made.threshold = threshold
               /\ made.multisigPubkey = Derive(keys, threshold)
               /\ SortedPubkeys(keys) = keys
               /\ OneToOne(keys) <=> \A a, b \in ToSet(addresses) : a.key = b.key => a = b
<1> DEFINE unique == UniqueAddresses(addresses)
           pubkeys == PubkeysOf(unique)
           made == MultisigAccount(addresses, threshold)
           keys == SortedPubkeys(pubkeys)
<1>1. /\ Accepts(unique, threshold)
      /\ unique \in Seq(Addresses)
      /\ pubkeys \in Seq(Nat)
      /\ DOMAIN pubkeys = DOMAIN unique
      /\ \A i \in DOMAIN unique : pubkeys[i] = unique[i].key
      /\ made.threshold = threshold
      /\ made.publicKeys = keys
      /\ made.multisigPubkey = Derive(keys, threshold)
  BY AcceptedMakes
<1>2. ToSet(unique) = ToSet(addresses) /\ OneToOne(unique)
  BY UniqueAddressesKeepsOne
<1> HIDE DEF unique, pubkeys, made
<1>3. /\ keys \in [DOMAIN pubkeys -> Nat]
      /\ Ascending(keys)
      /\ Rearranged(keys, pubkeys)
  BY <1>1, SortedPubkeysSorts
<1> HIDE DEF keys
<1>4. /\ DOMAIN pubkeys = 1..Len(unique)
      /\ Len(unique) \in Nat
  BY <1>1
<1>5. keys \in Seq(Nat) /\ Len(keys) = Len(unique)
  BY <1>3, <1>4
<1>6. threshold \in 2..Len(keys)
  BY <1>1, <1>4, <1>5 DEF Accepts
<1>7. SortedPubkeys(keys) = keys
  BY <1>1, <1>3, <1>5, SortedOnce DEF keys
<1>8. OneToOne(keys) <=> OneToOne(pubkeys)
  BY <1>3, RearrangedBack, RearrangedOneToOne
<1>9. OneToOne(pubkeys) <=> \A a, b \in ToSet(unique) : a.key = b.key => a = b
  <2>1. ASSUME OneToOne(pubkeys), NEW a \in ToSet(unique), NEW b \in ToSet(unique),
               a.key = b.key
        PROVE  a = b
    <3>1. PICK i \in DOMAIN unique : unique[i] = a
      BY <2>1 DEF ToSet
    <3>2. PICK j \in DOMAIN unique : unique[j] = b
      BY <2>1 DEF ToSet
    <3>3. pubkeys[i] = pubkeys[j]
      BY <1>1, <2>1, <3>1, <3>2
    <3>4. i = j
      BY <1>1, <2>1, <3>3 DEF OneToOne
    <3>. QED
      BY <3>1, <3>2, <3>4
  <2>2. ASSUME \A a, b \in ToSet(unique) : a.key = b.key => a = b,
               NEW i \in DOMAIN pubkeys, NEW j \in DOMAIN pubkeys, pubkeys[i] = pubkeys[j]
        PROVE  i = j
    <3>1. unique[i] \in ToSet(unique) /\ unique[j] \in ToSet(unique)
      BY <1>1, <2>2 DEF ToSet
    <3>2. unique[i] = unique[j]
      BY <1>1, <2>2, <3>1
    <3>. QED
      BY <1>1, <1>2, <2>2, <3>2 DEF OneToOne
  <2>. QED
    BY <2>1, <2>2 DEF OneToOne
<1>10. OneToOne(keys) <=> \A a, b \in ToSet(addresses) : a.key = b.key => a = b
  BY <1>2, <1>8, <1>9
<1>. QED
  BY <1>1, <1>3, <1>5, <1>6, <1>7, <1>10 DEF made

(* The pallet's account is the library's exactly if no key occurs twice.   *)
LEMMA PalletMakesTheSame ==
    ASSUME NEW keys \in Seq(Nat), NEW threshold,
           Ascending(keys), SortedPubkeys(keys) = keys
    PROVE  OneToOne(keys) <=>
               \A key \in ToSet(keys) :
                   /\ PalletAccepts(key, Others(keys, key))
                   /\ PalletAccount(key, Others(keys, key), threshold)
                          = Derive(keys, threshold)
<1>1. ASSUME OneToOne(keys), NEW key \in ToSet(keys)
      PROVE  /\ PalletAccepts(key, Others(keys, key))
             /\ PalletAccount(key, Others(keys, key), threshold) = Derive(keys, threshold)
  <2> DEFINE all == Append(Others(keys, key), key)
  <2>1. /\ PalletAccepts(key, Others(keys, key))
        /\ all \in Seq(Nat)
        /\ Rearranged(all, keys)
    BY <1>1, OthersOfOneToOne
  <2>2. PalletAccount(key, Others(keys, key), threshold) = Derive(SortedPubkeys(all), threshold)
    BY DEF PalletAccount
  <2> HIDE DEF all
  <2>3. SortedPubkeys(all) = keys
    BY <2>1, SortedOnce
  <2>. QED
    BY <2>1, <2>2, <2>3
<1>2. ASSUME ~OneToOne(keys)
      PROVE  \E key \in ToSet(keys) :
                 PalletAccount(key, Others(keys, key), threshold) # Derive(keys, threshold)
  <2>1. PICK i \in DOMAIN keys, j \in DOMAIN keys : i # j /\ keys[i] = keys[j]
    BY <1>2 DEF OneToOne
  <2> DEFINE all == Append(Others(keys, keys[i]), keys[i])
             sorted == SortedPubkeys(all)
  <2>2. all \in Seq(Nat) /\ Len(all) < Len(keys)
    BY <2>1, OthersOfDuplicate
  <2>3. PalletAccount(keys[i], Others(keys, keys[i]), threshold) = Derive(sorted, threshold)
    BY DEF PalletAccount
  <2> HIDE DEF all
  <2>4. sorted \in [DOMAIN all -> Nat]
    BY <2>2, SortedPubkeysSorts
  <2> HIDE DEF sorted
  <2>5. Len(sorted) = Len(all)
    <3>1. DOMAIN all = 1..Len(all) /\ Len(all) \in Nat
      BY <2>2
    <3>. QED
      BY <2>4, <3>1
  <2>6. Derive(sorted, threshold)[1] # Derive(keys, threshold)[1]
    <3>1. Len(all) \in Nat /\ Len(keys) \in Nat
      BY <2>2
    <3>2. Len(sorted) # Len(keys)
      BY <2>2, <2>5, <3>1
    <3>. QED
      BY <3>2 DEF Derive
  <2>7. keys[i] \in ToSet(keys)
    BY DEF ToSet
  <2>. QED
    BY <2>3, <2>6, <2>7
<1>. QED
  BY <1>1, <1>2

-----------------------------------------------------------------------------
(* Every account is what the factory made of the arguments recorded for    *)
(* it.                                                                     *)
AsGiven(w) ==
    /\ given[w].addresses \in Seq(Texts)
    /\ given[w].threshold \in Nat
    /\ account[w] \in {None, MultisigAccount(given[w].addresses, given[w].threshold)}

FactoryInv ==
    /\ DOMAIN given = Wallets
    /\ DOMAIN account = Wallets
    /\ \A w \in Wallets : AsGiven(w)

LEMMA ArgumentsType ==
    ASSUME NEW args \in Arguments
    PROVE  args.addresses \in Seq(Texts) /\ args.threshold \in Nat
<1>1. args.addresses \in Lists /\ args.threshold \in 0..(MaxAddresses + 1)
  BY DEF Arguments
<1>2. PICK n \in 0..MaxAddresses : args.addresses \in [1..n -> Texts]
  BY <1>1 DEF Lists, Texts
<1>3. n \in Nat
  BY BoundsAssumption
<1>4. args.addresses \in Seq(Texts)
  BY <1>2, <1>3
<1>. QED
  BY <1>1, <1>4, BoundsAssumption

LEMMA FactoryInitInv == FactoryInit => FactoryInv
<1> SUFFICES ASSUME FactoryInit PROVE FactoryInv
  OBVIOUS
<1>1. DOMAIN given = Wallets /\ DOMAIN account = Wallets
  BY DEF FactoryInit
<1>2. ASSUME NEW w \in Wallets
      PROVE  AsGiven(w)
  <2>1. given[w].addresses = <<>> /\ given[w].threshold = 0 /\ account[w] = None
    BY DEF FactoryInit
  <2>. QED
    BY <2>1 DEF AsGiven
<1>. QED
  BY <1>1, <1>2 DEF FactoryInv

LEMMA FactoryNextInv == FactoryInv /\ [FactoryNext]_factoryVars => FactoryInv'
<1> SUFFICES ASSUME FactoryInv, [FactoryNext]_factoryVars
             PROVE  FactoryInv'
  OBVIOUS
<1>1. CASE FactoryNext
  <2>1. PICK w \in Wallets, args \in Arguments : Create(w, args)
    BY <1>1 DEF FactoryNext
  <2>2. args.addresses \in Seq(Texts) /\ args.threshold \in Nat
    BY ArgumentsType
  <2>3. /\ DOMAIN given' = Wallets
        /\ DOMAIN account' = Wallets
    BY <2>1 DEF Create, FactoryInv
  <2>4. ASSUME NEW v \in Wallets
        PROVE  AsGiven(v)'
    <3>1. CASE v = w
      <4>1. given'[w] = args
        BY <2>1 DEF Create, FactoryInv
      <4>2. account'[w] = MultisigAccount(args.addresses, args.threshold)
        BY <2>1 DEF Create, FactoryInv
      <4>. QED
        BY <2>2, <3>1, <4>1, <4>2 DEF AsGiven
    <3>2. CASE v # w
      <4>1. given'[v] = given[v] /\ account'[v] = account[v]
        BY <2>1, <2>4, <3>2 DEF Create, FactoryInv
      <4>2. AsGiven(v)
        BY <2>4 DEF FactoryInv
      <4>. QED
        BY <4>1, <4>2 DEF AsGiven
    <3>. QED
      BY <3>1, <3>2
  <2>. QED
    BY <2>3, <2>4 DEF FactoryInv
<1>2. CASE UNCHANGED factoryVars
  BY <1>2 DEF factoryVars, FactoryInv, AsGiven
<1>. QED
  BY <1>1, <1>2

LEMMA FactoryInvHolds == FactorySpec => []FactoryInv
BY FactoryInitInv, FactoryNextInv, PTL DEF FactorySpec

(* Whatever lists the wallets pass, those of the same addresses arrive at  *)
(* the same account, in whatever order and however often they name them.   *)
THEOREM AccountForEveryOrder == FactorySpec => []SameForEveryOrder
<1>1. FactoryInv => SameForEveryOrder
  <2> SUFFICES ASSUME FactoryInv, NEW v \in Wallets, NEW w \in Wallets,
                      Made(v), account[w] # None,
                      ToSet(given[v].addresses) = ToSet(given[w].addresses),
                      given[v].threshold = given[w].threshold
               PROVE  account[v] = account[w]
    BY DEF SameForEveryOrder
  <2>1. AsGiven(v) /\ AsGiven(w)
    BY DEF FactoryInv
  <2>2. account[v].made
    BY DEF Made
  <2>3. account[v] = MultisigAccount(given[v].addresses, given[v].threshold)
    BY <2>1, <2>2 DEF AsGiven, None
  <2>4. account[w] = MultisigAccount(given[w].addresses, given[w].threshold)
    BY <2>1 DEF AsGiven
  <2>5. account[v] = MultisigAccount(given[w].addresses, given[w].threshold)
    BY <2>1, <2>2, <2>3, SameAddressesSameAccount DEF AsGiven
  <2>. QED
    BY <2>4, <2>5
<1>. QED
  BY <1>1, FactoryInvHolds, PTL

(* For any signatories and threshold the account the library shows is the  *)
(* pallet's, whoever of them calls, exactly if no key was given twice.     *)
THEOREM AccountIsThePallets == FactorySpec => []PalletActsForIt
<1>1. FactoryInv => PalletActsForIt
  <2> SUFFICES ASSUME FactoryInv, NEW w \in Wallets, Made(w)
               PROVE  /\ account[w].threshold \in 2..Len(account[w].publicKeys)
                      /\ NoKeyTwice(w) <=>
                             \A key \in ToSet(account[w].publicKeys) :
                                 LET others == OtherSignatories(account[w], key)
                                 IN  /\ PalletAccepts(key, others)
                                     /\ PalletAccount(key, others, account[w].threshold)
                                            = account[w].multisigPubkey
    BY DEF PalletActsForIt
  <2> DEFINE keys == account[w].publicKeys
             threshold == account[w].threshold
  <2>1. AsGiven(w) /\ account[w].made
    BY DEF FactoryInv, Made
  <2>2. account[w] = MultisigAccount(given[w].addresses, given[w].threshold)
    BY <2>1 DEF AsGiven, None
  <2>3. /\ keys \in Seq(Nat)
        /\ Ascending(keys)
        /\ given[w].threshold \in 2..Len(keys)
        /\ threshold = given[w].threshold
        /\ account[w].multisigPubkey = Derive(keys, given[w].threshold)
        /\ SortedPubkeys(keys) = keys
        /\ OneToOne(keys) <=> NoKeyTwice(w)
    BY <2>1, <2>2, AccountKeys DEF AsGiven, NoKeyTwice
  <2>4. \A key : OtherSignatories(account[w], key) = Others(keys, key)
    BY DEF OtherSignatories, Others
  <2> HIDE DEF keys, threshold
  <2>5. OneToOne(keys) <=>
            \A key \in ToSet(keys) :
                /\ PalletAccepts(key, Others(keys, key))
                /\ PalletAccount(key, Others(keys, key), threshold) = Derive(keys, threshold)
    BY <2>3, PalletMakesTheSame
  <2>. QED
    BY <2>3, <2>4, <2>5 DEF keys, threshold
<1>. QED
  BY <1>1, FactoryInvHolds, PTL
=============================================================================
