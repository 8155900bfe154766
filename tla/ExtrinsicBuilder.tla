--------------------------- MODULE ExtrinsicBuilder ---------------------------
(***************************************************************************)
(* An extrinsic from ChainDataFetcher's parallel reads, through the        *)
(* setters of ExtrinsicBuilder and ExtensionBuilder in any order and the   *)
(* nonce that signAndBuild fetches, to its inclusion, while the chain goes *)
(* on: blocks, runtime upgrades, extrinsics that other wallets sign.       *)
(*                                                                         *)
(* The hash of a block is its number, of the genesis block 0 (no forks).   *)
(* The transaction version changes with the spec version and is not        *)
(* written down.  The runtime's checks and the pool are external.          *)
(***************************************************************************)
EXTENDS Integers

CONSTANTS
    Signers,
    Periods,                \* era periods that callers ask for
    FirstBlock, LastBlock,  \* best blocks at the start and at most
    MaxSpec, MaxNonce,      \* bounds on upgrades and on extrinsics of a signer
    MaxSetters,             \* bounds on the calls of setters
    MaxSigns,               \* and of signAndBuild
    Nothing

ASSUME BoundsAssumption ==
    /\ LastBlock \in Nat /\ FirstBlock \in 1..LastBlock
    /\ MaxSpec \in Nat \ {0} /\ MaxNonce \in Nat
    /\ MaxSetters \in Nat /\ MaxSigns \in Nat
    /\ Nothing \notin Signers \cup Nat

EraPeriods == 1..65536

ASSUME PeriodAssumption == Periods \subseteq EraPeriods

VARIABLES
    block, spec, nonce,   \* the chain: best block, runtime, nonce of each signer
    fetch,                \* ChainDataFetcher's reads, Nothing when there are none
    builder,              \* ExtrinsicBuilder's own fields
    fields, maps,         \* ExtensionBuilder's fields; extensions and additionalSigned
    awaiting,             \* calls of signAndBuild that fetch their nonce
    pool, refused,        \* submitted extrinsics; the last that the runtime refused
    setters, signs        \* calls so far

chain == <<block, spec, nonce>>
built == <<fetch, builder, fields, maps>>
vars == <<chain, built, awaiting, pool, refused, setters, signs>>

-----------------------------------------------------------------------------
(* era_codec.dart.                                                         *)
Least(a, b) == IF a < b THEN a ELSE b
Greatest(a, b) == IF a > b THEN a ELSE b

Log2(period) == CHOOSE k \in 0..31 : 2^k >= period /\ \A j \in 0..(k - 1) : 2^j < period

getCalPeriod(period) == 2^Log2(period)

QuantizeFactor(period) == Greatest(period \div 4096, 1)

(* For a period that is a power of two; the era's bits do not overlap.     *)
encodeToBytes(phase, period) ==
    Least(15, Greatest(1, Log2(period) - 1)) + 16 * (phase \div QuantizeFactor(period))

TopBit(n) == CHOOSE k \in 0..15 : 2^k <= n /\ n < 2 * 2^k

(* phase / factor * factor in doubles, of 53 bits, is less than the phase. *)
(* The quotient, cut after that many fractional bits, loses rest / factor  *)
(* of its last bit: it must be rounded down, and the product lose more     *)
(* than half of the distance between the phase and the double before it.   *)
FallsShort(phase, factor) ==
    LET top  == TopBit(phase)
        less == CHOOSE d \in 0..4 : phase * 2^d \in (factor * 2^top)..(2 * factor * 2^top - 1)
        fraction == 52 - (top - less)
        rest == (phase * (2^26 % factor) * (2^(fraction - 26) % factor)) % factor
    IN  /\ phase > 0
        /\ 2 * rest < factor
        /\ IF phase = 2^top THEN 4 * rest > 2^less ELSE 2 * rest > 2^less

(* Then toInt() drops the fraction.                                        *)
Quantized(phase, factor) == IF FallsShort(phase, factor) THEN phase - 1 ELSE phase

(* Its factor is of the period that was asked for, encodeToBytes's of the  *)
(* one that is encoded.                                                    *)
encodeMortal(current, period) ==
    LET cal == getCalPeriod(period)
        phase == current % Least(Greatest(cal, 4), 65536)
    IN  encodeToBytes(Quantized(phase, QuantizeFactor(period)), cal)

Immortal == 0

DecodedPeriod(era) == 2 * 2^(era % 16)

DecodedPhase(era) == (era \div 16) * QuantizeFactor(DecodedPeriod(era))

(* The runtime: the last block of that phase.                              *)
Birth(era, current) ==
    LET phase == DecodedPhase(era)
        period == DecodedPeriod(era)
    IN  IF era = Immortal THEN 0
        ELSE ((Greatest(current, phase) - phase) \div period) * period + phase

-----------------------------------------------------------------------------
(* extension_builder.dart.                                                 *)

EraOf(f) == IF f.period = 0 THEN Immortal ELSE encodeMortal(f.number, f.period)

EraHash(f) == IF f.period = 0 THEN 0 ELSE f.hash

(* Variant: an immortal era keeps the hash that was signed before.         *)
applyEraKeepsHash(m, f) ==
    [m EXCEPT !.era = EraOf(f), !.hash = IF f.period = 0 THEN m.hash ELSE f.hash]

applyEra(m, f) == [m EXCEPT !.era = EraOf(f), !.hash = EraHash(f)]

applyStoredValues(f) ==
    [spec |-> f.spec, nonce |-> f.nonce, era |-> EraOf(f), hash |-> EraHash(f)]

Blocks == 0..LastBlock

Eras == 0..65535

Read(S) == S \cup {Nothing}

Marks == [spec : 1..MaxSpec, nonce : [Signers -> 0..MaxNonce]]

Fetches ==
    [account : Read(Signers), number : Read(Blocks), hash : Read(Blocks), spec : Read(1..MaxSpec),
     nonce : Read(Nat), asked : BOOLEAN, since : Marks]

Builders ==
    [number : Blocks, hash : Blocks, nonceSet : BOOLEAN, nonceOf : Read(Signers), since : Marks,
     overridden : BOOLEAN]

Fields == [spec : Nat, number : Blocks, hash : Blocks, nonce : Nat, period : Periods \cup {0}]

Maps == [spec : Nat, nonce : Nat, era : Eras, hash : Blocks]

Extrinsics ==
    [spec : Nat, nonce : Nat, era : Eras, hash : Blocks, signer : Signers,
     nonceOf : Read(Signers), since : Marks, overridden : BOOLEAN, number : Blocks,
     period : Periods \cup {0}]

Calls == [signer : Signers, read : Read(Nat)]

ASSUME NothingAssumption == Nothing \notin Builders

(* The types, and that an era fits in its two bytes.                       *)
TypeOK ==
    /\ block \in FirstBlock..LastBlock /\ spec \in 1..MaxSpec
    /\ nonce \in [Signers -> 0..MaxNonce]
    /\ fetch \in Read(Fetches)
    /\ builder \in Read(Builders)
    /\ builder # Nothing => fields \in Fields /\ maps \in Maps
    /\ awaiting \subseteq Calls
    /\ pool \subseteq Extrinsics
    /\ setters \in 0..MaxSetters /\ signs \in 0..MaxSigns

Init ==
    /\ block = FirstBlock /\ spec = 1 /\ nonce = [s \in Signers |-> 0]
    /\ fetch = Nothing /\ builder = Nothing /\ fields = Nothing /\ maps = Nothing
    /\ awaiting = {} /\ pool = {} /\ refused = Nothing /\ setters = 0 /\ signs = 0

-----------------------------------------------------------------------------
(* The node.  accountNextIndex counts what waits in the pool.              *)
NextIndices(s) ==
    {n \in nonce[s]..(nonce[s] + MaxSigns) :
        /\ ~\E x \in pool : x.signer = s /\ x.nonce = n
        /\ \A m \in nonce[s]..(n - 1) : \E x \in pool : x.signer = s /\ x.nonce = m}

NewBlock ==
    /\ block < LastBlock /\ block' = block + 1
    /\ UNCHANGED <<spec, nonce, built, awaiting, pool, refused, setters, signs>>

Upgrade ==
    /\ spec < MaxSpec /\ spec' = spec + 1
    /\ UNCHANGED <<block, nonce, built, awaiting, pool, refused, setters, signs>>

OtherWallet(s) ==
    /\ nonce[s] < MaxNonce /\ nonce' = [nonce EXCEPT ![s] = @ + 1]
    /\ UNCHANGED <<block, spec, built, awaiting, pool, refused, setters, signs>>

(* The checks of the next block.                                           *)
BirthHolds(x) == Birth(x.era, block + 1) = x.hash

Include(x) ==
    /\ x.spec = spec /\ BirthHolds(x) /\ x.nonce = nonce[x.signer]
    /\ nonce[x.signer] < MaxNonce /\ block < LastBlock
    /\ nonce' = [nonce EXCEPT ![x.signer] = @ + 1]
    /\ block' = block + 1
    /\ pool' = pool \ {x}
    /\ UNCHANGED <<spec, built, awaiting, refused, setters, signs>>

Refuse(x) ==
    /\ x.spec # spec \/ ~BirthHolds(x) \/ x.nonce < nonce[x.signer]
    /\ pool' = pool \ {x}
    /\ refused' = [extrinsic |-> x, block |-> block + 1, spec |-> spec, nonce |-> nonce]
    /\ UNCHANGED <<chain, built, awaiting, setters, signs>>

-----------------------------------------------------------------------------
(* fetchStandardData: the reads run in parallel, but a block's hash is     *)
(* asked for by the number that was read.                                  *)

Fetch(account) ==
    /\ fetch = Nothing /\ builder = Nothing
    /\ fetch' = [account |-> account, number |-> Nothing, hash |-> Nothing, spec |-> Nothing,
                 nonce |-> Nothing, asked |-> account = Nothing,
                 since |-> [spec |-> spec, nonce |-> nonce]]
    /\ UNCHANGED <<chain, builder, fields, maps, awaiting, pool, refused, setters, signs>>

(* Variant: the hash of the best block, read on its own.                   *)
LatestHashOfBest(number) == block

LatestHash(number) == number

NodeReads ==
    /\ fetch # Nothing
    /\ \/ fetch.number = Nothing /\ fetch' = [fetch EXCEPT !.number = block]
       \/ /\ fetch.number # Nothing /\ fetch.hash = Nothing
          /\ fetch' = [fetch EXCEPT !.hash = LatestHash(fetch.number)]
       \/ fetch.spec = Nothing /\ fetch' = [fetch EXCEPT !.spec = spec]
       \/ /\ ~fetch.asked
          /\ \E n \in NextIndices(fetch.account) :
                 fetch' = [fetch EXCEPT !.asked = TRUE, !.nonce = n]
    /\ UNCHANGED <<chain, builder, fields, maps, awaiting, pool, refused, setters, signs>>

(* One read fails, and the whole fetch.                                    *)
FetchFails ==
    /\ fetch # Nothing /\ fetch' = Nothing
    /\ UNCHANGED <<chain, builder, fields, maps, awaiting, pool, refused, setters, signs>>

(* ExtrinsicBuilder.fromChainData.                                         *)
FromChainData(period) ==
    /\ fetch # Nothing /\ fetch.asked
    /\ Nothing \notin {fetch.hash, fetch.spec}
    /\ builder' = [number |-> fetch.number, hash |-> fetch.hash, nonceSet |-> fetch.nonce # Nothing,
                   nonceOf |-> fetch.account, since |-> fetch.since, overridden |-> FALSE]
    /\ fields' = [spec |-> fetch.spec, number |-> fetch.number, hash |-> fetch.hash,
                  nonce |-> IF fetch.nonce = Nothing THEN 0 ELSE fetch.nonce, period |-> period]
    /\ maps' = applyStoredValues(fields')
    /\ fetch' = Nothing
    /\ UNCHANGED <<chain, awaiting, pool, refused, setters, signs>>

-----------------------------------------------------------------------------
(* The setters, in any order.                                              *)

Setter ==
    /\ builder # Nothing /\ setters < MaxSetters /\ setters' = setters + 1
    /\ UNCHANGED <<chain, fetch, awaiting, pool, refused, signs>>

SetNonce(n) ==
    /\ Setter
    /\ fields' = [fields EXCEPT !.nonce = n] /\ maps' = [maps EXCEPT !.nonce = n]
    /\ builder' = [builder EXCEPT !.nonceSet = TRUE, !.overridden = TRUE]

(* era() goes back to the block the builder was made with.                 *)
SetEra(period, hash) ==
    /\ Setter
    /\ fields' = [fields EXCEPT !.period = period, !.number = builder.number,
                                !.hash = IF hash = Nothing THEN builder.hash ELSE hash]
    /\ maps' = applyEra(maps, fields')
    /\ builder' = [builder EXCEPT !.overridden = @ \/ hash # Nothing]

SetImmortal ==
    /\ Setter
    /\ fields' = [fields EXCEPT !.period = 0]
    /\ maps' = applyEra(maps, fields')
    /\ UNCHANGED builder

SetBlockHash(hash) ==
    /\ Setter
    /\ fields' = [fields EXCEPT !.hash = hash]
    /\ maps' = IF fields.period > 0 THEN applyEra(maps, fields') ELSE maps
    /\ builder' = [builder EXCEPT !.overridden = TRUE]

SetSpecVersion(v) ==
    /\ Setter
    /\ fields' = [fields EXCEPT !.spec = v] /\ maps' = [maps EXCEPT !.spec = v]
    /\ builder' = [builder EXCEPT !.overridden = TRUE]

-----------------------------------------------------------------------------
(* signAndBuild, and submit.                                               *)

Signed(s, b, f, m) ==
    [spec |-> m.spec, nonce |-> m.nonce, era |-> m.era, hash |-> m.hash, signer |-> s,
     nonceOf |-> b.nonceOf, since |-> b.since, overridden |-> b.overridden,
     number |-> f.number, period |-> f.period]

(* The payload is signed, encoded and submitted, or the callback throws.   *)
Submits(x) == pool' \in {pool \cup {x}, pool}

SignAndBuild(s) ==
    /\ builder # Nothing /\ signs < MaxSigns /\ signs' = signs + 1
    /\ IF builder.nonceSet
       THEN Submits(Signed(s, builder, fields, maps)) /\ UNCHANGED awaiting
       ELSE awaiting' = awaiting \cup {[signer |-> s, read |-> Nothing]} /\ UNCHANGED pool
    /\ UNCHANGED <<chain, built, refused, setters>>

NodeReadsNonce(a) ==
    /\ a.read = Nothing
    /\ \E n \in NextIndices(a.signer) :
           awaiting' = (awaiting \ {a}) \cup {[a EXCEPT !.read = n]}
    /\ UNCHANGED <<chain, built, pool, refused, setters, signs>>

(* _fetchNonceIfNeeded ends, and all that follows it; or it throws.  The   *)
(* nonce stays set when the callback throws after it.                      *)
Resume(a) ==
    /\ a.read # Nothing
    /\ awaiting' = awaiting \ {a}
    /\ fields' = [fields EXCEPT !.nonce = a.read] /\ maps' = [maps EXCEPT !.nonce = a.read]
    /\ builder' = [builder EXCEPT !.nonceSet = TRUE, !.nonceOf = a.signer]
    /\ Submits(Signed(a.signer, builder', fields', maps'))
    /\ UNCHANGED <<chain, fetch, refused, setters, signs>>

NonceFails(a) == awaiting' = awaiting \ {a} /\ UNCHANGED <<chain, built, pool, refused, setters, signs>>

Next ==
    \/ NewBlock \/ Upgrade \/ \E s \in Signers : OtherWallet(s)
    \/ \E x \in pool : Include(x) \/ Refuse(x)
    \/ \E account \in Read(Signers) : Fetch(account)
    \/ NodeReads \/ FetchFails
    \/ \E p \in Periods : FromChainData(p) \/ \E h \in {Nothing, FirstBlock} : SetEra(p, h)
    \/ SetNonce(1) \/ SetImmortal \/ SetBlockHash(FirstBlock) \/ SetSpecVersion(MaxSpec)
    \/ \E s \in Signers : SignAndBuild(s)
    \/ \E a \in awaiting : NodeReadsNonce(a) \/ Resume(a) \/ NonceFails(a)

Spec == Init /\ [][Next]_vars

-----------------------------------------------------------------------------
(* Whatever setters were called in whatever order, what is signed and      *)
(* encoded is what the fields say, the era and its hash too.               *)
SignsItsFields == builder # Nothing => maps = applyStoredValues(fields)

(* The era names the block exactly: up to a period of 4096, and for longer *)
(* ones at block numbers that the encoding does not round (BirthOfEra).    *)
Exact(x) ==
    /\ x.number % QuantizeFactor(getCalPeriod(x.period)) = 0
    /\ ~FallsShort(x.number % Greatest(4, getCalPeriod(x.period)), QuantizeFactor(x.period))

(* An extrinsic made of what the library fetched for its signer is refused *)
(* only when it was overtaken after the fetch had begun: by an upgrade, by *)
(* another extrinsic of the signer, or by the end of its era.              *)
RefusedOnlyIfOvertaken ==
    LET x == refused.extrinsic
    IN  /\ refused # Nothing
        /\ ~x.overridden /\ x.nonceOf = x.signer
        /\ x.period # 0 => Exact(x)
        => \/ refused.spec > x.since.spec
           \/ refused.nonce[x.signer] > x.since.nonce[x.signer]
           \/ x.period # 0 /\ refused.block >= x.number + Greatest(4, getCalPeriod(x.period))

-----------------------------------------------------------------------------
(* What holds that up: what was fetched, by its place in the chain's       *)
(* history, and how far the builder and the extrinsics still are that.     *)
Past(since) == since.spec <= spec /\ \A s \in Signers : since.nonce[s] <= nonce[s]

FetchInv ==
    fetch # Nothing =>
        /\ builder = Nothing
        /\ Past(fetch.since)
        /\ fetch.number # Nothing => fetch.number <= block
        /\ fetch.hash # Nothing => fetch.number # Nothing /\ fetch.hash = fetch.number
        /\ fetch.spec # Nothing => fetch.spec \in fetch.since.spec..spec
        /\ fetch.asked => (fetch.nonce # Nothing <=> fetch.account # Nothing)
        /\ ~fetch.asked => fetch.nonce = Nothing /\ fetch.account # Nothing
        /\ fetch.nonce # Nothing => fetch.since.nonce[fetch.account] <= fetch.nonce

BuilderInv ==
    /\ awaiting # {} => builder # Nothing
    /\ builder # Nothing =>
           /\ Past(builder.since)
           /\ builder.number <= block /\ builder.hash = builder.number
           /\ fields.number = builder.number
           /\ ~builder.overridden =>
                  /\ fields.hash = fields.number /\ fields.spec \in builder.since.spec..spec
                  /\ builder.nonceOf # Nothing =>
                         builder.since.nonce[builder.nonceOf] <= fields.nonce
           /\ \A a \in awaiting : a.read # Nothing => builder.since.nonce[a.signer] <= a.read

MadeOfPast(x) ==
    /\ Past(x.since) /\ x.number <= block /\ x.era = EraOf(x)
    /\ ~x.overridden =>
           /\ x.hash = IF x.period = 0 THEN 0 ELSE x.number
           /\ x.spec \in x.since.spec..spec
           /\ x.nonceOf = x.signer => x.since.nonce[x.signer] <= x.nonce

PoolInv == \A x \in pool : MadeOfPast(x)

Inv == TypeOK /\ SignsItsFields /\ FetchInv /\ BuilderInv /\ PoolInv /\ RefusedOnlyIfOvertaken
=============================================================================
