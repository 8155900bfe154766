---------------------------- MODULE MultisigAccount ----------------------------
(***************************************************************************)
(* MultisigAccount of packages/polkadart: every wallet builds the account  *)
(* from its own list of SS58 addresses, and must arrive at the account     *)
(* that pallet_multisig computes from the caller and the other             *)
(* signatories the wallet sends along.                                     *)
(*                                                                         *)
(* A public key is a number, ordered as its bytes are; an address is a     *)
(* key in one of the network formats; the hash that yields the account's   *)
(* own key is injective, so its argument stands for it.                    *)
(***************************************************************************)
EXTENDS Naturals, FiniteSets, SequencesExt

CONSTANTS
    Addresses,     \* SS58 addresses: records of a key and a format
    Garbage,       \* a string that Address.decode refuses
    Wallets,       \* the parties that build the account
    MaxAddresses,  \* bound on the length of an address list
    MaxCount       \* the 100 signatories the factory allows at most

ASSUME AddressesAssumption == \A a \in Addresses : a.key \in Nat
ASSUME BoundsAssumption == MaxAddresses \in Nat /\ MaxCount \in Nat

VARIABLES
    given,     \* the list and threshold each wallet passed to the factory
    account    \* what the factory made of them

factoryVars == <<given, account>>

Lists     == UNION {[1..n -> Addresses \cup {Garbage}] : n \in 0..MaxAddresses}
Arguments == [addresses : Lists, threshold : 0..(MaxAddresses + 1)]

None    == [made |-> FALSE, tried |-> FALSE]
Refused == [made |-> FALSE, tried |-> TRUE]

-----------------------------------------------------------------------------
(* Variants: no duplicate is removed, or the keys are not sorted.          *)
AllAddresses(addresses) == addresses

PubkeysAsGiven(pubkeys) == pubkeys

(* The members of s at some of its places, in their order.                 *)
MembersAt(s, places) ==
    [k \in 1..Cardinality(places) |->
        s[CHOOSE i \in places : Cardinality({j \in places : j <= i}) = k]]

(* addresses.toSet().toList(): equal strings, not equal keys, are          *)
(* duplicates; the first of each stays in its place.                       *)
UniqueAddresses(addresses) ==
    MembersAt(addresses, {i \in DOMAIN addresses :
                             \A j \in 1..(i - 1) : addresses[j] # addresses[i]})

PubkeysOf(unique) == [i \in DOMAIN unique |-> unique[i].key]

(* pubkeysWithAddresses.sort by compareBytes: the keys in an order that    *)
(* leaves none before a smaller one.                                       *)
SortedPubkeys(pubkeys) ==
    LET places == DOMAIN pubkeys
        order  == CHOOSE o \in Bijection(places, places) :
                      \A i, j \in places : i <= j => pubkeys[o[i]] <= pubkeys[o[j]]
    IN  [i \in places |-> pubkeys[order[i]]]

(* _deriveMultisigAddress, from the number of keys, the keys in order and  *)
(* the threshold.                                                          *)
Derive(pubkeys, threshold) == <<Len(pubkeys), pubkeys, threshold>>

(* The factory's checks, each with its ArgumentError.                      *)
Accepts(unique, threshold) ==
    /\ threshold >= 2
    /\ Len(unique) \in 2..MaxCount
    /\ threshold <= Len(unique)
    /\ Garbage \notin ToSet(unique)

MultisigAccount(addresses, threshold) ==
    LET unique  == UniqueAddresses(addresses)
        pubkeys == SortedPubkeys(PubkeysOf(unique))
    IN  IF Accepts(unique, threshold)
        THEN [made |-> TRUE, threshold |-> threshold, publicKeys |-> pubkeys,
              multisigPubkey |-> Derive(pubkeys, threshold)]
        ELSE Refused

(* otherSignatoriesForPubkey, of a key that is contained.                  *)
OtherSignatories(acc, signer) ==
    MembersAt(acc.publicKeys,
              {i \in DOMAIN acc.publicKeys : acc.publicKeys[i] # signer})

(* pallet_multisig: ensure_sorted_and_insert and multi_account_id, for a   *)
(* caller and the other signatories it names.                              *)
StrictlySorted(pubkeys) == \A i \in 2..Len(pubkeys) : pubkeys[i - 1] < pubkeys[i]

PalletAccepts(caller, others) ==
    StrictlySorted(others) /\ caller \notin ToSet(others)

PalletAccount(caller, others, threshold) ==
    Derive(SortedPubkeys(Append(others, caller)), threshold)

-----------------------------------------------------------------------------
FactoryInit ==
    /\ given = [w \in Wallets |-> [addresses |-> <<>>, threshold |-> 0]]
    /\ account = [w \in Wallets |-> None]

Create(w, args) ==
    /\ account[w] = None
    /\ given' = [given EXCEPT ![w] = args]
    /\ account' = [account EXCEPT ![w] =
           MultisigAccount(args.addresses, args.threshold)]

FactoryNext == \E w \in Wallets, args \in Arguments : Create(w, args)

FactorySpec == FactoryInit /\ [][FactoryNext]_factoryVars

-----------------------------------------------------------------------------
Made(w) == account[w].made

(* "All signatories derive the same multisig address regardless of the     *)
(* order in which addresses were provided" (multisig_account.dart), and    *)
(* however often one of them repeats an address.                           *)
SameForEveryOrder ==
    \A v, w \in Wallets :
        /\ Made(v)
        /\ account[w] # None
        /\ ToSet(given[v].addresses) = ToSet(given[w].addresses)
        /\ given[v].threshold = given[w].threshold
        => account[v] = account[w]

(* The account the library shows, funds and reads the storage of is the    *)
(* one that the pallet acts for when any of the signatories calls it with  *)
(* otherSignatoriesForPubkey and the same threshold, exactly if no key was *)
(* given in two formats: "Duplicates are automatically removed"            *)
(* (multisig_account.dart) is true of equal addresses only.  And there are *)
(* signatories enough to reach the threshold.                              *)
NoKeyTwice(w) ==
    \A a, b \in ToSet(given[w].addresses) : a.key = b.key => a = b

PalletActsForIt ==
    \A w \in Wallets : Made(w) =>
        /\ account[w].threshold \in 2..Len(account[w].publicKeys)
        /\ NoKeyTwice(w) <=>
               \A key \in ToSet(account[w].publicKeys) :
                   LET others == OtherSignatories(account[w], key)
                   IN  /\ PalletAccepts(key, others)
                       /\ PalletAccount(key, others, account[w].threshold)
                              = account[w].multisigPubkey
=============================================================================
