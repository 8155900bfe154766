-------------------------- MODULE MCMultisigAccount --------------------------
(* Instances of MultisigAccount for TLC: three keys, the first of them in  *)
(* two formats.                                                            *)
EXTENDS MultisigAccount, TLC

MCAddresses ==
    {[key |-> 1, format |-> "polkadot"], [key |-> 1, format |-> "kusama"],
     [key |-> 2, format |-> "polkadot"], [key |-> 3, format |-> "kusama"]}

WalletSymmetry == Permutations(Wallets)
=============================================================================
