------------------------------ MODULE MCWallets ------------------------------
(***************************************************************************)
(* Small instances of Wallets.  Nonces and requests are interchangeable.   *)
(***************************************************************************)
EXTENDS Wallets, TLC

CONSTANTS eth1, eth2, sol, n1, n2, n3, r1, r2, r3, r4

Symmetry == Permutations(Requests) \cup Permutations(Nonces) \cup Permutations(EthAddresses)
=============================================================================
