------------------------ MODULE MCWalletDeployments ------------------------
(* Small instances of the wallet deployment lane for TLC. *)
EXTENDS WalletDeployments, TLC

Symmetry == Permutations(Workers) \cup Permutations(Ops)
=============================================================================
