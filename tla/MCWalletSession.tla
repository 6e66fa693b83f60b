-------------------------- MODULE MCWalletSession --------------------------
(* The instances of WalletSession that TLC checks. *)
EXTENDS WalletSession, TLC

Symmetry == Permutations(Challenge) \cup Permutations(FreighterAccount)
=============================================================================
