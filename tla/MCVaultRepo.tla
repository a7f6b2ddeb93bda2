---------------------------- MODULE MCVaultRepo ----------------------------
(***************************************************************************)
(* Finite instances of VaultRepo.  A terminal is named after the member    *)
(* who owns it, so that members can be permuted together with their        *)
(* terminals where a run checks no liveness.                               *)
(***************************************************************************)
EXTENDS VaultRepo, TLC

OneTerminal == [m \in Member |-> m]

Symmetric == Permutations(Member)
=============================================================================
