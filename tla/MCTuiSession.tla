---------------------------- MODULE MCTuiSession ----------------------------
(***************************************************************************)
(* Finite instances of TuiSession: secret ids and values are told apart by *)
(* equality only, so both may be permuted.                                 *)
(***************************************************************************)
EXTENDS TuiSession, TLC

Symmetric == Permutations(Secret) \cup Permutations(Value)
=============================================================================
