---------------------------- MODULE MCVaultKeys ----------------------------
(***************************************************************************)
(* Finite instances of VaultKeys.  The founding members are alike.         *)
(***************************************************************************)
EXTENDS VaultKeys, TLC

\* The first write wins everywhere, or the last one in one register only.
OneOrNone == {{}} \cup {{r} : r \in Founding \cup Secret}

Symmetric == Permutations(Founding)
=============================================================================
