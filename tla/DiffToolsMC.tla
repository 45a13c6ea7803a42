------------------------------ MODULE DiffToolsMC ------------------------------
(* An instance of the tools on diffs for TLC. *)
EXTENDS DiffToolsProperties, TLC

Sizes == [b \in Blob |-> b]

RunsAlike == Permutations(Runs)
=============================================================================
