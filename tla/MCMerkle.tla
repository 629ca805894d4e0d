------------------------------ MODULE MCMerkle ------------------------------
(***************************************************************************)
(* Instances of Merkle for TLC: every number of distinct leaves up to      *)
(* MaxLeaves, and leaf sets with a repetition.                             *)
(***************************************************************************)
EXTENDS Merkle

CONSTANT MaxLeaves

LeafHash(n) == <<n, {}>>

MCInput ==
    {[k \in 1 .. n |-> LeafHash(k)] : n \in 0 .. MaxLeaves}
        \cup {[k \in 1 .. n |-> LeafHash(IF k = n THEN 1 ELSE k)] : n \in 2 .. 3}

=============================================================================
