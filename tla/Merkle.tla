-------------------------------- MODULE Merkle --------------------------------
(***************************************************************************)
(* internal/merkle: BuildTree, Fold and VerifyProof.  One action is one    *)
(* turn of BuildTree's inner loop, which takes two neighbours of a level,  *)
(* or promotes the last one when it has no neighbour, and extends the      *)
(* proofs of all the leaves below them.                                    *)
(*                                                                         *)
(* Hashes do not collide: a leaf is <<its value, {}>>, and the hash of a   *)
(* pair, sorted before hashing, depends on the unordered pair alone.       *)
(* Positions count from 1 here and from 0 in the code.                     *)
(***************************************************************************)
EXTENDS Integers, SequencesExt

CONSTANTS
    Input,      \* the leaf sequences BuildTree is called with
    MaxProof    \* maxProofLength

ASSUME ConstantsAssumption ==
    /\ \A ls \in Input : ls \in Seq(Range(ls))
    /\ MaxProof \in Nat

VARIABLES
    leaves,      \* the argument of the call
    level,       \* the nodes of the current level
    groups,      \* groups[j]: the leaves below level[j]
    proofs,      \* proofs[k]: the proof of leaf k so far
    nextLevel,
    nextGroups,
    i,           \* the position in level
    outcome      \* "none", "building", "built", or why BuildTree refused

vars == <<leaves, level, groups, proofs, nextLevel, nextGroups, i, outcome>>

-----------------------------------------------------------------------------
\* Bug: the pair is hashed in the order it is found.
HashInOrder(a, b) == <<0, {<<1, a>>, <<2, b>>}>>

\* sortedPairHash.
SortedPairHash(a, b) == <<0, {a, b}>>

\* Fold, the verification algorithm of the statement_registry contract.
Fold(leaf, proof) == FoldLeft(SortedPairHash, leaf, proof)

VerifyProof(root, leaf, proof) == Fold(leaf, proof) = root

Init ==
    /\ leaves = <<>> /\ level = <<>> /\ groups = <<>> /\ proofs = <<>>
    /\ nextLevel = <<>> /\ nextGroups = <<>>
    /\ i = 1
    /\ outcome = "none"

\* BuildTree refuses an empty leaf set and one with a leaf twice.
Refuse(ls) ==
    /\ outcome # "building"
    /\ ls = <<>> \/ ~IsInjective(ls)
    /\ outcome' = IF ls = <<>> THEN "empty" ELSE "duplicate"
    /\ leaves' = ls
    /\ level' = <<>> /\ groups' = <<>> /\ proofs' = <<>>
    /\ UNCHANGED <<nextLevel, nextGroups, i>>

Begin(ls) ==
    /\ outcome # "building"
    /\ ls # <<>> /\ IsInjective(ls)
    /\ outcome' = "building"
    /\ leaves' = ls
    /\ level' = ls
    /\ groups' = [k \in DOMAIN ls |-> {k}]
    /\ proofs' = [k \in DOMAIN ls |-> <<>>]
    /\ UNCHANGED <<nextLevel, nextGroups, i>>

\* Bug: only the first leaf below each of the two nodes gets its sibling.
PairFirstOnly(j) ==
    LET Least(g) == CHOOSE k \in g : \A l \in g : k <= l
    IN  [k \in DOMAIN leaves |->
           IF k = Least(groups[j]) THEN Append(proofs[k], level[j + 1])
           ELSE IF k = Least(groups[j + 1]) THEN Append(proofs[k], level[j])
           ELSE proofs[k]]

\* Every leaf below one of the nodes j and j + 1 gets the other as sibling.
WithSiblings(j) ==
    [k \in DOMAIN leaves |->
        IF k \in groups[j] THEN Append(proofs[k], level[j + 1])
        ELSE IF k \in groups[j + 1] THEN Append(proofs[k], level[j])
        ELSE proofs[k]]

\* Two neighbours become one node of the next level.
Pair ==
    /\ outcome = "building" /\ Len(level) > 1
    /\ i < Len(level)
    /\ proofs' = WithSiblings(i)
    /\ nextLevel' = Append(nextLevel, SortedPairHash(level[i], level[i + 1]))
    /\ nextGroups' = Append(nextGroups, groups[i] \cup groups[i + 1])
    /\ i' = i + 2
    /\ UNCHANGED <<leaves, level, groups, outcome>>

\* Bug: a node left over is paired with itself.
PromotePaired ==
    /\ outcome = "building" /\ Len(level) > 1
    /\ i = Len(level)
    /\ proofs' = [k \in DOMAIN leaves |->
                    IF k \in groups[i] THEN Append(proofs[k], level[i]) ELSE proofs[k]]
    /\ nextLevel' = Append(nextLevel, SortedPairHash(level[i], level[i]))
    /\ nextGroups' = Append(nextGroups, groups[i])
    /\ i' = i + 1
    /\ UNCHANGED <<leaves, level, groups, outcome>>

\* The last node has no neighbour: it is promoted unchanged.
Promote ==
    /\ outcome = "building" /\ Len(level) > 1
    /\ i = Len(level)
    /\ nextLevel' = Append(nextLevel, level[i])
    /\ nextGroups' = Append(nextGroups, groups[i])
    /\ i' = i + 1
    /\ UNCHANGED <<leaves, level, groups, proofs, outcome>>

\* Bug: the groups of the level before are kept.
EndLevelKeepsGroups ==
    /\ outcome = "building" /\ Len(level) > 1
    /\ i > Len(level)
    /\ level' = nextLevel
    /\ nextLevel' = <<>> /\ nextGroups' = <<>>
    /\ i' = 1
    /\ UNCHANGED <<leaves, groups, proofs, outcome>>

\* The next level is complete.
EndLevel ==
    /\ outcome = "building" /\ Len(level) > 1
    /\ i > Len(level)
    /\ level' = nextLevel /\ groups' = nextGroups
    /\ nextLevel' = <<>> /\ nextGroups' = <<>>
    /\ i' = 1
    /\ UNCHANGED <<leaves, proofs, outcome>>

\* Bug: a proof of exactly the contract's cap is refused.
ExceedsCapEarly(proof) == Len(proof) >= MaxProof

ExceedsCap(proof) == Len(proof) > MaxProof

\* One node is left: the root, unless some proof is longer than the contract
\* accepts.
Finish ==
    /\ outcome = "building" /\ Len(level) = 1
    /\ outcome' = IF \E k \in DOMAIN proofs : ExceedsCap(proofs[k])
                  THEN "too_long" ELSE "built"
    /\ UNCHANGED <<leaves, level, groups, proofs, nextLevel, nextGroups, i>>

Next ==
    \/ \E ls \in Input : Refuse(ls) \/ Begin(ls)
    \/ Pair \/ Promote \/ EndLevel \/ Finish

Spec == Init /\ [][Next]_vars

-----------------------------------------------------------------------------
\* Every group is a set of leaves, and every level has one group per node.
TypeOK ==
    /\ leaves \in Input \cup {<<>>}
    /\ Len(groups) = Len(level) /\ Len(nextGroups) = Len(nextLevel)
    /\ \A g \in Range(groups) \cup Range(nextGroups) : g \subseteq DOMAIN leaves
    /\ outcome \in {"none", "building", "built", "empty", "duplicate", "too_long"}

\* The nodes no later turn of the inner loop will replace in this level.
Folds(nodes, below, from) ==
    \A j \in from .. Len(nodes) :
        \A k \in below[j] : Fold(leaves[k], proofs[k]) = nodes[j]

\* At every moment of the construction, promoted nodes included, folding a leaf
\* through the proof it has so far gives the node it has reached, and every
\* leaf has reached one.
ProofsFold ==
    outcome = "building" =>
        /\ Folds(level, groups, i)
        /\ Folds(nextLevel, nextGroups, 1)
        /\ UNION Range(SubSeq(groups, i, Len(groups)) \o nextGroups) = DOMAIN leaves

\* The tree BuildTree returns: each leaf verifies against the root with its own
\* proof, and no other leaf verifies with it.
ProofsVerify ==
    outcome = "built" => \A k, l \in DOMAIN leaves :
        VerifyProof(level[1], leaves[l], proofs[k]) <=> l = k

\* No proof is longer than the tree is high, so the contract's cap refuses a
\* leaf set only if it has more than 2^MaxProof leaves, and then always.
ProofsAreShort ==
    /\ \A k \in DOMAIN proofs : proofs[k] # <<>> => 2^(Len(proofs[k]) - 1) < Len(leaves)
    /\ outcome = "too_long" => Len(leaves) > 2^MaxProof
    /\ outcome = "built" => Len(leaves) <= 2^MaxProof

\* The largest power of two below m.
Split(m) == CHOOSE p \in {2^e : e \in 0 .. m} : p < m /\ m <= 2 * p

\* TreeOver(ls)[m][lo]: the root over the m leaves of ls from lo on, by recursion
\* instead of by levels: the left subtree is the largest complete one.
TreeOver(ls) ==
    LET root[m \in 1 .. Len(ls)] ==
            [lo \in 1 .. Len(ls) + 1 - m |->
                IF m = 1 THEN ls[lo]
                ELSE SortedPairHash(root[Split(m)][lo], root[m - Split(m)][lo + Split(m)])]
    IN  root

Reference == TreeOver(leaves)[Len(leaves)][1]

\* The root BuildTree returns depends on the leaves in the way the level by
\* level algorithm is documented to, with no leaf lost, doubled or moved.
RootIsReference == outcome = "built" => level[1] = Reference

=============================================================================
