------------------------------ MODULE HashTree ------------------------------
(***************************************************************************)
(* Hash trees.  The ledger's own (anchor/merkle.rs) duplicates the last    *)
(* node of an odd level; Rekor's follows RFC 9162 and is checked by        *)
(* verify/rekor.rs, verify_inclusion.  Hashing is ideal: a hash is its     *)
(* input under the tag of its domain, so no two inputs collide.            *)
(***************************************************************************)
EXTENDS Integers, Sequences, SequencesExt

LeafHash(v) == <<"leaf", v>>
NodeHash(l, r) == <<"node", l, r>>
ZeroHash == <<"zero">>

(***************************************************************************)
(* MerkleTree: its levels, leaves first.                                   *)
(***************************************************************************)
Parents(hs) ==
    [i \in 1..((Len(hs) + 1) \div 2) |->
        NodeHash(hs[2 * i - 1], IF 2 * i <= Len(hs) THEN hs[2 * i] ELSE hs[2 * i - 1])]
\* The `while` loop: a level more until the last has one node.
Levels(hs) ==
    LET built[k \in 0..Len(hs)] ==
            IF k = 0 THEN <<hs>>
            ELSE LET sofar == built[k - 1]
                 IN IF Len(Last(sofar)) > 1 THEN Append(sofar, Parents(Last(sofar))) ELSE sofar
    IN built[Len(hs)]
FromHashedLeaves(hs) == IF hs = <<>> THEN <<<<ZeroHash>>>> ELSE Levels(hs)
Root(levels) == Head(Last(levels))

\* Where the path from a leaf up passes each level (`idx /= 2`).
PathUp(index, count) ==
    LET at[k \in 1..count] == IF k = 1 THEN index ELSE at[k - 1] \div 2 IN at
\* Mutant: the missing sibling of an odd last node is left out of the proof.
InclusionProof_NoDuplicate(levels, index) ==
    LET at         == PathUp(index, Len(levels))
        Sibling(k) == IF at[k] % 2 = 0 THEN at[k] + 1 ELSE at[k] - 1
        present    == SelectSeq([k \in 1..(Len(levels) - 1) |-> k], LAMBDA k : Sibling(k) < Len(levels[k]))
    IN [j \in DOMAIN present |->
           [left |-> at[present[j]] % 2 = 1, hash |-> levels[present[j]][Sibling(present[j]) + 1]]]
\* inclusion_proof: one step per level, the node itself where it has no sibling.
InclusionProof(levels, index) ==
    LET at == PathUp(index, Len(levels))
    IN [k \in 1..(Len(levels) - 1) |->
           LET sibling == IF at[k] % 2 = 0 THEN at[k] + 1 ELSE at[k] - 1
           IN [left |-> at[k] % 2 = 1,
               hash |-> IF sibling < Len(levels[k]) THEN levels[k][sibling + 1] ELSE levels[k][at[k] + 1]]]

\* The hash a proof climbs to from a leaf.
Climb(leaf, steps) ==
    FoldLeft(LAMBDA cur, s : IF s.left THEN NodeHash(s.hash, cur) ELSE NodeHash(cur, s.hash), leaf, steps)
VerifyMerkleProof(leaf, steps, root) == Climb(leaf, steps) = root
VerifyLogInclusion(subject, steps, root) == Climb(LeafHash(subject), steps) = root

(***************************************************************************)
(* RFC 9162, 2.1.3.2.                                                      *)
(***************************************************************************)
\* The `while` loop: both positions move up to where fn is a right child.
ToRightChild(fn, sn) ==
    LET e == Min({n \in 0..fn : fn = 0 \/ (fn \div 2^n) % 2 = 1}) IN <<fn \div 2^e, sn \div 2^e>>

InclusionStep(w, p) ==
    LET right == w.fn % 2 = 1 \/ w.fn = w.sn
        up    == IF right /\ w.fn % 2 = 0 THEN ToRightChild(w.fn, w.sn) ELSE <<w.fn, w.sn>>
    IN [ok |-> w.ok /\ w.sn # 0,
        fn |-> up[1] \div 2, sn |-> up[2] \div 2,
        r  |-> IF right THEN NodeHash(p, w.r) ELSE NodeHash(w.r, p)]

VerifyInclusion(index, size, leaf, path, root) ==
    LET end == FoldLeft(InclusionStep, [ok |-> TRUE, fn |-> index, sn |-> size - 1, r |-> leaf], path)
    IN index < size /\ end.ok /\ end.sn = 0 /\ end.r = root

\* What the log computes (external): the tree splits at the largest power of
\* two below its size.
SplitAt(n) == CHOOSE k \in {2^e : e \in 0..n} : k < n /\ 2 * k >= n
SubRoots(ls) ==
    LET root[a \in DOMAIN ls, b \in DOMAIN ls] ==
            IF a = b THEN ls[a]
            ELSE LET k == a + SplitAt(b - a + 1) IN NodeHash(root[a, k - 1], root[k, b])
    IN root
LogRoot(ls) == SubRoots(ls)[1, Len(ls)]
LogPath(m, ls) ==
    LET path[a \in DOMAIN ls, b \in DOMAIN ls] ==
            IF a = b THEN <<>>
            ELSE LET k == a + SplitAt(b - a + 1)
                 IN IF m + 1 < k THEN Append(path[a, k - 1], SubRoots(ls)[k, b])
                                 ELSE Append(path[k, b], SubRoots(ls)[a, k - 1])
    IN path[1, Len(ls)]
=============================================================================
