------------------------------ MODULE MCLibrary ------------------------------
EXTENDS Library, TLC
CONSTANTS p1, p2
DistinctTitles == [p \in Paths |-> p]
OneTitle == [p \in Paths |-> "same"]
RankOf == [p \in Paths |-> IF p = p1 THEN 1 ELSE 2]

\* Sound with DistinctTitles only: no game has two paths, so Rank is never used
\* to choose between them.
Symmetry == Permutations(Paths)
=============================================================================
