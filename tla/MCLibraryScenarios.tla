------------------------- MODULE MCLibraryScenarios --------------------------
(***************************************************************************)
(* The library with every kind of call beside every other.  All of them at *)
(* once are more than TLC can explore, so at any time only calls of one of *)
(* four kinds of company are at work together.                             *)
(***************************************************************************)
EXTENDS MCLibrary

CallsAtWork == {i \in Workers : slot[i].pc # "idle"}
ScansAtWork == {s \in Scans : scan[s].pc # "idle"}
ChecksAtWork == {c \in Debounces : check[c].pc # "idle"}

\* Two full scans, one of them requested, around one change of the volume.
TwoScans ==
    /\ reindexed = 1 /\ diskOps < 2
    /\ CallsAtWork = {} /\ ChecksAtWork = {}

\* Two debounced checks and a watcher call, around one change.
TwoChecks == reindexed = 0 /\ diskOps < 2 /\ ScansAtWork = {}

\* A watcher call, a scheduled scan and a debounced check, around one change.
AllThree ==
    /\ reindexed = 0 /\ diskOps < 2
    /\ Cardinality(ScansAtWork) <= 1 /\ Cardinality(ChecksAtWork) <= 1

\* Any two of the three, around two changes.
AnyTwo ==
    /\ reindexed = 0
    /\ Cardinality(ScansAtWork) <= 1 /\ Cardinality(ChecksAtWork) <= 1
    /\ CallsAtWork = {} \/ ScansAtWork = {} \/ ChecksAtWork = {}

Within == TwoScans \/ TwoChecks \/ AllThree \/ AnyTwo

\* Scans are alike, and so are debounced checks.
Alike == Symmetry \cup Permutations(Scans) \cup Permutations(Debounces)
=============================================================================
