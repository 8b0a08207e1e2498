----------------------------- MODULE VersionOrder -----------------------------
(***************************************************************************)
(* The order of a game's versions: sortGameVersions and                    *)
(* selectDefaultGameVersion (src/src/modules/games/                        *)
(* version-selection.util.ts), which decide what is downloaded and shown   *)
(* when nobody asks for a version.                                         *)
(*                                                                         *)
(* A version string is what extractVersionSignals finds in it; the regular *)
(* expressions themselves, and the package semver, are left out.           *)
(***************************************************************************)
EXTENDS Integers, Sequences

(***************************************************************************)
(* semver: place of a strict semantic version among all, 0 if it is none;  *)
(* date: day of a date-like version, 0 if it is none; parts: its numbers;  *)
(* dotted: two of them have a dot between; preRelease: it says alpha, beta,*)
(* test and the like; text: place of the string in the order of            *)
(* localeCompare; indexed: time of indexing; path: its file.               *)
(***************************************************************************)
Version == [semver : Nat, date : Nat, parts : Seq(Nat), dotted : BOOLEAN,
            preRelease : BOOLEAN, text : Nat, indexed : Nat, path : Nat]

\* comparabilityScore
Score(v) ==
    IF v.semver # 0 THEN 4
    ELSE IF v.dotted /\ Len(v.parts) > 1 THEN 3
    ELSE IF v.date # 0 \/ Len(v.parts) > 1 THEN 2
    ELSE IF Len(v.parts) = 1 THEN 1 ELSE 0

\* A number that is missing counts as 0.
NumberAt(v, i) == IF i \in DOMAIN v.parts THEN v.parts[i] ELSE 0

\* compareNumericParts: the first number that differs decides.
NumbersNewer(a, b) ==
    \E i \in DOMAIN a.parts \cup DOMAIN b.parts :
        /\ NumberAt(a, i) > NumberAt(b, i)
        /\ \A j \in 1 .. i - 1 : NumberAt(a, j) = NumberAt(b, j)

\* Mutant: dates count only when both versions have one.
NewerWhenBothDated(a, b) ==
    LET First(x, y, otherwise) == IF x # y THEN x > y ELSE otherwise IN
    IF a.semver # 0 /\ b.semver # 0 /\ a.semver # b.semver THEN a.semver > b.semver
    ELSE IF Score(a) # Score(b) THEN Score(a) > Score(b)
    ELSE IF a.date # 0 /\ b.date # 0 /\ a.date # b.date THEN a.date > b.date
    ELSE \/ NumbersNewer(a, b)
         \/ ~NumbersNewer(b, a) /\ First(a.indexed, b.indexed, a.text > b.text)

\* Mutant: versions with the same numbers are left as they come.
NewerByNumbers(a, b) ==
    IF a.semver # 0 /\ b.semver # 0 /\ a.semver # b.semver THEN a.semver > b.semver
    ELSE IF Score(a) # Score(b) THEN Score(a) > Score(b)
    ELSE IF a.date # b.date THEN a.date > b.date
    ELSE NumbersNewer(a, b)

\* The comparison of sortGameVersions: the first criterion that tells two
\* versions apart decides.  A version without a date comes after one with.
Newer(a, b) ==
    IF a.semver # 0 /\ b.semver # 0 /\ a.semver # b.semver THEN a.semver > b.semver
    ELSE IF Score(a) # Score(b) THEN Score(a) > Score(b)
    ELSE IF a.date # b.date THEN a.date > b.date
    ELSE IF NumbersNewer(a, b) THEN TRUE
    ELSE IF NumbersNewer(b, a) THEN FALSE
    ELSE IF a.preRelease # b.preRelease THEN b.preRelease
    ELSE IF a.indexed # b.indexed THEN a.indexed > b.indexed
    ELSE a.text > b.text

\* Array.prototype.sort: a stable sort that inserts one element after another.
Placed(s, v) ==
    LET after == {i \in 1 .. Len(s) : Newer(v, s[i])}
        place == IF after = {} THEN Len(s) + 1
                 ELSE CHOOSE i \in after : \A j \in after : i <= j
    IN  SubSeq(s, 1, place - 1) \o <<v>> \o SubSeq(s, place, Len(s))

\* One version per path: the last one, in the place of the first.
OnePerPath(s) ==
    LET Copies(i) == {j \in DOMAIN s : s[j].path = s[i].path}
        Firsts == {i \in DOMAIN s : \A j \in Copies(i) : i <= j}
        Latest(i) == CHOOSE j \in Copies(i) : \A k \in Copies(i) : k <= j
        firsts[n \in 0 .. Len(s)] ==
            IF n = 0 THEN <<>>
            ELSE IF n \in Firsts THEN Append(firsts[n - 1], s[Latest(n)]) ELSE firsts[n - 1]
    IN  firsts[Len(s)]

Sorted(s) ==
    LET t == OnePerPath(s)
        sorted[n \in 0 .. Len(t)] == IF n = 0 THEN <<>> ELSE Placed(sorted[n - 1], t[n])
    IN  sorted[Len(t)]

\* selectDefaultGameVersion.  Nobody passes the path it would prefer.
Default(s) == Head(Sorted(s))
====
