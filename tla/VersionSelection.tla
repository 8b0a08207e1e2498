--------------------------- MODULE VersionSelection ---------------------------
(***************************************************************************)
(* The versions of a game as the table lists them, in an order the query   *)
(* does not fix, and the default that VersionOrder selects among them.     *)
(***************************************************************************)
EXTENDS VersionOrder

CONSTANTS
    OfferedVersions,    \* versions the indexer may find
    MaxListed           \* bound: rows listed

ASSUME VersionsAssumption ==
    OfferedVersions \subseteq Version /\ MaxListed \in Nat

VARIABLE listed         \* the rows, as a query returns them

VersionsTypeOK == listed \in Seq(OfferedVersions) /\ Len(listed) <= MaxListed

VersionsInit == listed = <<>>

\* A version is recorded, and listed anywhere among the others.
RecordOffered ==
    /\ Len(listed) < MaxListed
    /\ \E v \in OfferedVersions, i \in 0 .. Len(listed) :
          listed' = SubSeq(listed, 1, i) \o <<v>> \o SubSeq(listed, i + 1, Len(listed))

\* The file of a version is gone.
DropVersion ==
    \E i \in DOMAIN listed :
        listed' = SubSeq(listed, 1, i - 1) \o SubSeq(listed, i + 1, Len(listed))

VersionsNext == RecordOffered \/ DropVersion

VersionsSpec == VersionsInit /\ [][VersionsNext]_listed

(***************************************************************************)
(* Properties.                                                             *)
(***************************************************************************)

\* What sortGameVersions returns is in order throughout, not only from one
\* version to the next: its comparison has no cycles to get lost in.
NewestFirst ==
    LET s == Sorted(listed) IN
    \A i, j \in DOMAIN s : i < j => ~Newer(s[j], s[i])

\* The default does not depend on the order in which the query returns the rows:
\* of any two orders, here one and its reverse, it is equally new.
DefaultIgnoresRowOrder ==
    LET reversed == [i \in DOMAIN listed |-> listed[Len(listed) + 1 - i]] IN
    (\A i, j \in DOMAIN listed : i # j => listed[i].path # listed[j].path) /\ listed # <<>>
       => Default(listed).text = Default(reversed).text
====
