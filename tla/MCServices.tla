------------------------------ MODULE MCServices ------------------------------
(***************************************************************************)
(* The services around the library.  They share no state in the models, so *)
(* a behaviour runs one of them, which component names: the state spaces   *)
(* add up instead of multiplying.                                          *)
(***************************************************************************)
EXTENDS Savefiles, Progress, Sessions, Users, Activity, Media, Metadata, WebUI, DatabaseRestore,
        Schema, VersionSelection, Transfers, LoginLimiter

CONSTANTS p1, u1, u2, u3, s1, s2, s3, n1, n2, v1

OwnInstallations == [u \in Uploads |-> IF u = u3 THEN u2 ELSE u]
LowerCase == [n \in Names |-> IF n = n1 THEN n2 ELSE n]
SocketUsers == [s \in Sockets |-> IF s = s3 THEN u2 ELSE u1]
Priorities == [p \in Providers |-> IF p = p1 THEN 2 ELSE 1]

\* An entry of each kind: strict versions, a dotted one, dates as the source of
\* the program writes them, plain numbers and words; one file indexed twice.
V(path, semver, date, parts, dotted, preRelease, text, indexed) ==
    [path |-> path, semver |-> semver, date |-> date, parts |-> parts, dotted |-> dotted,
     preRelease |-> preRelease, text |-> text, indexed |-> indexed]
SampleVersions ==
    {V(1, 1, 0, <<1, 0, 0>>, TRUE, FALSE, 2, 1), V(2, 2, 0, <<2, 0, 0, 1>>, TRUE, TRUE, 4, 2),
     V(3, 0, 0, <<2, 5>>, TRUE, FALSE, 5, 1), V(4, 0, 7, <<5, 1, 24>>, FALSE, FALSE, 1, 1),
     V(5, 0, 6, <<31, 12, 23>>, FALSE, FALSE, 6, 3), V(6, 0, 0, <<20, 7>>, FALSE, FALSE, 3, 2),
     V(7, 0, 0, <<>>, FALSE, FALSE, 7, 1), V(8, 0, 0, <<>>, FALSE, TRUE, 8, 2),
     V(8, 0, 0, <<>>, FALSE, TRUE, 8, 3)}

VersionSizes == [v \in FileVersions |-> IF v = v1 THEN 3 ELSE 2]
VersionPlaces == [v \in FileVersions |-> IF v = v1 THEN 1 ELSE 2]

VARIABLE component

minorVars == <<listed, transferVars, limiterVars>>

Init ==
    /\ component \in {"savefiles", "progress", "sessions", "users", "activity",
                      "media", "metadata", "web-ui", "restore", "schema",
                      "versions", "transfers", "limiter"}
    /\ SavefilesInit /\ ProgressInit /\ SessionsInit /\ UsersInit /\ ActivityInit
    /\ MediaInit /\ MetadataInit /\ WebUIInit /\ RestoreInit /\ SchemaInit /\ VersionsInit
    /\ TransfersInit /\ LimiterInit
    /\ component # "savefiles" => saves = {}
    /\ component # "web-ui" => newest = NoBuild
    /\ component # "transfers" => offered = FileVersions /\ wanted = {}
    /\ component # "restore" => system = "SQLITE"
    /\ component # "schema" => dialect = "SQLITE" /\ known = 27

Next ==
    \/ /\ component = "savefiles" /\ SavefilesNext
       /\ UNCHANGED <<component, progressVars, sessionVars, userVars, activityVars,
                      mediaVars, metadataVars, uiVars, restoreVars, schemaVars, minorVars>>
    \/ /\ component = "progress" /\ ProgressNext
       /\ UNCHANGED <<component, saveVars, sessionVars, userVars, activityVars,
                      mediaVars, metadataVars, uiVars, restoreVars, schemaVars, minorVars>>
    \/ /\ component = "sessions" /\ SessionsNext
       /\ UNCHANGED <<component, saveVars, progressVars, userVars, activityVars,
                      mediaVars, metadataVars, uiVars, restoreVars, schemaVars, minorVars>>
    \/ /\ component = "users" /\ UsersNext
       /\ UNCHANGED <<component, saveVars, progressVars, sessionVars, activityVars,
                      mediaVars, metadataVars, uiVars, restoreVars, schemaVars, minorVars>>
    \/ /\ component = "activity" /\ ActivityNext
       /\ UNCHANGED <<component, saveVars, progressVars, sessionVars, userVars,
                      mediaVars, metadataVars, uiVars, restoreVars, schemaVars, minorVars>>
    \/ /\ component = "media" /\ MediaNext
       /\ UNCHANGED <<component, saveVars, progressVars, sessionVars, userVars,
                      activityVars, metadataVars, uiVars, restoreVars, schemaVars, minorVars>>
    \/ /\ component = "metadata" /\ MetadataNext
       /\ UNCHANGED <<component, saveVars, progressVars, sessionVars, userVars,
                      activityVars, mediaVars, uiVars, restoreVars, schemaVars, minorVars>>
    \/ /\ component = "web-ui" /\ WebUINext
       /\ UNCHANGED <<component, saveVars, progressVars, sessionVars, userVars,
                      activityVars, mediaVars, metadataVars, restoreVars, schemaVars, minorVars>>
    \/ /\ component = "restore" /\ RestoreNext
       /\ UNCHANGED <<component, saveVars, progressVars, sessionVars, userVars,
                      activityVars, mediaVars, metadataVars, uiVars, schemaVars, minorVars>>
    \/ /\ component = "schema" /\ SchemaNext
       /\ UNCHANGED <<component, saveVars, progressVars, sessionVars, userVars,
                      activityVars, mediaVars, metadataVars, uiVars, restoreVars, minorVars>>
    \/ /\ UNCHANGED <<component, saveVars, progressVars, sessionVars, userVars,
                      activityVars, mediaVars, metadataVars, uiVars, restoreVars, schemaVars>>
       /\ \/ /\ component = "versions" /\ VersionsNext
             /\ UNCHANGED <<transferVars, limiterVars>>
          \/ /\ component = "transfers" /\ TransfersNext
             /\ UNCHANGED <<listed, limiterVars>>
          \/ /\ component = "limiter" /\ LimiterNext
             /\ UNCHANGED <<listed, transferVars>>

Spec == Init /\ [][Next]_<<component, saveVars, progressVars, sessionVars, userVars,
                           activityVars, mediaVars, metadataVars, uiVars, restoreVars, schemaVars,
                           minorVars>>
        /\ MetadataFairness

\* Every value of every component is in its type.
ServicesTypeOK ==
    /\ SavefilesTypeOK /\ ProgressTypeOK /\ SessionsTypeOK /\ UsersTypeOK /\ ActivityTypeOK
    /\ MediaTypeOK /\ MetadataTypeOK /\ WebUITypeOK /\ RestoreTypeOK /\ SchemaTypeOK
    /\ VersionsTypeOK /\ TransfersTypeOK /\ LimiterTypeOK
=============================================================================
