-------------------------------- MODULE WebUI ---------------------------------
(***************************************************************************)
(* The cache of the web user interface: WebUIService                       *)
(* (src/src/modules/web-ui/web-ui.service.ts) prepares it when the server  *)
(* starts, and again when an administrator restarts the web UI             *)
(* (src/src/modules/admin/admin.controller.ts).  The cache is a directory: *)
(* the archive, dist with its files, and .version, which is written last.  *)
(***************************************************************************)
EXTENDS Integers

CONSTANTS
    Builds,         \* release tags of the web UI
    NoBuild,        \* no build
    Forced,         \* WEB_UI_VERSION, or NoBuild
    Boot,           \* prepareFrontend of onModuleInit
    UIRestarts,     \* POST /admin/web-ui/restart
    MaxUICrashes    \* bound: crashes of the server

Preparers == {Boot} \cup UIRestarts
\* index.html, which getCachedVersion looks for, and everything else.
Parts == {"index", "assets"}
Torn == "torn"      \* an archive that is not all there

ASSUME WebUIAssumption ==
    /\ NoBuild \notin Builds /\ Forced \in Builds \cup {NoBuild}
    /\ Boot \notin UIRestarts
    /\ Torn \notin Builds \cup {NoBuild}
    /\ MaxUICrashes \in Nat

VARIABLES
    zip,        \* gamevault-frontend.zip
    dist,       \* dist[part]: the build the files of dist come from
    marker,     \* .version
    newest,     \* newest stable release of the server's major version, if any
    preparing,  \* what every preparer is doing
    chosen,     \* the version it prepares
    uiCrashes,  \* crashes so far
    uiOverlap   \* history: two preparers have been at work at the same time

uiVars == <<zip, dist, marker, newest, preparing, chosen, uiCrashes, uiOverlap>>

UIStages == {"idle", "wiping", "sweeping", "resolving", "checking", "asking", "downloading",
             "emptying", "clearing", "extracting", "tidying", "marking", "ended"}
NoFiles == [part \in Parts |-> NoBuild]

WebUIInit ==
    /\ zip = NoBuild /\ dist = NoFiles /\ marker = NoBuild
    /\ newest \in Builds \cup {NoBuild}
    /\ preparing = [a \in Preparers |-> IF a = Boot THEN "resolving" ELSE "idle"]
    /\ chosen = [a \in Preparers |-> NoBuild]
    /\ uiCrashes = 0 /\ uiOverlap = FALSE

\* getCachedVersion
CachedVersion == IF dist["index"] = NoBuild THEN NoBuild ELSE marker

Preparing(a) == preparing[a] \notin {"idle", "ended"}

UIGoto(a, stage) ==
    /\ preparing' = [preparing EXCEPT ![a] = stage]
    /\ uiOverlap' = (uiOverlap \/ \E b, c \in Preparers :
                        b # c /\ Preparing(b)' /\ Preparing(c)')

\* The server listens once its modules are initialised.
RestartUI(r) ==
    /\ preparing[r] = "idle" /\ preparing[Boot] = "ended"
    /\ UIGoto(r, "wiping")
    /\ UNCHANGED <<zip, dist, marker, newest, chosen, uiCrashes>>

\* Mutant: .version is removed after dist.
WipeMarkerLast(a) ==
    /\ preparing[a] \in {"wiping", "emptying"}
    /\ IF dist = NoFiles THEN marker' = NoBuild /\ UNCHANGED dist
       ELSE /\ \E part \in Parts : dist' = [dist EXCEPT ![part] = NoBuild]
            /\ UNCHANGED marker
    /\ IF marker' = NoBuild
       THEN UIGoto(a, IF preparing[a] = "wiping" THEN "sweeping" ELSE "clearing")
       ELSE UNCHANGED <<preparing, uiOverlap>>
    /\ UNCHANGED <<zip, newest, chosen, uiCrashes>>

\* cleanCacheExceptZip takes what readdir lists, sorted: .version, then dist.
WipeMarker(a) ==
    /\ preparing[a] \in {"wiping", "emptying"}
    /\ marker' = NoBuild
    /\ UIGoto(a, IF preparing[a] = "wiping" THEN "sweeping" ELSE "clearing")
    /\ UNCHANGED <<zip, dist, newest, chosen, uiCrashes>>

\* dist goes file by file.
WipeDist(a) ==
    /\ preparing[a] \in {"sweeping", "clearing"}
    /\ IF dist = NoFiles
       THEN /\ UIGoto(a, IF preparing[a] = "sweeping" THEN "resolving" ELSE "extracting")
            /\ UNCHANGED dist
       ELSE /\ \E part \in Parts : dist' = [dist EXCEPT ![part] = NoBuild]
            /\ UNCHANGED <<preparing, uiOverlap>>
    /\ UNCHANGED <<zip, marker, newest, chosen, uiCrashes>>

\* resolveVersion; GitHub may be out of reach.
Resolve(a) ==
    /\ preparing[a] = "resolving"
    /\ \E reached \in BOOLEAN :
          LET v == IF Forced # NoBuild THEN Forced
                   ELSE IF reached /\ newest # NoBuild THEN newest ELSE CachedVersion IN
          /\ chosen' = [chosen EXCEPT ![a] = v]
          /\ UIGoto(a, IF v = NoBuild THEN "ended" ELSE "checking")
    /\ UNCHANGED <<zip, dist, marker, newest, uiCrashes>>

\* isCached
CheckCached(a) ==
    /\ preparing[a] = "checking"
    /\ UIGoto(a, IF CachedVersion = chosen[a] THEN "ended" ELSE "asking")
    /\ UNCHANGED <<zip, dist, marker, newest, chosen, uiCrashes>>

\* Mutant: the cache is emptied before the answer is known.
AskEmptied(a) ==
    /\ preparing[a] = "asking"
    /\ marker' = NoBuild
    /\ \/ UIGoto(a, "ended") /\ UNCHANGED zip
       \/ zip' = Torn /\ UIGoto(a, "downloading")
    /\ UNCHANGED <<dist, newest, chosen, uiCrashes>>

\* downloadFile throws on an answer that is not ok, or when the archive cannot be
\* opened, and leaves the cache alone; otherwise it starts to overwrite the archive.
Ask(a) ==
    /\ preparing[a] = "asking"
    /\ \/ UIGoto(a, "ended") /\ UNCHANGED zip
       \/ zip' = Torn /\ UIGoto(a, "downloading")
    /\ UNCHANGED <<dist, marker, newest, chosen, uiCrashes>>

\* The file has been removed meanwhile if another preparer has finished with it.
\* A write that fails (no space left) ends the preparation and leaves what there is.
Download(a) ==
    /\ preparing[a] = "downloading"
    /\ \/ /\ zip' = IF zip = NoBuild THEN NoBuild ELSE chosen[a]
          /\ UIGoto(a, "emptying")
       \/ UIGoto(a, "ended") /\ UNCHANGED zip
    /\ UNCHANGED <<dist, marker, newest, chosen, uiCrashes>>

\* extractFull writes file after file; it fails on an archive that is missing or
\* torn, and may fail for want of space.
Extract(a) ==
    /\ preparing[a] = "extracting"
    /\ \/ /\ zip \in Builds
          /\ \E part \in Parts : dist[part] # zip /\ dist' = [dist EXCEPT ![part] = zip]
          /\ UNCHANGED <<preparing, uiOverlap>>
       \/ UIGoto(a, "ended") /\ UNCHANGED dist
       \/ /\ zip \in Builds /\ \A part \in Parts : dist[part] = zip
          /\ UIGoto(a, "tidying")
          /\ UNCHANGED dist
    /\ UNCHANGED <<zip, marker, newest, chosen, uiCrashes>>

RemoveZip(a) ==
    /\ preparing[a] = "tidying"
    /\ zip' = NoBuild
    /\ UIGoto(a, "marking")
    /\ UNCHANGED <<dist, marker, newest, chosen, uiCrashes>>

\* writeVersionFile
WriteMarker(a) ==
    /\ preparing[a] = "marking"
    /\ marker' = chosen[a]
    /\ UIGoto(a, "ended")
    /\ UNCHANGED <<zip, dist, newest, chosen, uiCrashes>>

Publish ==
    /\ newest' \in Builds \ {newest}
    /\ UNCHANGED <<zip, dist, marker, preparing, chosen, uiCrashes, uiOverlap>>

\* The server stops anywhere, or an error of the download stream, which nothing
\* listens to, ends it; the files stay, and onModuleInit runs again.
CrashUI ==
    /\ uiCrashes < MaxUICrashes
    /\ uiCrashes' = uiCrashes + 1
    /\ preparing' = [a \in Preparers |-> IF a = Boot THEN "resolving"
                        ELSE IF preparing[a] = "idle" THEN "idle" ELSE "ended"]
    /\ UNCHANGED <<zip, dist, marker, newest, chosen, uiOverlap>>

WebUINext ==
    \/ \E a \in Preparers : WipeMarker(a) \/ WipeDist(a) \/ Resolve(a) \/ CheckCached(a)
                         \/ Ask(a) \/ Download(a) \/ Extract(a) \/ RemoveZip(a) \/ WriteMarker(a)
    \/ \E r \in UIRestarts : RestartUI(r)
    \/ Publish
    \/ CrashUI

WebUISpec == WebUIInit /\ [][WebUINext]_uiVars

(***************************************************************************)
(* Properties                                                              *)
(***************************************************************************)

\* The shape of the state; the version file names what is being prepared.
WebUITypeOK ==
    /\ zip \in Builds \cup {NoBuild, Torn}
    /\ dist \in [Parts -> Builds \cup {NoBuild}]
    /\ marker \in Builds \cup {NoBuild} /\ newest \in Builds \cup {NoBuild}
    /\ preparing \in [Preparers -> UIStages]
    /\ chosen \in [Preparers -> Builds \cup {NoBuild}]
    /\ \A a \in Preparers :
          preparing[a] \notin {"idle", "wiping", "sweeping", "resolving", "ended"}
             => chosen[a] # NoBuild
    /\ uiCrashes \in 0 .. MaxUICrashes /\ uiOverlap \in BOOLEAN

Whole(v) == \A part \in Parts : dist[part] = v

\* A build that the cache claims to hold is there with all its files, wherever
\* the server stops while it empties the cache or fills it: .version goes first
\* and comes last.  Two restarts at once are left out: one can wipe what the
\* other unpacks.
CachedBuildIsWhole ==
    ~uiOverlap /\ CachedVersion # NoBuild => Whole(CachedVersion)

\* A build that works is given up for an archive that has been downloaded, or
\* because an administrator restarts the web UI, but never because GitHub is out
\* of reach, as long as restarts come one at a time ("keeps serving the build that
\* is already cached", web-ui.service.ts:52).
WorkingBuildIsKept ==
    [][~uiOverlap' /\ CachedVersion # NoBuild /\ CachedVersion' # CachedVersion =>
          zip \in Builds \/ \E r \in UIRestarts : preparing[r] = "wiping"]_uiVars
=============================================================================
