------------------------------ MODULE Savefiles ------------------------------
(***************************************************************************)
(* Cloud saves of one user and one game: SavefileService                   *)
(* (src/src/modules/savefiles/savefile.service.ts).  Every pair of user and*)
(* game has a directory of its own, so one pair shows everything.  A save  *)
(* is a file named after the time of its upload and its installation.      *)
(***************************************************************************)
EXTENDS Integers, FiniteSets

CONSTANTS
    Uploads,            \* uploads of a save
    Deletions,          \* requests of the user to delete the saves
    InstallationOf,     \* InstallationOf[u]: installation of upload u
    MaxSaves,           \* SAVEFILES_MAX_SAVES; 0 keeps every save
    AuthenticationDisabled,     \* TESTING_AUTHENTICATION_DISABLED
    MaxClock,           \* bound: milliseconds that pass
    MaxSaveCrashes      \* bound: crashes of the process

SaveRequests == Uploads \cup Deletions
Installations == {InstallationOf[u] : u \in Uploads}
Save == [at : 0 .. MaxClock, by : Installations]

ASSUME SavefilesAssumption ==
    /\ Uploads \cap Deletions = {}
    /\ DOMAIN InstallationOf = Uploads
    /\ MaxSaves \in Nat
    /\ AuthenticationDisabled \in BOOLEAN
    /\ MaxClock \in Nat
    /\ MaxSaveCrashes \in Nat
    /\ IsFiniteSet(Uploads)

VARIABLES
    saves,      \* files in the directory
    clock,      \* Date.now()
    sreq,       \* requests
    cutOff,     \* history: no cleanup has ended since the last crash
    saveCrashes

crashVars == <<cutOff, saveCrashes>>
saveVars == <<saves, clock, sreq, cutOff, saveCrashes>>

\* save: path the upload is moved to; excess: saves to drop;
\* doomed: paths to remove.
SaveRequest == [pc : {"new", "moving", "counting", "trimming", "removing", "ended"},
                save : {{}} \cup {{s} : s \in Save},
                excess : Nat,
                doomed : SUBSET Save]

NewSaveRequest == [pc |-> "new", save |-> {}, excess |-> 0, doomed |-> {}]
EndedSaveRequest == [NewSaveRequest EXCEPT !.pc = "ended"]

SavefilesTypeOK ==
    /\ saves \subseteq Save
    /\ clock \in 0 .. MaxClock
    /\ sreq \in [SaveRequests -> SaveRequest]
    /\ cutOff \in BOOLEAN
    /\ saveCrashes \in 0 .. MaxSaveCrashes

\* The directory starts with at most as many saves as it may hold.
SavefilesInit ==
    /\ saves \in {S \in SUBSET {[at |-> 0, by |-> i] : i \in Installations} :
                     Cardinality(S) <= MaxSaves}
    /\ clock = 0
    /\ sreq = [r \in SaveRequests |-> NewSaveRequest]
    /\ cutOff = FALSE
    /\ saveCrashes = 0

SaveTick ==
    /\ clock < MaxClock
    /\ clock' = clock + 1
    /\ UNCHANGED <<saves, sreq, crashVars>>

\* findSavefilesByUserIdAndGameIdOrFail sorts by time, newest first; files of
\* one time come in the order of the directory.  These are the last k of it.
LastOf(S, k) ==
    IF k >= Cardinality(S) THEN {S}
    ELSE {D \in SUBSET S : /\ Cardinality(D) = k
                           /\ \A d \in D, s \in S \ D : d.at <= s.at}

(***************************************************************************)
(* upload.                                                                 *)
(***************************************************************************)

\* Permission, installation id and file type are checked; generateNewPath then
\* takes the time.
StampUpload(u) ==
    /\ sreq[u].pc = "new"
    /\ \/ sreq' = [sreq EXCEPT ![u].pc = "moving",
                    ![u].save = {[at |-> clock, by |-> InstallationOf[u]]}]
       \/ sreq' = [sreq EXCEPT ![u] = EndedSaveRequest]
    /\ UNCHANGED <<saves, clock, crashVars>>

\* saveToFileSystem: an upload of the same time and installation is overwritten.
MoveUpload(u) ==
    /\ sreq[u].pc = "moving"
    /\ saves' = saves \cup sreq[u].save
    /\ sreq' = IF MaxSaves = 0 THEN [sreq EXCEPT ![u] = EndedSaveRequest]
               ELSE [sreq EXCEPT ![u].pc = "counting", ![u].save = {}]
    /\ UNCHANGED <<clock, crashVars>>

\* History: an upload that has cleaned up makes good for those a crash cut off.
CleanedUp(r) == cutOff' = (cutOff /\ ~(r \in Uploads /\ sreq'[r].pc = "ended"))

\* Mutant: one save too many is tolerated.
CountSavesTolerant(u) ==
    LET excess == Cardinality(saves) - MaxSaves - 1 IN
    /\ sreq[u].pc = "counting"
    /\ sreq' = IF excess <= 0 THEN [sreq EXCEPT ![u] = EndedSaveRequest]
               ELSE [sreq EXCEPT ![u].pc = "trimming", ![u].excess = excess]
    /\ CleanedUp(u)
    /\ UNCHANGED <<saves, clock, saveCrashes>>

\* Mutant: cleanup goes on when there is nothing to clean up.
CountSavesUnchecked(u) ==
    /\ sreq[u].pc = "counting"
    /\ sreq' = [sreq EXCEPT ![u].pc = "trimming", ![u].excess = Cardinality(saves) - MaxSaves]
    /\ UNCHANGED <<saves, clock, crashVars>>

\* cleanupOldSaves counts the saves.
CountSaves(u) ==
    LET excess == Cardinality(saves) - MaxSaves IN
    /\ sreq[u].pc = "counting"
    /\ sreq' = IF excess <= 0 THEN [sreq EXCEPT ![u] = EndedSaveRequest]
               ELSE [sreq EXCEPT ![u].pc = "trimming", ![u].excess = excess]
    /\ CleanedUp(u)
    /\ UNCHANGED <<saves, clock, saveCrashes>>

\* delete(..., last) lists the saves again and takes the last ones; without any
\* save findSavefiles fails and the error is logged.
TrimSaves(u) ==
    /\ sreq[u].pc = "trimming"
    /\ \E doomed \in LastOf(saves, sreq[u].excess) :
          sreq' = [sreq EXCEPT ![u] =
             IF doomed = {} THEN EndedSaveRequest
             ELSE [@ EXCEPT !.pc = "removing", !.excess = 0, !.doomed = doomed]]
    /\ CleanedUp(u)
    /\ UNCHANGED <<saves, clock, saveCrashes>>

\* The files go one by one, in any order; one that is gone already is no error.
RemoveSave(r) ==
    /\ sreq[r].pc = "removing"
    /\ \E s \in sreq[r].doomed :
          /\ saves' = saves \ {s}
          /\ sreq' = [sreq EXCEPT ![r] = IF sreq[r].doomed = {s} THEN EndedSaveRequest
                                        ELSE [sreq[r] EXCEPT !.doomed = @ \ {s}]]
    /\ CleanedUp(r)
    /\ UNCHANGED <<clock, saveCrashes>>

(***************************************************************************)
(* delete, as a request of the user.  The route names no executor, so the  *)
(* request is refused unless authentication is disabled.  download only    *)
(* reads.                                                                  *)
(***************************************************************************)
ListForDeletion(r) ==
    /\ sreq[r].pc = "new"
    /\ sreq' = [sreq EXCEPT ![r] =
          IF ~AuthenticationDisabled \/ saves = {} THEN EndedSaveRequest
          ELSE [@ EXCEPT !.pc = "removing", !.doomed = saves]]
    /\ UNCHANGED <<saves, clock, crashVars>>

\* The process dies: the requests end where they are, the files stay.
SaveCrash ==
    /\ saveCrashes < MaxSaveCrashes
    /\ saveCrashes' = saveCrashes + 1
    /\ sreq' = [r \in SaveRequests |-> IF sreq[r].pc = "new" THEN sreq[r] ELSE EndedSaveRequest]
    /\ cutOff' = (cutOff \/ \E u \in Uploads :
                     sreq[u].pc \in {"counting", "trimming", "removing"})
    /\ UNCHANGED <<saves, clock>>

SavefilesNext ==
    \/ SaveTick \/ SaveCrash
    \/ \E u \in Uploads : StampUpload(u) \/ MoveUpload(u) \/ CountSaves(u) \/ TrimSaves(u)
    \/ \E r \in SaveRequests : RemoveSave(r)
    \/ \E r \in Deletions : ListForDeletion(r)

SavefilesSpec == SavefilesInit /\ [][SavefilesNext]_saveVars

(***************************************************************************)
(* Properties.                                                             *)
(***************************************************************************)

\* When no request is under way the directory holds at most MaxSaves saves, in
\* whatever order uploads, their cleanups and deletions interleaved.  Saves that
\* a crash kept from being cleaned up go with the next upload.
SavesBounded ==
    MaxSaves > 0 /\ ~cutOff /\ (\A r \in SaveRequests : sreq[r].pc \in {"new", "ended"})
       => Cardinality(saves) <= MaxSaves

\* Cleanup removes saves beyond the maximum only: each save it removes has
\* MaxSaves saves left that are at least as new.
CleansUpBeyondMaximum ==
    [][\A u \in Uploads : sreq[u].pc = "removing" /\ sreq'[u] # sreq[u] =>
          \A s \in saves \ saves' : Cardinality({t \in saves' : t.at >= s.at}) >= MaxSaves
      ]_saveVars
=============================================================================
