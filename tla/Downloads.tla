------------------------------ MODULE Downloads ------------------------------
(***************************************************************************)
(* Downloads: FilesService.download with the temporary archives under /tmp *)
(* (src/src/modules/games/files.service.ts) and the one-time passwords of  *)
(* OtpService (src/src/modules/otp/otp.service.ts).                        *)
(*                                                                         *)
(* A version that is not an archive is packed by 7-Zip into /tmp/<game>.tar*)
(* on the first request; requests that find the file there reuse it, and a *)
(* timer removes it a day after the last request.  One action is what one  *)
(* request does between two awaits.  Ranges and speed limits only shape    *)
(* the stream and are left out.                                            *)
(***************************************************************************)
EXTENDS Integers, FiniteSets

CONSTANTS
    Games,
    Versions,
    GameOf,         \* GameOf[v]: the game of version v
    Archives,       \* versions whose file already is an archive
    Requests,       \* download requests; each also names the OTP it creates
    MaxRestarts     \* bound: crashes of the process

ASSUME DownloadsAssumption ==
    /\ GameOf \in [Versions -> Games]
    /\ Archives \subseteq Versions
    /\ MaxRestarts \in Nat

VARIABLES
    tar,            \* tar[g]: /tmp/<g>.tar
    timer,          \* games whose deletion timer is armed
    firing,         \* games whose deletion callback has fired and not yet removed
    orphaned,       \* history: games whose archive outlived a crash, untouched since
    req,            \* requests
    count,          \* count[g]: column download_count
    served,         \* history: downloads of g that reached the stream
    otp,            \* otp[r]: the one-time password request r created
    uses,           \* history: downloads started with otp r
    restarts

archiveVars == <<tar, timer, firing, orphaned>>
countVars == <<count, served>>
otpVars == <<otp, uses>>
vars == <<tar, timer, firing, orphaned, req, count, served, otp, uses, restarts>>

NoTar == [st |-> "absent", of |-> {}]

\* of: the versions packed into the archive, or into its half-written file.
TarType == [st : {"absent", "partial", "complete"}, of : SUBSET Versions]

\* v: version asked for; seen: the count when the game was read; sent: the
\* archive the stream was opened on.
ReqType == [pc : {"new", "finding", "probing", "packing", "archiving", "checking",
                  "streaming", "ended"},
            v : Versions, seen : Nat, sent : TarType]

TypeOK ==
    /\ tar \in [Games -> TarType]
    /\ timer \subseteq Games
    /\ firing \subseteq Games
    /\ orphaned \subseteq Games
    /\ req \in [Requests -> ReqType]
    /\ count \in [Games -> Nat]
    /\ served \in [Games -> Nat]
    /\ otp \in [Requests -> {"none", "live", "gone"}]
    /\ uses \in [Requests -> Nat]
    /\ restarts \in 0 .. MaxRestarts

Init ==
    /\ tar = [g \in Games |-> NoTar]
    /\ timer = {}
    /\ firing = {}
    /\ orphaned = {}
    /\ req \in [Requests -> {[pc |-> "new", v |-> v, seen |-> 0, sent |-> NoTar] :
                                v \in Versions}]
    /\ count = [g \in Games |-> 0]
    /\ served = [g \in Games |-> 0]
    /\ otp = [r \in Requests |-> "none"]
    /\ uses = [r \in Requests |-> 0]
    /\ restarts = 0

Game(r) == GameOf[req[r].v]
Goto(r, pc) == req' = [req EXCEPT ![r].pc = pc]
Ended(r) == [req[r] EXCEPT !.pc = "ended", !.seen = 0, !.sent = NoTar]
End(r) == req' = [req EXCEPT ![r] = Ended(r)]
On(g, pcs) == {r \in Requests : Game(r) = g /\ req[r].pc \in pcs}

(***************************************************************************)
(* Starting a download, with a session or with a one-time password.        *)
(***************************************************************************)

\* downloadGameVersion: hands out a password for this version, then downloads.
Begin(r) ==
    /\ req[r].pc = "new"
    /\ otp' = [otp EXCEPT ![r] = "live"]
    /\ Goto(r, "finding")
    /\ UNCHANGED <<archiveVars, countVars, uses, restarts>>

\* Mutant: the password is forgotten by cleanup only.
RedeemKeepingOtp(r, o) ==
    /\ req[r].pc = "new"
    /\ otp[o] = "live"
    /\ uses' = [uses EXCEPT ![o] = @ + 1]
    /\ req' = [req EXCEPT ![r].pc = "finding", ![r].v = req[o].v]
    /\ UNCHANGED <<archiveVars, countVars, otp, restarts>>

\* OtpService.get: the password goes before its download starts, in one
\* synchronous block.
Redeem(r, o) ==
    /\ req[r].pc = "new"
    /\ otp[o] = "live"
    /\ otp' = [otp EXCEPT ![o] = "gone"]
    /\ uses' = [uses EXCEPT ![o] = @ + 1]
    /\ req' = [req EXCEPT ![r].pc = "finding", ![r].v = req[o].v]
    /\ UNCHANGED <<archiveVars, countVars, restarts>>

\* Five minutes pass: get refuses the password from now on, and cleanup, every
\* five minutes, forgets it.
Expire(o) ==
    /\ otp[o] = "live"
    /\ otp' = [otp EXCEPT ![o] = "gone"]
    /\ UNCHANGED <<archiveVars, countVars, req, uses, restarts>>

(***************************************************************************)
(* download.                                                               *)
(***************************************************************************)

\* Mutant: the count is the number of downloads the request has seen, plus the
\* one it takes for granted.
FindCountingTwice(r) ==
    /\ req[r].pc = "finding"
    /\ req' = [req EXCEPT ![r].seen = count[Game(r)] + 1,
                          ![r].pc = IF req[r].v \in Archives THEN "checking" ELSE "probing"]
    /\ UNCHANGED <<archiveVars, countVars, otpVars, restarts>>

\* Mutant: the request takes the count for one that includes its own download.
FindOffByOne(r) ==
    /\ req[r].pc = "finding"
    /\ req' = [req EXCEPT ![r].seen = count[Game(r)] - 1,
                          ![r].pc = IF req[r].v \in Archives THEN "checking" ELSE "probing"]
    /\ UNCHANGED <<archiveVars, countVars, otpVars, restarts>>

\* Reads the game and resolves the version, which may be gone.
Find(r) ==
    /\ req[r].pc = "finding"
    /\ \/ req' = [req EXCEPT ![r].seen = count[Game(r)],
                             ![r].pc = IF req[r].v \in Archives THEN "checking" ELSE "probing"]
       \/ End(r)
    /\ UNCHANGED <<archiveVars, countVars, otpVars, restarts>>

\* scheduleTmpFileDeletion: a timer that is armed starts over.
ArmTimer(g) ==
    /\ timer' = timer \cup {g}
    /\ orphaned' = orphaned \ {g}

\* Is there an archive of the game already?  Of which version is not asked.
Probe(r) ==
    /\ req[r].pc = "probing"
    /\ IF tar[Game(r)].st = "absent"
       THEN Goto(r, "packing") /\ UNCHANGED <<timer, orphaned>>
       ELSE Goto(r, "checking") /\ ArmTimer(Game(r))
    /\ UNCHANGED <<tar, firing, countVars, otpVars, restarts>>

\* archive: 7-Zip starts to write, into whatever is at the path by now; or the
\* source is gone and the request fails.
BeginArchive(r) ==
    LET g == Game(r) IN
    /\ req[r].pc = "packing"
    /\ \/ /\ tar' = [tar EXCEPT ![g] = [st |-> "partial", of |-> @.of \cup {req[r].v}]]
          /\ Goto(r, "archiving")
       \/ /\ End(r)
          /\ UNCHANGED tar
    /\ UNCHANGED <<timer, firing, orphaned, countVars, otpVars, restarts>>

\* Mutant: the request that packed the archive leaves it to others to arm the timer.
EndArchiveWithoutTimer(r) ==
    LET g == Game(r) IN
    /\ req[r].pc = "archiving"
    /\ tar' = [tar EXCEPT ![g].st =
          IF @ = "partial" /\ On(g, {"archiving"}) = {r} THEN "complete" ELSE @]
    /\ Goto(r, "checking")
    /\ UNCHANGED <<timer, firing, orphaned, countVars, otpVars, restarts>>

\* 7-Zip is done.  The file is whole when nobody else writes it; it stays away
\* when it was removed under the writer.
EndArchive(r) ==
    LET g == Game(r) IN
    /\ req[r].pc = "archiving"
    /\ tar' = [tar EXCEPT ![g].st =
          IF @ = "partial" /\ On(g, {"archiving"}) = {r} THEN "complete" ELSE @]
    /\ ArmTimer(g)
    /\ Goto(r, "checking")
    /\ UNCHANGED <<firing, countVars, otpVars, restarts>>

\* The file may be gone: the timer, or another archiver's error, removed it.
\* Otherwise the stream is opened on it.  A version that is an archive has a
\* file of its own.
Check(r) ==
    LET own == [st |-> "complete", of |-> {req[r].v}]
        file == IF req[r].v \in Archives THEN own ELSE tar[Game(r)] IN
    /\ req[r].pc = "checking"
    /\ \/ /\ file.st # "absent"
          /\ req' = [req EXCEPT ![r].pc = "streaming", ![r].sent = file]
          /\ served' = [served EXCEPT ![Game(r)] = @ + 1]
       \/ /\ file.st = "absent" \/ req[r].v \in Archives
          /\ End(r)
          /\ UNCHANGED served
    /\ UNCHANGED <<archiveVars, count, otpVars, restarts>>

\* Writes back the count read at the start, plus one.
Count(r) ==
    /\ req[r].pc = "streaming"
    /\ count' = [count EXCEPT ![Game(r)] = req[r].seen + 1]
    /\ End(r)
    /\ UNCHANGED <<archiveVars, served, otpVars, restarts>>

(***************************************************************************)
(* The deletion timer.                                                     *)
(***************************************************************************)
Fire(g) ==
    /\ g \in timer
    /\ timer' = timer \ {g}
    /\ firing' = firing \cup {g}
    /\ UNCHANGED <<tar, orphaned, req, countVars, otpVars, restarts>>

\* Mutant: the callback gives up when a request uses the archive.
RemoveWhenIdle(g) ==
    /\ g \in firing
    /\ firing' = firing \ {g}
    /\ tar' = IF On(g, {"checking", "streaming"}) = {} THEN [tar EXCEPT ![g] = NoTar] ELSE tar
    /\ UNCHANGED <<timer, orphaned, req, countVars, otpVars, restarts>>

Remove(g) ==
    /\ g \in firing
    /\ firing' = firing \ {g}
    /\ tar' = [tar EXCEPT ![g] = NoTar]
    /\ UNCHANGED <<timer, orphaned, req, countVars, otpVars, restarts>>

(***************************************************************************)
(* Failures.                                                               *)
(***************************************************************************)

\* The process dies: /tmp and the tables stay.
Crash ==
    /\ restarts < MaxRestarts
    /\ restarts' = restarts + 1
    /\ timer' = {}
    /\ firing' = {}
    /\ orphaned' = {g \in Games : tar[g].st # "absent"}
    /\ req' = [r \in Requests |-> IF req[r].pc = "new" THEN req[r] ELSE Ended(r)]
    /\ otp' = [o \in Requests |-> IF otp[o] = "none" THEN "none" ELSE "gone"]
    /\ UNCHANGED <<tar, countVars, uses>>

\* 7-Zip fails after it made the file: the file is removed, the request fails.
\* When there is no file to remove, nobody catches the error of rm and the
\* process dies.
FailArchive(r) ==
    LET g == Game(r) IN
    /\ req[r].pc = "archiving"
    /\ IF tar[g].st = "absent"
       THEN Crash
       ELSE /\ tar' = [tar EXCEPT ![g] = NoTar]
            /\ End(r)
            /\ UNCHANGED <<timer, firing, orphaned, countVars, otpVars, restarts>>

Download(r) ==
    \/ Find(r) \/ Probe(r) \/ BeginArchive(r) \/ EndArchive(r) \/ FailArchive(r)
    \/ Check(r) \/ Count(r)

Next ==
    \/ \E r \in Requests : Begin(r) \/ Download(r)
    \/ \E r, o \in Requests : Redeem(r, o)
    \/ \E o \in Requests : Expire(o)
    \/ \E g \in Games : Fire(g) \/ Remove(g)
    \/ Crash

\* A download that started goes on, and timers fire.  Users need not ask.
Fairness ==
    /\ \A r \in Requests : WF_vars(Download(r))
    /\ \A g \in Games : WF_vars(Fire(g)) /\ WF_vars(Remove(g))

Spec == Init /\ [][Next]_vars
FairSpec == Spec /\ Fairness

(***************************************************************************)
(* Properties.                                                             *)
(***************************************************************************)

\* A one-time password starts at most one download (OtpService.get).
OtpSingleUse == \A o \in Requests : uses[o] <= 1

\* What becomes of a password, in the words of the abstract specification.
TicketOf == [none |-> "unissued", live |-> "live", gone |-> "void"]

Promise == INSTANCE OneTimePasswords
    WITH Passwords <- Requests,
         ticket <- [o \in Requests |-> TicketOf[otp[o]]],
         downloads <- uses

\* Passwords keep the promise of OneTimePasswords: OtpService.get lets the
\* password go in the same step in which its download starts, and neither
\* expiry, cleanup nor a crash brings one back.
KeepsPromise == Promise!Spec

\* The download_count of a game never exceeds the downloads that reached the
\* stream, although concurrent downloads write back counts they read earlier.
NeverOvercounts == \A g \in Games : count[g] <= served[g]

\* While an archive lies in /tmp some request or timer of this process is in
\* charge of its removal, unless it was left behind by a crash.
TarHasOwner == \A g \in Games :
    tar[g].st # "absent" /\ g \notin orphaned
       => g \in timer \cup firing \/ On(g, {"archiving"}) # {}

\* Archives are removed from /tmp again, unless a crash leaves them behind.
TarReclaimed == \A g \in Games :
    tar[g].st # "absent" ~> tar[g].st = "absent" \/ g \in orphaned

\* Downloads exactly one version of a game: what is streamed is the whole of
\* the version the request asked for.
ServesRequested == \A r \in Requests :
    req[r].pc = "streaming" =>
       req[r].sent.st = "complete" /\ req[r].sent.of = {req[r].v}
=============================================================================
