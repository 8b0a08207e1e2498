---------------------------- MODULE DownloadsProofs ----------------------------
(***************************************************************************)
(* Proofs about module Downloads, for every set of games, versions and     *)
(* requests.                                                               *)
(***************************************************************************)
EXTENDS Downloads, TLAPS

(***************************************************************************)
(* Type correctness.                                                       *)
(***************************************************************************)
LEMMA DownloadsInitTypeOK == Init => TypeOK
<1> SUFFICES ASSUME Init PROVE TypeOK
  OBVIOUS
<1> USE DownloadsAssumption DEF DownloadsAssumption, Init, TypeOK, NoTar, TarType
<1>1. req \in [Requests -> ReqType]
  BY DEF ReqType
<1> QED
  BY <1>1

\* The game of a request and its ended form have their types.
LEMMA RequestTypes ==
    ASSUME TypeOK, NEW r \in Requests
    PROVE  /\ req[r] \in ReqType
           /\ Game(r) \in Games
           /\ Ended(r) \in ReqType
<1>1. req[r] \in ReqType
  BY DEF TypeOK
<1>2. Game(r) \in Games
  BY <1>1, DownloadsAssumption DEF Game, ReqType, DownloadsAssumption
<1>3. NoTar \in TarType
  BY DEF NoTar, TarType
<1>4. Ended(r) \in ReqType
  BY <1>1, <1>3 DEF Ended, ReqType
<1> QED
  BY <1>1, <1>2, <1>4

\* How the two steps of a request change it.
LEMMA RequestSteps ==
    ASSUME TypeOK, NEW r \in Requests
    PROVE  /\ End(r) => /\ req'[r].pc = "ended"
                        /\ \A o \in Requests \ {r} : req'[o] = req[o]
           /\ \A pc : Goto(r, pc) => /\ req'[r].pc = pc
                                     /\ req'[r].v = req[r].v
                                     /\ req'[r].seen = req[r].seen
                                     /\ \A o \in Requests \ {r} : req'[o] = req[o]
<1>1. req[r] \in ReqType /\ DOMAIN req = Requests
  BY DEF TypeOK
<1>2. ASSUME End(r) PROVE req'[r].pc = "ended"
  <2>1. Ended(r).pc = "ended"
    BY <1>1 DEF Ended, ReqType
  <2> QED
    BY <1>1, <1>2, <2>1 DEF End, TypeOK
<1>3. ASSUME End(r) PROVE \A o \in Requests \ {r} : req'[o] = req[o]
  BY <1>3 DEF End, TypeOK
<1>4. ASSUME NEW pc, Goto(r, pc)
      PROVE  /\ req'[r].pc = pc
             /\ req'[r].v = req[r].v
             /\ req'[r].seen = req[r].seen
             /\ \A o \in Requests \ {r} : req'[o] = req[o]
  BY <1>1, <1>4 DEF Goto, TypeOK, ReqType
<1> QED
  BY <1>2, <1>3, <1>4

LEMMA CrashTypeOK == ASSUME TypeOK, Crash PROVE TypeOK'
<1>1. req' \in [Requests -> ReqType]
  BY RequestTypes DEF TypeOK, Crash
<1>2. otp' \in [Requests -> {"none", "live", "gone"}]
  BY DEF TypeOK, Crash
<1> QED
  BY <1>1, <1>2, DownloadsAssumption DEF TypeOK, Crash, DownloadsAssumption, countVars

LEMMA DownloadTypeOK ==
    ASSUME TypeOK, NEW r \in Requests, Download(r)
    PROVE  TypeOK'
<1> USE DownloadsAssumption, RequestTypes
    DEF DownloadsAssumption, archiveVars, countVars, otpVars
<1>0. ASSUME End(r) PROVE req' \in [Requests -> ReqType]
  BY <1>0 DEF End, TypeOK
<1>00. ASSUME NEW pc \in {"packing", "archiving", "checking"}, Goto(r, pc)
       PROVE  req' \in [Requests -> ReqType]
  BY <1>00 DEF Goto, TypeOK, ReqType
<1>1. CASE Find(r)
  <2>1. req' \in [Requests -> ReqType]
    <3>1. CASE End(r)
      BY <1>0, <3>1
    <3>2. CASE ~End(r)
      <4>1. count[Game(r)] \in Nat
        BY DEF TypeOK
      <4> QED
        BY <1>1, <3>2, <4>1 DEF Find, TypeOK, ReqType
    <3> QED
      BY <3>1, <3>2
  <2> QED
    BY <1>1, <2>1 DEF Find, TypeOK
<1>2. CASE Probe(r)
  BY <1>00, <1>2 DEF Probe, ArmTimer, TypeOK
<1>3. CASE BeginArchive(r)
  <2>1. req' \in [Requests -> ReqType]
    BY <1>0, <1>00, <1>3 DEF BeginArchive
  <2>2. tar' \in [Games -> TarType]
    <3>1. Game(r) \in Games /\ req[r].v \in Versions
      BY DEF ReqType
    <3>2. tar[Game(r)].of \cup {req[r].v} \in SUBSET Versions
      BY <3>1 DEF TypeOK, TarType
    <3>3. [st |-> "partial", of |-> tar[Game(r)].of \cup {req[r].v}] \in TarType
      BY <3>2 DEF TarType
    <3> QED
      BY <1>3, <3>1, <3>3 DEF BeginArchive, TypeOK
  <2> QED
    BY <1>3, <2>1, <2>2 DEF BeginArchive, TypeOK
<1>4. CASE EndArchive(r)
  <2>1. req' \in [Requests -> ReqType]
    BY <1>00, <1>4 DEF EndArchive
  <2>2. tar' \in [Games -> TarType]
    BY <1>4, SMTT(30) DEF EndArchive, TypeOK, TarType
  <2> QED
    BY <1>4, <2>1, <2>2 DEF EndArchive, ArmTimer, TypeOK
<1>5. CASE FailArchive(r)
  BY <1>0, <1>5, CrashTypeOK DEF FailArchive, TypeOK, NoTar, TarType
<1>6. CASE Check(r)
  <2>1. req' \in [Requests -> ReqType]
    <3>1. CASE End(r)
      BY <1>0, <3>1
    <3>2. CASE ~End(r)
      <4> DEFINE own == [st |-> "complete", of |-> {req[r].v}]
                 file == IF req[r].v \in Archives THEN own ELSE tar[Game(r)]
      <4>1. own \in TarType
        BY DEF ReqType, TarType
      <4>2. file \in TarType
        BY <4>1 DEF TypeOK
      <4>3. req' = [req EXCEPT ![r].pc = "streaming", ![r].sent = file]
        BY <1>6, <3>2 DEF Check
      <4> HIDE DEF file
      <4>4. [req[r] EXCEPT !.pc = "streaming", !.sent = file] \in ReqType
        BY <4>2 DEF ReqType
      <4> QED
        BY <4>3, <4>4 DEF TypeOK
    <3> QED
      BY <3>1, <3>2
  <2>2. served' \in [Games -> Nat]
    BY <1>6 DEF Check, TypeOK
  <2> QED
    BY <1>6, <2>1, <2>2 DEF Check, TypeOK
<1>7. CASE Count(r)
  <2>1. count' \in [Games -> Nat]
    BY <1>7 DEF Count, TypeOK, ReqType
  <2> QED
    BY <1>0, <1>7, <2>1 DEF Count, TypeOK
<1> QED
  BY <1>1, <1>2, <1>3, <1>4, <1>5, <1>6, <1>7 DEF Download

LEMMA DownloadsNextTypeOK == TypeOK /\ [Next]_vars => TypeOK'
<1> SUFFICES ASSUME TypeOK, [Next]_vars PROVE TypeOK'
  OBVIOUS
<1> USE DownloadsAssumption, RequestTypes
    DEF DownloadsAssumption, archiveVars, countVars, otpVars
<1>1. ASSUME NEW r \in Requests, Begin(r) PROVE TypeOK'
  BY <1>1 DEF Begin, Goto, TypeOK, ReqType
<1>2. ASSUME NEW r \in Requests, NEW o \in Requests, Redeem(r, o) PROVE TypeOK'
  <2>1. req' \in [Requests -> ReqType]
    BY <1>2, ZenonT(60) DEF Redeem, TypeOK, ReqType
  <2> QED
    BY <1>2, <2>1 DEF Redeem, TypeOK
<1>3. ASSUME NEW o \in Requests, Expire(o) PROVE TypeOK'
  BY <1>3 DEF Expire, TypeOK
<1>4. ASSUME NEW g \in Games, Fire(g) \/ Remove(g) PROVE TypeOK'
  BY <1>4 DEF Fire, Remove, TypeOK, NoTar, TarType
<1>5. CASE UNCHANGED vars
  BY <1>5 DEF vars, TypeOK
<1> QED
  BY <1>1, <1>2, <1>3, <1>4, <1>5, CrashTypeOK, DownloadTypeOK DEF Next

\* Requests, timers, archives and counts keep their types.
THEOREM DownloadsTypeCorrect == Spec => []TypeOK
BY DownloadsInitTypeOK, DownloadsNextTypeOK, PTL DEF Spec

(***************************************************************************)
(* One-time passwords.                                                     *)
(***************************************************************************)

\* A request that has not begun has handed out no password, and a password that
\* is not yet used up started no download.
OtpInv == \A o \in Requests :
    /\ req[o].pc = "new" => otp[o] = "none"
    /\ otp[o] \in {"none", "live"} => uses[o] = 0
    /\ uses[o] <= 1

LEMMA OtpStep == TypeOK /\ OtpInv /\ [Next]_vars => OtpInv'
<1> SUFFICES ASSUME TypeOK, OtpInv, [Next]_vars PROVE OtpInv'
  OBVIOUS
<1> USE DEF archiveVars, countVars, otpVars
<1>0. \A r \in Requests : uses[r] \in Nat /\ req[r] \in ReqType
  BY DEF TypeOK
<1>1. ASSUME NEW r \in Requests, Begin(r) PROVE OtpInv'
  BY <1>0, <1>1 DEF Begin, Goto, TypeOK, OtpInv, ReqType
<1>2. ASSUME NEW r \in Requests, NEW o \in Requests, Redeem(r, o) PROVE OtpInv'
  BY <1>0, <1>2 DEF Redeem, TypeOK, OtpInv, ReqType
<1>3. ASSUME NEW o \in Requests, Expire(o) PROVE OtpInv'
  BY <1>0, <1>3 DEF Expire, TypeOK, OtpInv
<1>4. ASSUME NEW g \in Games, Fire(g) \/ Remove(g) PROVE OtpInv'
  BY <1>4 DEF Fire, Remove, OtpInv
<1>5. CASE Crash
  <2>1. \A o \in Requests : req'[o].pc = "new" => req[o].pc = "new"
    BY <1>0, <1>5 DEF Crash, Ended, ReqType
  <2> QED
    BY <1>5, <2>1 DEF Crash, OtpInv
<1>6. ASSUME NEW r \in Requests, Download(r), ~Crash PROVE OtpInv'
  <2>1. UNCHANGED otpVars
    BY <1>6 DEF Download, Find, Probe, BeginArchive, EndArchive, FailArchive, Check, Count
  <2>2. /\ req'[r].pc # "new"
        /\ \A o \in Requests \ {r} : req'[o] = req[o]
    <3>1. CASE Find(r) \/ Check(r)
      <4>1. CASE End(r)
        BY <4>1, RequestSteps
      <4>2. CASE ~End(r)
        BY <1>0, <3>1, <4>2 DEF Find, Check, TypeOK, ReqType
      <4> QED
        BY <4>1, <4>2
    <3>2. CASE Probe(r) \/ BeginArchive(r) \/ EndArchive(r) \/ FailArchive(r) \/ Count(r)
      BY <1>6, <3>2, RequestSteps DEF Probe, BeginArchive, EndArchive, FailArchive, Count
    <3> QED
      BY <1>6, <3>1, <3>2 DEF Download
  <2> QED
    BY <2>1, <2>2 DEF OtpInv
<1>7. CASE UNCHANGED vars
  BY <1>7 DEF vars, OtpInv
<1> QED
  BY <1>1, <1>2, <1>3, <1>4, <1>5, <1>6, <1>7 DEF Next

\* A one-time password starts at most one download, whatever other requests,
\* expiries and crashes do.
THEOREM OtpUsedOnce == Spec => []OtpSingleUse
<1>1. Init => OtpInv
  BY DEF Init, OtpInv
<1>2. OtpInv => OtpSingleUse
  BY DEF OtpInv, OtpSingleUse
<1> QED
  BY <1>1, <1>2, OtpStep, DownloadsTypeCorrect, PTL DEF Spec

(***************************************************************************)
(* Archives in /tmp.                                                       *)
(***************************************************************************)
LEMMA OwnerStep == TypeOK /\ TarHasOwner /\ [Next]_vars => TarHasOwner'
<1> SUFFICES ASSUME TypeOK, TarHasOwner, [Next]_vars PROVE TarHasOwner'
  OBVIOUS
<1> USE DEF archiveVars, countVars, otpVars
<1>0. \A r \in Requests : req[r] \in ReqType /\ Game(r) \in Games
  BY RequestTypes
\* A request that is archiving goes on archiving its game unless it ends that.
<1>00. ASSUME NEW r \in Requests, NEW g \in Games, tar' = tar, timer' = timer,
              firing' = firing, orphaned' = orphaned,
              req[r].pc # "archiving" \/ req'[r] = req[r],
              \A o \in Requests \ {r} : req'[o] = req[o],
              tar[g].st # "absent", g \notin orphaned
       PROVE  g \in timer' \cup firing' \/ On(g, {"archiving"})' # {}
  BY <1>00 DEF TarHasOwner, On, Game
<1>1. ASSUME NEW r \in Requests, Begin(r) PROVE TarHasOwner'
  <2>1. /\ req[r].pc # "archiving"
        /\ \A o \in Requests \ {r} : req'[o] = req[o]
        /\ UNCHANGED archiveVars
    BY <1>1 DEF Begin, Goto, TypeOK
  <2> QED
    BY <1>00, <2>1 DEF TarHasOwner
<1>2. ASSUME NEW r \in Requests, NEW o \in Requests, Redeem(r, o) PROVE TarHasOwner'
  <2>1. /\ req[r].pc # "archiving"
        /\ \A q \in Requests \ {r} : req'[q] = req[q]
        /\ UNCHANGED archiveVars
    BY <1>2 DEF Redeem, TypeOK
  <2> QED
    BY <1>00, <2>1 DEF TarHasOwner
<1>3. ASSUME NEW o \in Requests, Expire(o) PROVE TarHasOwner'
  BY <1>3 DEF Expire, TarHasOwner, On, Game
<1>4. ASSUME NEW g \in Games, Fire(g) PROVE TarHasOwner'
  BY <1>4 DEF Fire, TarHasOwner, On, Game
<1>5. ASSUME NEW g \in Games, Remove(g) PROVE TarHasOwner'
  BY <1>5 DEF Remove, TarHasOwner, On, Game, TypeOK, NoTar
<1>6. CASE Crash
  BY <1>6 DEF Crash, TarHasOwner
<1>7. ASSUME NEW r \in Requests, Find(r) \/ Check(r) \/ Count(r) PROVE TarHasOwner'
  <2>1. /\ req[r].pc # "archiving"
        /\ \A o \in Requests \ {r} : req'[o] = req[o]
        /\ UNCHANGED archiveVars
    BY <1>7 DEF Find, Check, Count, End, Goto, TypeOK
  <2> QED
    BY <1>00, <2>1 DEF TarHasOwner
<1>8. ASSUME NEW r \in Requests, Probe(r) PROVE TarHasOwner'
  <2>1. /\ req[r].pc # "archiving"
        /\ \A o \in Requests \ {r} : req'[o] = req[o]
        /\ UNCHANGED <<tar, firing>>
        /\ \/ UNCHANGED <<timer, orphaned>>
           \/ timer' = timer \cup {Game(r)} /\ orphaned' = orphaned \ {Game(r)}
    BY <1>8 DEF Probe, Goto, ArmTimer, TypeOK
  <2>2. \A g \in Games : On(g, {"archiving"}) \subseteq On(g, {"archiving"})'
    BY <2>1 DEF On, Game
  <2> QED
    BY <2>1, <2>2 DEF TarHasOwner
<1>9. ASSUME NEW r \in Requests, BeginArchive(r) PROVE TarHasOwner'
  <2>1. /\ req[r].pc # "archiving"
        /\ \A o \in Requests \ {r} : req'[o] = req[o]
        /\ UNCHANGED <<timer, firing, orphaned>>
    BY <1>9 DEF BeginArchive, Goto, End, TypeOK
  <2>2. CASE tar' = tar
    BY <1>00, <2>1, <2>2 DEF TarHasOwner
  <2>3. CASE tar' # tar
    <3>1. req' = [req EXCEPT ![r].pc = "archiving"]
      BY <1>9, <2>3 DEF BeginArchive, Goto
    <3>2. \A g \in Games : g = Game(r) => r \in On(g, {"archiving"})'
      <4>1. Goto(r, "archiving")
        BY <3>1 DEF Goto
      <4>2. req'[r].pc = "archiving" /\ req'[r].v = req[r].v
        BY <4>1, RequestSteps
      <4> QED
        BY <4>2 DEF On, Game
    <3>3. \A g \in Games \ {Game(r)} : tar'[g] = tar[g]
      BY <1>9, <2>3 DEF BeginArchive, TypeOK
    <3>4. \A g \in Games : On(g, {"archiving"}) \subseteq On(g, {"archiving"})'
      BY <2>1 DEF On, Game
    <3> QED
      BY <2>1, <3>2, <3>3, <3>4 DEF TarHasOwner
  <2> QED
    BY <2>2, <2>3
<1>10. ASSUME NEW r \in Requests, EndArchive(r) PROVE TarHasOwner'
  <2>1. /\ \A o \in Requests \ {r} : req'[o] = req[o]
        /\ timer' = timer \cup {Game(r)}
        /\ orphaned' = orphaned \ {Game(r)}
        /\ firing' = firing
        /\ \A g \in Games \ {Game(r)} : tar'[g] = tar[g]
    BY <1>10 DEF EndArchive, Goto, ArmTimer, TypeOK
  <2>2. \A g \in Games \ {Game(r)} : On(g, {"archiving"}) \subseteq On(g, {"archiving"})'
    BY <2>1 DEF On, Game
  <2> QED
    BY <2>1, <2>2 DEF TarHasOwner
<1>11. ASSUME NEW r \in Requests, FailArchive(r), ~Crash PROVE TarHasOwner'
  <2>1. /\ \A o \in Requests \ {r} : req'[o] = req[o]
        /\ UNCHANGED <<timer, firing, orphaned>>
        /\ tar' = [tar EXCEPT ![Game(r)] = NoTar]
    BY <1>11 DEF FailArchive, End, TypeOK
  <2>2. \A g \in Games \ {Game(r)} : On(g, {"archiving"}) \subseteq On(g, {"archiving"})'
    BY <2>1 DEF On, Game
  <2>3. tar'[Game(r)].st = "absent"
    BY <1>0, <2>1 DEF NoTar, TypeOK
  <2> QED
    BY <2>1, <2>2, <2>3 DEF TarHasOwner, TypeOK
<1>12. CASE UNCHANGED vars
  BY <1>12 DEF vars, TarHasOwner, On, Game
<1> QED
  BY <1>1, <1>2, <1>3, <1>4, <1>5, <1>6, <1>7, <1>8, <1>9, <1>10, <1>11, <1>12
  DEF Next, Download

\* An archive in /tmp is always in somebody's charge: a request that packs it, an
\* armed timer or a running callback; only a crash can leave it behind.
THEOREM ArchivesAreOwned == Spec => []TarHasOwner
<1>1. Init => TarHasOwner
  BY DEF Init, TarHasOwner, NoTar
<1> QED
  BY <1>1, OwnerStep, DownloadsTypeCorrect, PTL DEF Spec

(***************************************************************************)
(* Download counts.                                                        *)
(***************************************************************************)

\* What a request has read, plus one once its stream is open, is not more than
\* the downloads of its game so far.
CountInv ==
    /\ NeverOvercounts
    /\ \A r \in Requests :
          /\ req[r].pc \in {"probing", "packing", "archiving", "checking"}
                => req[r].seen <= served[Game(r)]
          /\ req[r].pc = "streaming" => req[r].seen < served[Game(r)]

LEMMA CountStep == TypeOK /\ CountInv /\ [Next]_vars => CountInv'
<1> SUFFICES ASSUME TypeOK, CountInv, [Next]_vars PROVE CountInv'
  OBVIOUS
<1> USE DEF archiveVars, countVars, otpVars
<1>0. /\ \A r \in Requests : req[r] \in ReqType /\ req[r].seen \in Nat /\ Game(r) \in Games
      /\ \A g \in Games : count[g] \in Nat /\ served[g] \in Nat
  BY RequestTypes DEF TypeOK, ReqType
\* A request that moves on without a new stream keeps what it has read.
<1>00. ASSUME NEW r \in Requests, UNCHANGED countVars,
              \A o \in Requests \ {r} : req'[o] = req[o],
              \/ req'[r].pc \in {"new", "finding", "ended"}
              \/ /\ req'[r].pc \in {"packing", "archiving", "checking"}
                 /\ req[r].pc \in {"probing", "packing", "archiving", "checking"}
                 /\ req'[r].seen = req[r].seen /\ req'[r].v = req[r].v
       PROVE  CountInv'
  BY <1>00 DEF CountInv, NeverOvercounts, Game
<1>1. ASSUME NEW r \in Requests, Begin(r) PROVE CountInv'
  BY <1>0, <1>00, <1>1 DEF Begin, Goto, TypeOK, ReqType
<1>2. ASSUME NEW r \in Requests, NEW o \in Requests, Redeem(r, o) PROVE CountInv'
  BY <1>0, <1>00, <1>2 DEF Redeem, TypeOK, ReqType
<1>3. ASSUME NEW o \in Requests, Expire(o) PROVE CountInv'
  BY <1>3 DEF Expire, CountInv, NeverOvercounts, Game
<1>4. ASSUME NEW g \in Games, Fire(g) \/ Remove(g) PROVE CountInv'
  BY <1>4 DEF Fire, Remove, CountInv, NeverOvercounts, Game
<1>5. CASE Crash
  <2>1. \A r \in Requests : req'[r].pc \in {"new", "ended"}
    BY <1>0, <1>5 DEF Crash, Ended, ReqType
  <2> QED
    BY <1>5, <2>1 DEF Crash, CountInv, NeverOvercounts
<1>6. ASSUME NEW r \in Requests, Find(r) PROVE CountInv'
  <2>1. CASE End(r)
    BY <1>0, <1>00, <1>6, <2>1, SMTT(30) DEF Find, End, Ended, TypeOK, ReqType
  <2>2. CASE ~End(r)
    <3>1. /\ req' = [req EXCEPT ![r].seen = count[Game(r)],
                         ![r].pc = IF req[r].v \in Archives THEN "checking" ELSE "probing"]
          /\ UNCHANGED countVars
      BY <1>6, <2>2 DEF Find
    <3>2. req'[r].seen = count[Game(r)] /\ req'[r].v = req[r].v /\ req'[r].pc # "streaming"
      BY <1>0, <3>1 DEF TypeOK, ReqType
    <3> QED
      BY <1>0, <3>1, <3>2 DEF CountInv, NeverOvercounts, Game, TypeOK
  <2> QED
    BY <2>1, <2>2
<1>7. ASSUME NEW r \in Requests, ~Crash,
             Probe(r) \/ BeginArchive(r) \/ EndArchive(r) \/ FailArchive(r)
      PROVE  CountInv'
  <2>1. /\ UNCHANGED countVars
        /\ \A o \in Requests \ {r} : req'[o] = req[o]
    BY <1>7 DEF Probe, BeginArchive, EndArchive, FailArchive, Goto, End, TypeOK
  <2>2. \/ req'[r].pc = "ended"
        \/ /\ req'[r].pc \in {"packing", "archiving", "checking"}
           /\ req[r].pc \in {"probing", "packing", "archiving", "checking"}
           /\ req'[r].seen = req[r].seen /\ req'[r].v = req[r].v
    BY <1>7, RequestSteps DEF Probe, BeginArchive, EndArchive, FailArchive
  <2> QED
    BY <1>00, <2>1, <2>2
<1>8. ASSUME NEW r \in Requests, Check(r) PROVE CountInv'
  <2>1. CASE End(r) /\ UNCHANGED served
    BY <1>0, <1>00, <1>8, <2>1 DEF Check, End, Ended, TypeOK, ReqType
  <2>2. CASE ~(End(r) /\ UNCHANGED served)
    <3>1. PICK file :
            /\ req' = [req EXCEPT ![r].pc = "streaming", ![r].sent = file]
            /\ served' = [served EXCEPT ![Game(r)] = @ + 1]
            /\ UNCHANGED count
            /\ req[r].pc = "checking"
      BY <1>8, <2>2 DEF Check
    <3>2. /\ req'[r].pc = "streaming" /\ req'[r].seen = req[r].seen /\ req'[r].v = req[r].v
          /\ \A o \in Requests \ {r} : req'[o] = req[o]
      BY <1>0, <3>1 DEF TypeOK, ReqType
    <3>3. \A g \in Games : served[g] <= served'[g] /\ served'[g] \in Nat
      BY <1>0, <3>1 DEF TypeOK
    <3>4. served'[Game(r)] = served[Game(r)] + 1
      BY <1>0, <3>1 DEF TypeOK
    <3>5. req[r].seen <= served[Game(r)]
      BY <3>1 DEF CountInv
    <3>6. req'[r].seen < served'[Game(r)]
      BY <1>0, <3>2, <3>4, <3>5
    <3>7. ASSUME NEW o \in Requests \ {r}
          PROVE  /\ req'[o].pc \in {"probing", "packing", "archiving", "checking"}
                       => req'[o].seen <= served'[Game(o)]
                 /\ req'[o].pc = "streaming" => req'[o].seen < served'[Game(o)]
      BY <1>0, <3>2, <3>3 DEF CountInv
    <3>8. \A g \in Games : count'[g] <= served'[g]
      BY <1>0, <3>1, <3>3 DEF CountInv, NeverOvercounts
    <3>9. \A o \in Requests : Game(o)' = Game(o)
      BY <3>2 DEF Game
    <3> QED
      BY <3>2, <3>6, <3>7, <3>8, <3>9 DEF CountInv, NeverOvercounts
  <2> QED
    BY <2>1, <2>2
<1>9. ASSUME NEW r \in Requests, Count(r) PROVE CountInv'
  <2>1. /\ count' = [count EXCEPT ![Game(r)] = req[r].seen + 1]
        /\ UNCHANGED served
        /\ req[r].seen < served[Game(r)]
        /\ \A o \in Requests \ {r} : req'[o] = req[o]
        /\ req'[r].pc = "ended"
    BY <1>9 DEF Count, CountInv, End, Ended, TypeOK, ReqType
  <2> QED
    BY <1>0, <2>1 DEF CountInv, NeverOvercounts, Game, TypeOK
<1>10. CASE UNCHANGED vars
  BY <1>10 DEF vars, CountInv, NeverOvercounts, Game
<1> QED
  BY <1>1, <1>2, <1>3, <1>4, <1>5, <1>6, <1>7, <1>8, <1>9, <1>10 DEF Next, Download

\* download_count never exceeds the downloads that reached the stream, although
\* concurrent requests write back counts they read earlier.
THEOREM CountsAreEarned == Spec => []NeverOvercounts
<1>1. Init => CountInv
  BY DEF Init, CountInv, NeverOvercounts
<1>2. CountInv => NeverOvercounts
  BY DEF CountInv
<1> QED
  BY <1>1, <1>2, CountStep, DownloadsTypeCorrect, PTL DEF Spec

(***************************************************************************)
(* The refinement.                                                         *)
(***************************************************************************)

\* The promise in terms of this module.
Tickets == [o \in Requests |-> TicketOf[otp[o]]]

\* Requests that stream, pack or wait leave the passwords alone.
LEMMA DownloadKeepsTickets ==
    ASSUME NEW r \in Requests, Download(r), ~Crash
    PROVE  UNCHANGED <<otp, uses>>
BY DEF Download, Find, Probe, BeginArchive, EndArchive, FailArchive, Check, Count, otpVars

\* Only passwords that are live can be lost.
LEMMA LostTickets ==
    ASSUME TypeOK, NEW lost \in SUBSET {o \in Requests : otp[o] = "live"}, UNCHANGED uses,
           otp' = [o \in Requests |-> IF o \in lost THEN "gone" ELSE otp[o]]
    PROVE  Promise!Lose
<1>1. lost \in SUBSET {o \in Requests : Tickets[o] = "live"}
  BY DEF Tickets, TicketOf
<1>2. \A o \in Requests : Tickets'[o] = IF o \in lost THEN "void" ELSE Tickets[o]
  BY DEF Tickets, TicketOf
<1>3. Tickets' = [o \in Requests |-> IF o \in lost THEN "void" ELSE Tickets[o]]
  BY <1>2 DEF Tickets
<1> QED
  BY <1>1, <1>3 DEF Promise!Lose, Tickets

LEMMA PromiseStep ==
    TypeOK /\ OtpInv /\ [Next]_vars => [Promise!Next]_<<Tickets, uses>>
<1> SUFFICES ASSUME TypeOK, OtpInv, [Next]_vars
             PROVE  Promise!Next \/ UNCHANGED <<Tickets, uses>>
  OBVIOUS
<1>0. otp \in [Requests -> {"none", "live", "gone"}] /\ uses \in [Requests -> Nat]
  BY DEF TypeOK
<1>1. ASSUME NEW r \in Requests, Begin(r) PROVE Promise!Next
  <2>1. Tickets[r] = "unissued"
    BY <1>1 DEF Begin, OtpInv, Tickets, TicketOf
  <2>2. \A o \in Requests : Tickets'[o] = [Tickets EXCEPT ![r] = "live"][o]
    BY <1>0, <1>1 DEF Begin, Tickets, TicketOf
  <2>3. Tickets' = [Tickets EXCEPT ![r] = "live"]
    BY <2>2 DEF Tickets
  <2>4. Promise!Issue(r)
    BY <1>1, <2>1, <2>3 DEF Promise!Issue, Begin, Tickets
  <2> QED
    BY <2>4 DEF Promise!Next
<1>2. ASSUME NEW r \in Requests, NEW o \in Requests, Redeem(r, o) PROVE Promise!Next
  <2>1. Tickets[o] = "live"
    BY <1>2 DEF Redeem, Tickets, TicketOf
  <2>2. \A p \in Requests : Tickets'[p] = [Tickets EXCEPT ![o] = "void"][p]
    BY <1>0, <1>2 DEF Redeem, Tickets, TicketOf
  <2>3. Tickets' = [Tickets EXCEPT ![o] = "void"]
    BY <2>2 DEF Tickets
  <2>4. Promise!Use(o)
    BY <1>2, <2>1, <2>3 DEF Promise!Use, Redeem, Tickets
  <2> QED
    BY <2>4 DEF Promise!Next
<1>3. ASSUME NEW o \in Requests, Expire(o) PROVE Promise!Next
  <2>1. otp' = [p \in Requests |-> IF p \in {o} THEN "gone" ELSE otp[p]]
    BY <1>0, <1>3 DEF Expire
  <2>2. {o} \in SUBSET {p \in Requests : otp[p] = "live"}
    BY <1>3 DEF Expire
  <2>3. Promise!Lose
    BY <1>3, <2>1, <2>2, LostTickets DEF Expire
  <2> QED
    BY <2>3 DEF Promise!Next
<1>4. ASSUME Crash PROVE Promise!Next
  <2> DEFINE lost == {o \in Requests : otp[o] = "live"}
  <2>1. \A o \in Requests :
           otp'[o] = IF o \in lost THEN "gone" ELSE otp[o]
    BY <1>0, <1>4 DEF Crash
  <2>2. otp' = [o \in Requests |-> IF o \in lost THEN "gone" ELSE otp[o]]
    BY <1>4, <2>1 DEF Crash
  <2>3. Promise!Lose
    BY <1>4, <2>2, LostTickets DEF Crash
  <2> QED
    BY <2>3 DEF Promise!Next
<1>5. ASSUME NEW r \in Requests, Download(r), ~Crash PROVE UNCHANGED <<Tickets, uses>>
  BY <1>5, DownloadKeepsTickets DEF Tickets
<1>6. ASSUME NEW g \in Games, Fire(g) \/ Remove(g) PROVE UNCHANGED <<Tickets, uses>>
  BY <1>6 DEF Fire, Remove, Tickets, otpVars
<1>7. CASE UNCHANGED vars
  BY <1>7 DEF vars, Tickets
<1> QED
  BY <1>1, <1>2, <1>3, <1>4, <1>5, <1>6, <1>7 DEF Next

\* Downloads implements OneTimePasswords: every step of the server issues a
\* password, uses one that is live, loses some, or leaves them all alone.
THEOREM PasswordsKeepTheirPromise == Spec => KeepsPromise
<1>1. Init => Promise!Init
  BY DEF Init, Promise!Init, TicketOf
<1>2. Init => OtpInv
  BY DEF Init, OtpInv
<1>3. TypeOK /\ OtpInv /\ [Next]_vars =>
        [Promise!Next]_<<[o \in Requests |-> TicketOf[otp[o]]], uses>>
  BY PromiseStep DEF Tickets
<1> QED
  BY <1>1, <1>2, <1>3, OtpStep, DownloadsTypeCorrect, PTL
     DEF Spec, KeepsPromise, Promise!Spec
=============================================================================
