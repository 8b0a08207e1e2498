------------------------------- MODULE Metadata -------------------------------
(***************************************************************************)
(* Metadata of one game: the job queue, map, unmap and merge of            *)
(* MetadataService (src/src/modules/metadata/metadata.service.ts), and     *)
(* update, delete and restore of GamesService                              *)
(* (src/src/modules/games/games.service.ts).  All of them read the game    *)
(* with its relations, wait, and save all of it.                           *)
(***************************************************************************)
EXTENDS Integers, FiniteSets

CONSTANTS
    Providers,          \* enabled metadata providers
    Priority,           \* Priority[p], no two alike
    Entries,            \* provider_data_id: the games a provider knows
    NoEntry,            \* not mapped
    NoUser,             \* no user metadata
    Worker,             \* processQueue
    Background,         \* merges that updateMetadata started and does not await
    Requests,           \* PUT /games/:game_id
    GameDeletions,          \* checkIntegrity deletes the game
    Restorations,       \* index restores the game
    MaxJobs,            \* bound: jobs that are added
    MaxMappings         \* bound: mapping requests in one update

Actors == {Worker} \cup Background \cup Requests \cup GameDeletions \cup Restorations

ASSUME MetadataAssumption ==
    /\ Priority \in [Providers -> Int]
    /\ \A p, q \in Providers : p # q => Priority[p] # Priority[q]
    /\ \A P \in SUBSET Providers : P # {} => \E p \in P : \A q \in P : Priority[p] >= Priority[q]
    /\ NoEntry \notin Entries
    /\ IsFiniteSet(Actors)
    /\ Worker \notin Background \cup Requests \cup GameDeletions \cup Restorations
    /\ Background \cap (Requests \cup GameDeletions \cup Restorations) = {}
    /\ Requests \cap (GameDeletions \cup Restorations) = {}
    /\ GameDeletions \cap Restorations = {}
    /\ NoUser \notin Requests
    /\ MaxJobs \in Nat /\ MaxMappings \in Nat

VARIABLES
    game,       \* row of the game
    effective,  \* {} or {row}: the row of merged metadata
    fetched,    \* fetched[p][e]: when the row of entry e was saved, 0 if never
    queue,      \* {} or {g}: the job of the game in metadataJobs and the game it carries
    jobs,       \* jobs added
    saved,      \* saves so far: the clock of updated_at
    actor,      \* what every actor is doing
    overlapped  \* history: two actors have been at work at the same time

metadataVars == <<game, effective, fetched, queue, jobs, saved, actor, overlapped>>

Mapping == [Providers -> Entries \cup {NoEntry}]
\* user: the request whose user metadata the game has.
Users == Requests \cup {NoUser}
Unmapped == [p \in Providers |-> NoEntry]

Stages == {"idle", "choosing", "fetching", "unmapping", "deleting", "saving", "adding",
           "mapping", "reading", "storing", "linking", "editing", "removing", "ended"}
\* left: providers still to do; todo: mapping requests still to do; want: the
\* mapping being made, as {<<p, e>>}; edits: the request brings user metadata;
\* first: the game it read first; part: it has saved the outcome of an unmap.
Idle == [stage |-> "idle", left |-> {}, todo |-> 0, want |-> {}, edits |-> FALSE,
         part |-> FALSE, first |-> {}, loaded |-> {}]

MetadataInit ==
    /\ game = [map |-> Unmapped, user |-> NoUser, linked |-> FALSE, deleted |-> FALSE]
    /\ effective = {}
    /\ fetched = [p \in Providers |-> [e \in Entries |-> 0]]
    /\ queue = {} /\ jobs = 0 /\ saved = 0
    /\ actor = [a \in Actors |-> Idle]
    /\ overlapped = FALSE

Busy(a) == actor[a].stage \notin {"idle", "ended"}
BusyActors == {a \in Actors : Busy(a)}
\* History: evaluated in every step.
NoteOverlap == overlapped' = (overlapped \/ Cardinality({a \in Actors :
                    actor'[a].stage \notin {"idle", "ended"}}) > 1)

\* findOneByGameIdOrFail with its relations.
Load == [map |-> game.map, user |-> game.user, deleted |-> game.deleted,
         merged |-> IF game.linked THEN effective ELSE {}]

Goto(a, stage) == actor' = [actor EXCEPT ![a].stage = stage]
EndOf(a) == [Idle EXCEPT !.stage = IF a \in {Worker} \cup Background THEN "idle" ELSE "ended"]
\* History: part stays with a request that ends with an error.
Stopped(a) == [EndOf(a) EXCEPT !.part = actor[a].part]

\* An error: the worker logs it and takes the next provider; a request, a
\* deletion or a merge in the background ends.
Fail(a) ==
    IF a = Worker THEN [actor EXCEPT ![a].stage = "choosing", ![a].loaded = {}]
    ELSE [actor EXCEPT ![a] = Stopped(a)]

\* save(g) of the repository: every relation that was loaded is written as it was
\* read, its deletion mark too; merged metadata cascades, so a row of it that is
\* gone comes back, unless another one has taken its provider and id (UNIQUE).
Savable(g) == \A m \in g.merged, e \in effective : m.id = e.id
SaveGame(g) ==
    /\ game' = [map |-> g.map, user |-> g.user, linked |-> g.merged # {},
                deleted |-> g.deleted]
    /\ effective' = IF g.merged = {} THEN effective ELSE g.merged

(***************************************************************************)
(* The queue.                                                              *)
(***************************************************************************)

\* addUpdateMetadataJob, which index calls; a job that is queued or running
\* makes it do nothing.
AddJob ==
    /\ jobs < MaxJobs /\ ~game.deleted
    /\ jobs' = jobs + 1
    /\ queue' = IF queue = {} THEN {Load} ELSE queue
    /\ UNCHANGED <<game, effective, fetched, saved, actor, overlapped>>

\* updateMetadata with the game as the job carries it.
StartJob ==
    /\ queue # {} /\ actor[Worker].stage = "idle"
    /\ actor' = [actor EXCEPT ![Worker] =
          [Idle EXCEPT !.stage = "choosing", !.left = Providers, !.first = queue]]
    /\ NoteOverlap
    /\ UNCHANGED <<game, effective, fetched, queue, jobs, saved>>

FirstOf(P) == CHOOSE p \in P : \A q \in P : Priority[p] >= Priority[q]

\* Metadata younger than the TTL is left alone, older is fetched again; for a
\* game without, the provider is searched, which may find nothing.
ChooseProvider ==
    LET p == FirstOf(actor[Worker].left) IN
    /\ actor[Worker].stage = "choosing" /\ actor[Worker].left # {}
    /\ \E g \in actor[Worker].first :
          \E e \in IF g.map[p] = NoEntry THEN Entries ELSE {g.map[p]} :
             \/ actor' = [actor EXCEPT ![Worker].left = @ \ {p}, ![Worker].want = {<<p, e>>},
                                      ![Worker].stage = "fetching"]
             \/ actor' = [actor EXCEPT ![Worker].left = @ \ {p}]
    /\ NoteOverlap
    /\ UNCHANGED <<game, effective, fetched, queue, jobs, saved>>

\* Mutant: the job stays queued.
EndJobKeeping ==
    /\ actor[Worker].stage = "choosing" /\ actor[Worker].left = {}
    /\ \E b \in Background :
          /\ ~Busy(b)
          /\ actor' = [actor EXCEPT ![Worker] = Idle, ![b] = [Idle EXCEPT !.stage = "reading"]]
    /\ NoteOverlap
    /\ UNCHANGED <<game, effective, fetched, queue, jobs, saved>>

\* The last line of updateMetadata does not wait for the merge; the finally of
\* processQueue then removes the job.
EndJob ==
    /\ actor[Worker].stage = "choosing" /\ actor[Worker].left = {}
    /\ \E b \in Background :
          /\ ~Busy(b)
          /\ actor' = [actor EXCEPT ![Worker] = Idle, ![b] = [Idle EXCEPT !.stage = "reading"]]
    /\ queue' = {}
    /\ NoteOverlap
    /\ UNCHANGED <<game, effective, fetched, jobs, saved>>

(***************************************************************************)
(* map and unmap.                                                          *)
(***************************************************************************)

\* The provider answers and the entry is saved in the row it has of its own, whose
\* updated_at stays if it has not changed; or the provider fails.  One that never
\* answers, to the search or to this request, leaves the actor here.
Fetch(a) ==
    /\ actor[a].stage = "fetching"
    /\ \/ /\ \E w \in actor[a].want :
                \/ /\ saved' = saved + 1
                   /\ fetched' = [fetched EXCEPT ![w[1]][w[2]] = saved']
                \/ fetched[w[1]][w[2]] > 0 /\ UNCHANGED <<fetched, saved>>
          /\ Goto(a, "unmapping")
       \/ actor' = Fail(a) /\ UNCHANGED <<fetched, saved>>
    /\ NoteOverlap
    /\ UNCHANGED <<game, effective, queue, jobs>>

Without(g, W) == [g EXCEPT !.map = [p \in Providers |->
                     IF \E w \in W : w[1] = p THEN NoEntry ELSE g.map[p]]]

\* Mutant: merged metadata is kept, for the merge to renew.
ReadForUnmapKeeping(a) ==
    /\ actor[a].stage = "unmapping"
    /\ actor' = IF game.deleted THEN Fail(a)
                ELSE [actor EXCEPT ![a].loaded = {Without(Load, actor[a].want)},
                                   ![a].stage = "saving"]
    /\ NoteOverlap
    /\ UNCHANGED <<game, effective, fetched, queue, jobs, saved>>

\* unmap reads the game, which must not be deleted, and takes the provider out.
ReadForUnmap(a) ==
    /\ actor[a].stage = "unmapping"
    /\ actor' = IF game.deleted THEN Fail(a)
                ELSE [actor EXCEPT ![a].loaded = {Without(Load, actor[a].want)},
                         ![a].stage = IF Load.merged = {} THEN "saving" ELSE "deleting"]
    /\ NoteOverlap
    /\ UNCHANGED <<game, effective, fetched, queue, jobs, saved>>

\* deleteByGameMetadataIdOrFail; the column of the game becomes NULL.
DeleteMerged(a) ==
    /\ actor[a].stage = "deleting"
    /\ \E g \in actor[a].loaded :
          IF effective # {} /\ \A m \in g.merged, e \in effective : m.id = e.id
          THEN /\ effective' = {}
               /\ game' = [game EXCEPT !.linked = FALSE]
               /\ actor' = [actor EXCEPT ![a].stage = "saving",
                                         ![a].loaded = {[g EXCEPT !.merged = {}]}]
          ELSE actor' = Fail(a) /\ UNCHANGED <<effective, game>>
    /\ NoteOverlap
    /\ UNCHANGED <<fetched, queue, jobs, saved>>

\* What follows an unmap: the rest of map, the next part of an update, or the
\* removal of a game that is deleted.
AfterUnmap(a) ==
    IF a \in GameDeletions THEN "removing"
    ELSE IF \E w \in actor[a].want : w[2] # NoEntry THEN "adding"
    ELSE "choosing"

SaveUnmapped(a) ==
    /\ actor[a].stage = "saving"
    /\ \E g \in actor[a].loaded : SaveGame(g)
    /\ actor' = [actor EXCEPT ![a].stage = AfterUnmap(a), ![a].loaded = {},
                              ![a].part = a \in Requests]
    /\ NoteOverlap
    /\ UNCHANGED <<fetched, queue, jobs, saved>>

\* map reads the game again and adds the entry.
ReadForMap(a) ==
    /\ actor[a].stage = "adding"
    /\ \E w \in actor[a].want :
          actor' = IF game.deleted THEN Fail(a)
                   ELSE [actor EXCEPT ![a].loaded = {[Load EXCEPT !.map[w[1]] = w[2]]},
                                      ![a].stage = "mapping"]
    /\ NoteOverlap
    /\ UNCHANGED <<game, effective, fetched, queue, jobs, saved>>

SaveMapped(a) ==
    /\ actor[a].stage = "mapping"
    /\ \E g \in actor[a].loaded :
          IF Savable(g)
          THEN SaveGame(g) /\ actor' = [actor EXCEPT ![a].stage = "choosing", ![a].loaded = {}]
          ELSE actor' = Fail(a) /\ UNCHANGED <<game, effective>>
    /\ NoteOverlap
    /\ UNCHANGED <<fetched, queue, jobs, saved>>

(***************************************************************************)
(* merge.                                                                  *)
(***************************************************************************)

\* isMetadataFresh
Fresh(g) ==
    /\ g.merged # {}
    /\ \A m \in g.merged, p \in Providers : g.map[p] # NoEntry => fetched[p][g.map[p]] <= m.at

ReadForMerge(a) ==
    /\ actor[a].stage = "reading"
    /\ actor' =
          IF game.deleted THEN [actor EXCEPT ![a] = Stopped(a)]
          ELSE IF (Load.map = Unmapped /\ Load.user = NoUser) \/ (Load.user = NoUser /\ Fresh(Load))
          THEN [actor EXCEPT ![a] = EndOf(a)]
          ELSE [actor EXCEPT ![a].stage = "storing", ![a].loaded = {Load}]
    /\ NoteOverlap
    /\ UNCHANGED <<game, effective, fetched, queue, jobs, saved>>

\* GameMetadataService.save finds the row by provider and id, not by its key.
StoreMerged(a) ==
    /\ actor[a].stage = "storing"
    /\ saved' = saved + 1
    /\ \E g \in actor[a].loaded :
          LET id == IF effective = {} THEN saved' ELSE (CHOOSE e \in effective : TRUE).id
              row == [id |-> id, at |-> saved', map |-> g.map, user |-> g.user] IN
          /\ effective' = {row}
          /\ actor' = [actor EXCEPT ![a].stage = "linking",
                                    ![a].loaded = {[g EXCEPT !.merged = {row}]}]
    /\ NoteOverlap
    /\ UNCHANGED <<game, fetched, queue, jobs>>

SaveMerged(a) ==
    /\ actor[a].stage = "linking"
    /\ \E g \in actor[a].loaded :
          IF Savable(g) THEN SaveGame(g) /\ actor' = [actor EXCEPT ![a] = EndOf(a)]
          ELSE actor' = [actor EXCEPT ![a] = Stopped(a)] /\ UNCHANGED <<game, effective>>
    /\ NoteOverlap
    /\ UNCHANGED <<fetched, queue, jobs, saved>>

(***************************************************************************)
(* update: mapping requests, then user metadata, then a merge.             *)
(***************************************************************************)

\* The game is read first, deleted or not.
StartUpdate(r) ==
    /\ actor[r].stage = "idle"
    /\ \E todo \in 0 .. MaxMappings, edits \in BOOLEAN :
          /\ todo > 0 \/ edits
          /\ actor' = [actor EXCEPT ![r] = [Idle EXCEPT !.stage = "choosing", !.todo = todo,
                                                        !.edits = edits, !.first = {Load}]]
    /\ NoteOverlap
    /\ UNCHANGED <<game, effective, fetched, queue, jobs, saved>>

\* A mapping request maps the provider to an entry or unmaps it.
TakeRequest(r) ==
    /\ r \in Requests /\ actor[r].stage = "choosing" /\ actor[r].todo > 0
    /\ \E p \in Providers, e \in Entries \cup {NoEntry} :
          actor' = [actor EXCEPT ![r].todo = @ - 1, ![r].want = {<<p, e>>},
                ![r].stage = IF e = NoEntry THEN "unmapping" ELSE "fetching"]
    /\ NoteOverlap
    /\ UNCHANGED <<game, effective, fetched, queue, jobs, saved>>

\* The user metadata is saved as a row, which the game may refer to already.
SaveUserRow(r) ==
    /\ r \in Requests /\ actor[r].stage = "choosing" /\ actor[r].todo = 0
    /\ IF actor[r].edits
       THEN /\ game' = IF game.user = NoUser THEN game ELSE [game EXCEPT !.user = r]
            /\ Goto(r, "editing")
       ELSE Goto(r, "reading") /\ UNCHANGED game
    /\ NoteOverlap
    /\ UNCHANGED <<effective, fetched, queue, jobs, saved>>

\* The game is saved as it was before the mapping requests.
SaveEdited(r) ==
    /\ actor[r].stage = "editing"
    /\ \E g \in actor[r].first :
          IF Savable(g)
          THEN SaveGame([g EXCEPT !.user = r]) /\ Goto(r, "reading")
          ELSE actor' = Fail(r) /\ UNCHANGED <<game, effective>>
    /\ NoteOverlap
    /\ UNCHANGED <<fetched, queue, jobs, saved>>

(***************************************************************************)
(* delete unmaps nothing in particular, which drops the merged metadata,   *)
(* and marks the game; restore takes the mark away and merges.             *)
(***************************************************************************)
StartDelete(d) ==
    /\ actor[d].stage = "idle"
    /\ Goto(d, "unmapping")
    /\ NoteOverlap
    /\ UNCHANGED <<game, effective, fetched, queue, jobs, saved>>

RemoveGame(d) ==
    /\ actor[d].stage = "removing"
    /\ game' = [game EXCEPT !.deleted = TRUE]
    /\ actor' = [actor EXCEPT ![d] = EndOf(d)]
    /\ NoteOverlap
    /\ UNCHANGED <<effective, fetched, queue, jobs, saved>>

RestoreGame(q) ==
    /\ actor[q].stage = "idle" /\ game.deleted
    /\ game' = [game EXCEPT !.deleted = FALSE]
    /\ Goto(q, "reading")
    /\ NoteOverlap
    /\ UNCHANGED <<effective, fetched, queue, jobs, saved>>

\* What the worker does without an answer of a provider.
WorkerOwnStep ==
    \/ StartJob \/ ChooseProvider \/ EndJob
    \/ ReadForUnmap(Worker) \/ DeleteMerged(Worker) \/ SaveUnmapped(Worker)
    \/ ReadForMap(Worker) \/ SaveMapped(Worker)

WorkerStep == WorkerOwnStep \/ Fetch(Worker)

MergeStep(a) == ReadForMerge(a) \/ StoreMerged(a) \/ SaveMerged(a)

RequestStep(r) ==
    \/ StartUpdate(r) \/ TakeRequest(r) \/ SaveUserRow(r) \/ SaveEdited(r)
    \/ Fetch(r) \/ ReadForUnmap(r) \/ DeleteMerged(r) \/ SaveUnmapped(r)
    \/ ReadForMap(r) \/ SaveMapped(r) \/ MergeStep(r)

DeleteStep(d) ==
    StartDelete(d) \/ ReadForUnmap(d) \/ DeleteMerged(d) \/ SaveUnmapped(d) \/ RemoveGame(d)

MetadataNext ==
    \/ AddJob
    \/ WorkerStep
    \/ \E b \in Background : MergeStep(b)
    \/ \E r \in Requests : RequestStep(r)
    \/ \E d \in GameDeletions : DeleteStep(d)
    \/ \E q \in Restorations : RestoreGame(q) \/ MergeStep(q)

\* The database answers, and what does not wait for a provider goes on.  A request
\* to a provider has no timeout: Fetch is not fair, and a worker that is fetching
\* may stay there.
MetadataFairness ==
    /\ WF_metadataVars(WorkerOwnStep)
    /\ \A b \in Background : WF_metadataVars(MergeStep(b))

MetadataSpec == MetadataInit /\ [][MetadataNext]_metadataVars /\ MetadataFairness

(***************************************************************************)
(* Properties                                                              *)
(***************************************************************************)

\* The shape of the state; a game that refers to merged metadata has some.
MetadataTypeOK ==
    /\ game \in [map : Mapping, user : Users, linked : BOOLEAN, deleted : BOOLEAN]
    /\ Cardinality(effective) <= 1
    /\ \A m \in effective : /\ m.id \in 1 .. saved /\ m.at \in m.id .. saved
                            /\ m.map \in Mapping /\ m.user \in Users
    /\ game.linked => effective # {}
    /\ fetched \in [Providers -> [Entries -> 0 .. saved]]
    /\ Cardinality(queue) <= 1 /\ jobs \in 0 .. MaxJobs /\ saved \in Nat
    /\ \A a \in Actors : /\ actor[a].stage \in Stages /\ actor[a].left \subseteq Providers
                          /\ actor[a].todo \in 0 .. MaxMappings
    /\ overlapped \in BOOLEAN

\* An update with several mapping requests whose later one failed has unmapped,
\* and does not reach the merge.
LeftHalfway == \E r \in Requests : actor[r].part /\ actor[r].stage = "ended"
HasSources == game.map # Unmapped \/ game.user # NoUser

\* As long as jobs, requests, deletions and restorations come one after the
\* other, what clients see is the merge of the mappings and the user metadata the
\* game has now, never an older one: unmap drops what was merged before, restore
\* merges again.  Nothing is merged where an update was left halfway.
MergedFollowsSources ==
    ~overlapped /\ BusyActors = {} /\ ~game.deleted =>
        /\ game.linked => HasSources /\ \A m \in effective : m.map = game.map /\ m.user = game.user
        /\ HasSources /\ ~LeftHalfway => game.linked

\* Whatever providers find, fail at or refuse, and whoever else changes the game, a
\* job that is queued is worked off and frees the queue, unless a provider leaves
\* the worker waiting for good: nothing else holds processQueue up.
HeldUpByProvider == <>[](actor[Worker].stage = "fetching")
QueueDrains == HeldUpByProvider \/ (queue # {} ~> queue = {})
=============================================================================
