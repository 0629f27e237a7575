---------------------------- MODULE FlagUpdate -----------------------------
(***************************************************************************)
(* flagConfigUpdaterBase.update over the two in-memory storages, the       *)
(* cohort loader's jobs and the cohort poll of deploymentRunner.           *)
(*                                                                         *)
(* update takes no lock of its own: each call of a storage method is one   *)
(* action, and the updates of two deliveries interleave.  Delivery v       *)
(* brings config[v]; the updates are run by the poller (every poll in its  *)
(* own goroutine) or by the streamer (go onUpdate for every message), so   *)
(* several of them may be in progress.  The first one is the synchronous   *)
(* update inside Start.  A load says how the module is used in a           *)
(* behaviour: with which configurations, how many overlapping updates,     *)
(* with cohort syncing or without it, with its poll or before it starts.   *)
(*                                                                         *)
(* A flag is its version and the cohorts its segments name, a stored       *)
(* cohort the group type it came with.                                     *)
(***************************************************************************)
EXTENDS Naturals, FiniteSets

CONSTANTS
    Flags,          \* flag keys
    Cohorts,        \* cohort ids
    Types,          \* group types of cohorts
    NoType,         \* what is stored for a cohort that is not
    MaxVersion,     \* bound: deliveries
    Loads           \* the uses considered: records with the fields below

\* A configuration maps the flags it has to the cohorts they need.
Configs == UNION {[F -> SUBSET Cohorts] : F \in SUBSET Flags}

ASSUME FlagUpdateAssumption ==
    /\ Loads \subseteq
         [configs : (SUBSET Configs) \ {{}}, \* what the server may send
          active  : Nat,                 \* bound: updates in progress at a time
          loader  : BOOLEAN,             \* is cohort syncing configured?
          polling : BOOLEAN,             \* does the cohort poll run?
          types   : (SUBSET Types) \ {{}}]  \* group types cohorts come with
    /\ MaxVersion \in Nat
    /\ NoType \notin Types

Versions == 1..MaxVersion
Absent   == 0       \* version of a flag that is not stored
Poll     == 0       \* the process of the cohort poll; the others are updates
Procs    == {Poll} \cup Versions

VARIABLES
    load,       \* how the module is used in this behaviour
    published,  \* deliveries so far
    config,     \* what each delivery brought
    flags,      \* flagConfigStorage: the version of each stored flag
    cohorts,    \* cohortStore: the type of each stored cohort, or NoType
    index,      \* groupToCohortStore, as pairs of a group type and an id
    failed,     \* cohorts whose last download failed
    pc,         \* where each update, and the cohort poll, is
    toPut,      \* flags an update has still to put
    todo,       \* cohorts still to load
    waiting,    \* cohorts whose job a process waits for
    used,       \* cohorts an update found in use before deleting
    doomed,     \* cohorts an update has still to delete, with their type
    job,        \* the loader's job of each cohort
    known       \* was the cohort stored when its job asked for changes?

given   == <<load, config>>
storage == <<flags, cohorts, index>>
locals  == <<toPut, todo, waiting, used, doomed>>
jobs    == <<failed, job, known>>
vars == <<load, published, config, flags, cohorts, index, failed, pc, toPut,
          todo, waiting, used, doomed, job, known>>

NeededBy(g) == UNION {g[f] : f \in DOMAIN g}

Stored      == {f \in Flags : flags[f] # Absent}
Needs(f)    == config[flags[f]][f]
CohortIds   == {c \in Cohorts : cohorts[c] # NoType}
CohortsUsed == UNION {Needs(f) : f \in Stored}

Active == {v \in Versions : pc[v] \notin {"none", "done"}}

TypeOK ==
    /\ published \in 0..MaxVersion
    /\ config \in [Versions -> load.configs]
    /\ flags \in [Flags -> 0..MaxVersion]
    /\ \A f \in Stored : f \in DOMAIN config[flags[f]]
    /\ cohorts \in [Cohorts -> Types \cup {NoType}]
    /\ index \subseteq Types \X Cohorts
    /\ failed \subseteq Cohorts
    /\ pc \in [Procs -> {"none", "remove", "cohorts", "download", "put", "used",
                         "stored", "delete", "done"}]
    /\ toPut \in [Versions -> SUBSET Flags]
    /\ todo \in [Procs -> SUBSET Cohorts]
    /\ waiting \in [Procs -> SUBSET Cohorts]
    /\ \A p \in Procs : \A c \in waiting[p] : job[c] # "none"
    /\ used \in [Versions -> SUBSET Cohorts]
    /\ doomed \in [Versions -> SUBSET (Types \X Cohorts)]
    /\ job \in [Cohorts -> {"none", "started", "requested", "ending"}]
    /\ known \in [Cohorts -> BOOLEAN]

Init ==
    /\ load \in Loads
    /\ published = 0
    /\ config \in [Versions -> load.configs]
    /\ flags = [f \in Flags |-> Absent]
    /\ cohorts = [c \in Cohorts |-> NoType]
    /\ index = {}
    /\ failed = {}
    /\ pc = [p \in Procs |-> "none"]
    /\ toPut = [v \in Versions |-> {}]
    /\ todo = [p \in Procs |-> {}]
    /\ waiting = [p \in Procs |-> {}]
    /\ used = [v \in Versions |-> {}]
    /\ doomed = [v \in Versions |-> {}]
    /\ job = [c \in Cohorts |-> "none"]
    /\ known = [c \in Cohorts |-> FALSE]

Goto(p, l) == pc' = [pc EXCEPT ![p] = l]

----------------------------------------------------------------------------
(* update(flagConfigs) *)

\* A message or a poll result arrives.
Deliver ==
    /\ published < MaxVersion
    /\ Cardinality(Active) < load.active
    /\ published > 0 => pc[1] = "done"
    /\ published' = published + 1
    /\ Goto(published', "remove")
    /\ toPut' = [toPut EXCEPT ![published'] = DOMAIN config[published']]
    /\ UNCHANGED <<given, storage, jobs, todo, waiting, used, doomed>>

RemoveIf(v) ==
    /\ pc[v] = "remove"
    /\ flags' = [f \in Flags |->
                    IF f \in DOMAIN config[v] THEN flags[f] ELSE Absent]
    /\ Goto(v, IF load.loader THEN "cohorts" ELSE "put")
    /\ UNCHANGED <<given, published, cohorts, index, jobs, locals>>

\* Mutant: what is stored is taken for what is needed.
ReadCohortsSwapped(v) ==
    /\ pc[v] = "cohorts"
    /\ todo' = [todo EXCEPT ![v] = CohortIds \ NeededBy(config[v])]
    /\ Goto(v, "download")
    /\ UNCHANGED <<given, published, storage, jobs, toPut, waiting, used,
                   doomed>>

ReadCohorts(v) ==
    /\ pc[v] = "cohorts"
    /\ todo' = [todo EXCEPT ![v] = NeededBy(config[v]) \ CohortIds]
    /\ Goto(v, "download")
    /\ UNCHANGED <<given, published, storage, jobs, toPut, waiting, used,
                   doomed>>

PutFlag(v, f) ==
    /\ pc[v] = "put"
    /\ f \in toPut[v]
    /\ flags' = [flags EXCEPT ![f] = v]
    /\ toPut' = [toPut EXCEPT ![v] = @ \ {f}]
    /\ UNCHANGED <<given, published, cohorts, index, jobs, pc, todo, waiting,
                   used, doomed>>

PutsDone(v) ==
    /\ pc[v] = "put"
    /\ toPut[v] = {}
    /\ Goto(v, IF load.loader THEN "used" ELSE "done")
    /\ UNCHANGED <<given, published, storage, jobs, locals>>

\* deleteUnusedCohorts: the stored flags, then the stored cohorts, are copied.
ReadUsed(v) ==
    /\ pc[v] = "used"
    /\ used' = [used EXCEPT ![v] = CohortsUsed]
    /\ Goto(v, "stored")
    /\ UNCHANGED <<given, published, storage, jobs, toPut, todo, waiting,
                   doomed>>

\* The copy of the cohorts is gone through once; used is not read again.
Doom(v, ids) ==
    /\ pc[v] = "stored"
    /\ doomed' = [doomed EXCEPT ![v] = {<<cohorts[c], c>> : c \in ids}]
    /\ used' = [used EXCEPT ![v] = {}]
    /\ Goto(v, "delete")
    /\ UNCHANGED <<given, published, storage, jobs, toPut, todo, waiting>>

\* Mutant: nothing is found to delete.
ReadStoredNone(v) == Doom(v, {})

ReadStored(v) == Doom(v, CohortIds \ used[v])

DeleteCohort(v, g, c) ==
    /\ pc[v] = "delete"
    /\ <<g, c>> \in doomed[v]
    /\ cohorts' = [cohorts EXCEPT ![c] = NoType]
    /\ index' = index \ {<<g, c>>}
    /\ doomed' = [doomed EXCEPT ![v] = @ \ {<<g, c>>}]
    /\ UNCHANGED <<given, published, flags, jobs, pc, toPut, todo, waiting,
                   used>>

DeletesDone(v) ==
    /\ pc[v] = "delete"
    /\ doomed[v] = {}
    /\ Goto(v, "done")
    /\ UNCHANGED <<given, published, storage, jobs, locals>>

----------------------------------------------------------------------------
(* cohortLoader: downloadCohorts and the job of cohort c. *)

\* loadCohort under lockJobs: join the job of c, or start one.
LoadCohort(p, c) ==
    /\ pc[p] = "download"
    /\ c \in todo[p]
    /\ todo' = [todo EXCEPT ![p] = @ \ {c}]
    /\ waiting' = [waiting EXCEPT ![p] = @ \cup {c}]
    /\ job' = [job EXCEPT ![c] = IF @ = "none" THEN "started" ELSE @]
    /\ UNCHANGED <<given, published, storage, failed, known, pc, toPut, used,
                   doomed>>

Downloaded(p) ==
    /\ pc[p] = "download"
    /\ todo[p] = {} /\ waiting[p] = {}
    /\ Goto(p, IF p = Poll THEN "none" ELSE "put")
    /\ UNCHANGED <<given, published, storage, jobs, locals>>

JobRequests(c) ==
    /\ job[c] = "started"
    /\ job' = [job EXCEPT ![c] = "requested"]
    /\ known' = [known EXCEPT ![c] = c \in CohortIds]
    /\ UNCHANGED <<given, published, storage, failed, pc, locals>>

\* Mutant: only a cohort that is new is filed.
JobStoresFiledOnce(c) ==
    /\ job[c] = "requested"
    /\ job' = [job EXCEPT ![c] = "ending"]
    /\ \E g \in load.types :
         /\ cohorts' = [cohorts EXCEPT ![c] = g]
         /\ index' = IF c \in CohortIds THEN index ELSE index \cup {<<g, c>>}
    /\ failed' = failed \ {c}
    /\ UNCHANGED <<given, published, flags, pc, locals, known>>

\* putCohort files the cohort under the group type it came with; an entry
\* under another type stays.
JobStores(c) ==
    /\ job[c] = "requested"
    /\ job' = [job EXCEPT ![c] = "ending"]
    /\ \E g \in load.types :
         /\ cohorts' = [cohorts EXCEPT ![c] = g]
         /\ index' = index \cup {<<g, c>>}
    /\ failed' = failed \ {c}
    /\ UNCHANGED <<given, published, flags, pc, locals, known>>

\* 204: not modified since the copy that was stored when the job asked.
JobUnmodified(c) ==
    /\ job[c] = "requested"
    /\ known[c]
    /\ job' = [job EXCEPT ![c] = "ending"]
    /\ failed' = failed \ {c}
    /\ UNCHANGED <<given, published, storage, pc, locals, known>>

JobFails(c) ==
    /\ job[c] = "requested"
    /\ job' = [job EXCEPT ![c] = "ending"]
    /\ failed' = failed \cup {c}
    /\ UNCHANGED <<given, published, storage, pc, locals, known>>

\* Mutant: the job is removed but its doneChan is not closed.
JobEndsSilently(c) ==
    /\ job[c] = "ending"
    /\ job' = [job EXCEPT ![c] = "none"]
    /\ UNCHANGED <<given, published, storage, failed, known, pc, locals>>

\* removeJob and close(doneChan): whoever waits for the job goes on.
JobEnds(c) ==
    /\ job[c] = "ending"
    /\ job' = [job EXCEPT ![c] = "none"]
    /\ known' = [known EXCEPT ![c] = FALSE]
    /\ waiting' = [p \in Procs |-> waiting[p] \ {c}]
    /\ UNCHANGED <<given, published, storage, failed, pc, toPut, todo, used,
                   doomed>>

----------------------------------------------------------------------------
(* The cohort poll, started after the first update. *)

\* Mutant: the poll refreshes the stored cohorts, not those the flags need.
PollStored ==
    /\ load.polling
    /\ published > 0 /\ pc[1] = "done"
    /\ pc[Poll] = "none"
    /\ todo' = [todo EXCEPT ![Poll] = CohortIds]
    /\ Goto(Poll, "download")
    /\ UNCHANGED <<given, published, storage, jobs, toPut, waiting, used,
                   doomed>>

\* One poll at a time.  In the code each tick polls in a goroutine of its own,
\* and a slow poll overlaps the next; they would share their jobs, as this one
\* shares those of the updates.
CohortPoll ==
    /\ load.polling
    /\ published > 0 /\ pc[1] = "done"
    /\ pc[Poll] = "none"
    /\ todo' = [todo EXCEPT ![Poll] = CohortsUsed]
    /\ Goto(Poll, "download")
    /\ UNCHANGED <<given, published, storage, jobs, toPut, waiting, used,
                   doomed>>

----------------------------------------------------------------------------
UpdateStep(v) ==
    \/ RemoveIf(v) \/ ReadCohorts(v) \/ PutsDone(v) \/ ReadUsed(v)
    \/ ReadStored(v) \/ DeletesDone(v)
    \/ \E f \in Flags : PutFlag(v, f)
    \/ \E c \in Cohorts, g \in Types : DeleteCohort(v, g, c)

DownloadStep(p) == Downloaded(p) \/ \E c \in Cohorts : LoadCohort(p, c)

JobStep(c) ==
    \/ JobRequests(c) \/ JobStores(c) \/ JobUnmodified(c) \/ JobFails(c)
    \/ JobEnds(c)

Next ==
    \/ Deliver \/ CohortPoll
    \/ \E v \in Versions : UpdateStep(v)
    \/ \E p \in Procs : DownloadStep(p)
    \/ \E c \in Cohorts : JobStep(c)

Spec == Init /\ [][Next]_vars

\* Goroutines run, requests are answered or fail, and polls repeat; a
\* download that is tried again and again succeeds at last.
Fairness ==
    /\ \A v \in Versions : WF_vars(UpdateStep(v))
    /\ \A p \in Procs : WF_vars(DownloadStep(p))
    /\ \A c \in Cohorts : WF_vars(JobStep(c)) /\ SF_vars(JobStores(c))
    /\ WF_vars(CohortPoll)

FairSpec == Spec /\ Fairness

----------------------------------------------------------------------------
(* Properties. *)

\* One update at a time and no cohort poll beside it.
Calm == load.active = 1 /\ ~load.polling

\* An update stores a flag only once its cohorts are stored, and no update
\* takes them away again: a stored flag lacks a cohort only if the last
\* download of that cohort failed.
FlagsHaveCohorts ==
    Calm /\ load.loader => CohortsUsed \subseteq CohortIds \cup failed

AllDone == published > 0 /\ \A v \in 1..published : pc[v] = "done"

\* Once every delivery has been handled, the storage holds exactly the flags
\* of the last one.
LatestConfigWins ==
    AllDone => flags = [f \in Flags |->
        IF f \in DOMAIN config[published] THEN published ELSE Absent]

\* One update at a time leaves what the last delivery asks for: exactly its
\* flags, and no cohort that only older ones needed.
StorageIsLatest ==
    Calm => LatestConfigWins /\ (AllDone => CohortIds \subseteq CohortsUsed)

\* A stored cohort is in the index under the group type it was stored with,
\* where an evaluation for that type looks for it, although downloads that
\* change its type and deletions that read its older type overlap.
StoredIsFound == \A c \in CohortIds : <<cohorts[c], c>> \in index

\* Every delivery is handled to its end, whatever jobs it waits for are
\* shared with other updates and with the cohort poll.
UpdatesEnd == \A v \in Versions : pc[v] = "remove" ~> pc[v] = "done"

\* Cohorts lost to races between updates and polls come back: with the cohort
\* poll running, the stored flags have their cohorts in the end.
CohortsHeal == <>[](load.polling => CohortsUsed \subseteq CohortIds)

============================================================================
