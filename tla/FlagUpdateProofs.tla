-------------------------- MODULE FlagUpdateProofs --------------------------
(***************************************************************************)
(* A stored cohort is found under the group type it came with, for any     *)
(* number of updates, polls and jobs in progress; and updates that run one *)
(* at a time leave what the last delivery asks for, with its cohorts.      *)
(***************************************************************************)
EXTENDS FlagUpdate, FiniteSetTheorems, TLAPS

\* What the storage of cohorts holds is typed.
StorageTyped ==
    /\ load \in Loads
    /\ cohorts \in [Cohorts -> Types \cup {NoType}]

IInv == StorageTyped /\ StoredIsFound

LEMMA TypesOfLoads == ASSUME load \in Loads PROVE load.types \subseteq Types
  BY FlagUpdateAssumption DEF FlagUpdateAssumption

LEMMA InitEstablishes == Init => IInv
  BY DEF Init, IInv, StorageTyped, StoredIsFound, CohortIds

\* Steps that leave the storage of cohorts alone.
LEMMA StorageUntouched ==
  ASSUME IInv, UNCHANGED <<load, cohorts, index>>
  PROVE  IInv'
  BY DEF IInv, StorageTyped, StoredIsFound, CohortIds

\* The new copy is filed before the old entry can matter.
LEMMA JobStoresKeeps ==
  ASSUME IInv, NEW c \in Cohorts, JobStores(c)
  PROVE  IInv'
<1>1. PICK g \in load.types :
        /\ cohorts' = [cohorts EXCEPT ![c] = g]
        /\ index' = index \cup {<<g, c>>}
  BY DEF JobStores
<1>2. load' = load /\ load \in Loads
  BY DEF JobStores, given, IInv, StorageTyped
<1>3. g \in Types
  BY <1>2, TypesOfLoads
<1>4. StorageTyped'
  BY <1>1, <1>2, <1>3 DEF IInv, StorageTyped
<1>5. StoredIsFound'
  <2> SUFFICES ASSUME NEW d \in Cohorts, cohorts'[d] # NoType
               PROVE  <<cohorts'[d], d>> \in index'
    BY DEF StoredIsFound, CohortIds
  <2>1. CASE d = c
    BY <1>1, <2>1 DEF IInv, StorageTyped
  <2>2. CASE d # c
    <3>1. cohorts'[d] = cohorts[d]
      BY <1>1, <2>2 DEF IInv, StorageTyped
    <3>2. <<cohorts[d], d>> \in index
      BY <3>1 DEF IInv, StoredIsFound, CohortIds
    <3> QED
      BY <1>1, <3>1, <3>2
  <2> QED
    BY <2>1, <2>2
<1> QED
  BY <1>4, <1>5 DEF IInv

\* The entry that goes is one of the cohort that goes.
LEMMA DeleteCohortKeeps ==
  ASSUME IInv, NEW v \in Versions, NEW g \in Types, NEW c \in Cohorts,
         DeleteCohort(v, g, c)
  PROVE  IInv'
<1>1. StorageTyped'
  BY DEF DeleteCohort, given, IInv, StorageTyped
<1>2. StoredIsFound'
  <2> SUFFICES ASSUME NEW d \in Cohorts, cohorts'[d] # NoType
               PROVE  <<cohorts'[d], d>> \in index'
    BY DEF StoredIsFound, CohortIds
  <2>1. d # c /\ cohorts'[d] = cohorts[d]
    BY DEF DeleteCohort, IInv, StorageTyped
  <2>2. <<cohorts[d], d>> \in index
    BY <2>1 DEF IInv, StoredIsFound, CohortIds
  <2> QED
    BY <2>1, <2>2 DEF DeleteCohort
<1> QED
  BY <1>1, <1>2 DEF IInv

LEMMA UpdateStepKeeps ==
  ASSUME IInv, NEW v \in Versions, UpdateStep(v)
  PROVE  IInv'
<1>1. CASE \E c \in Cohorts, g \in Types : DeleteCohort(v, g, c)
  BY <1>1, DeleteCohortKeeps
<1>2. CASE \/ RemoveIf(v) \/ ReadCohorts(v) \/ PutsDone(v) \/ ReadUsed(v)
           \/ ReadStored(v) \/ DeletesDone(v)
  BY <1>2, StorageUntouched
  DEF RemoveIf, ReadCohorts, PutsDone, ReadUsed, ReadStored, Doom,
      DeletesDone, given, storage
<1>3. CASE \E f \in Flags : PutFlag(v, f)
  BY <1>3, StorageUntouched DEF PutFlag, given
<1> QED
  BY <1>1, <1>2, <1>3 DEF UpdateStep

LEMMA NextKeeps == ASSUME IInv, [Next]_vars PROVE IInv'
<1>1. CASE \E v \in Versions : UpdateStep(v)
  BY <1>1, UpdateStepKeeps
<1>2. CASE Deliver \/ CohortPoll
  BY <1>2, StorageUntouched DEF Deliver, CohortPoll, given, storage
<1>3. CASE \E p \in Procs : DownloadStep(p)
  BY <1>3, StorageUntouched
  DEF DownloadStep, Downloaded, LoadCohort, given, storage
<1>4. ASSUME NEW c \in Cohorts, JobStep(c) PROVE IInv'
  <2>1. CASE JobStores(c)
    BY <2>1, JobStoresKeeps
  <2>2. CASE JobRequests(c) \/ JobUnmodified(c) \/ JobFails(c) \/ JobEnds(c)
    BY <2>2, StorageUntouched
    DEF JobRequests, JobUnmodified, JobFails, JobEnds, given, storage
  <2> QED
    BY <1>4, <2>1, <2>2 DEF JobStep
<1>5. CASE UNCHANGED vars
  BY <1>5, StorageUntouched DEF vars
<1> QED
  BY <1>1, <1>2, <1>3, <1>4, <1>5 DEF Next

\* A stored cohort is in the index under its group type, however many updates
\* and jobs overlap and however the type changes.
THEOREM StoredCohortsAreFound == Spec => []StoredIsFound
<1>1. IInv => StoredIsFound
  BY DEF IInv
<1> QED
  BY <1>1, InitEstablishes, NextKeeps, PTL DEF Spec

----------------------------------------------------------------------------
(* One update at a time and no cohort poll beside it. *)

Labels == {"none", "remove", "cohorts", "download", "put", "used", "stored",
           "delete", "done"}

Typed ==
    /\ load \in Loads
    /\ TypeOK
    /\ \A v \in Versions : toPut[v] \subseteq DOMAIN config[v]

\* The update of the last delivery is in progress or all are done.
OneUpdate ==
    /\ pc[Poll] = "none"
    /\ \A v \in Versions :
        /\ v > published => pc[v] = "none"
        /\ v = published => pc[v] # "none"
        /\ v < published => pc[v] = "done"

\* Where the current update is; before the first there is none.
At(labels) == published > 0 /\ pc[published] \in labels

\* What has been put and not removed is of the current update.
FlagsAreCurrent ==
    /\ published = 0 => Stored = {}
    /\ published > 0 =>
        /\ toPut[published] \subseteq DOMAIN config[published]
        /\ \A f \in DOMAIN config[published] \ toPut[published] :
            flags[f] = published
    /\ At(Labels \ {"remove"}) => Stored \subseteq DOMAIN config[published]
    /\ At({"used", "stored", "delete", "done"}) => toPut[published] = {}

\* A job runs only while the current update waits for it, and ends with the
\* cohort stored or its download failed.
JobsAreAwaited ==
    \A c \in Cohorts :
        /\ job[c] # "none" => At({"download"}) /\ c \in waiting[published]
        /\ job[c] = "requested" /\ known[c] => c \in CohortIds
        /\ job[c] = "ending" => c \in CohortIds \cup failed

\* Before flags are put, the cohorts they need are stored, or failed, or
\* still to come.
NeededAreLoaded ==
    /\ At({"download"}) =>
        NeededBy(config[published])
            \subseteq CohortIds \cup failed
                        \cup todo[published] \cup waiting[published]
    /\ load.loader /\ At({"put"}) =>
        NeededBy(config[published]) \subseteq CohortIds \cup failed

\* What is deleted is what no stored flag needs, all of it.
UnusedAreDeleted ==
    /\ At({"stored"}) => used[published] = CohortsUsed
    /\ At({"delete"}) =>
        /\ \A g \in Types, c \in Cohorts :
            <<g, c>> \in doomed[published] => c \notin CohortsUsed
        /\ \A c \in CohortIds \ CohortsUsed :
            <<cohorts[c], c>> \in doomed[published]
    /\ At({"done"}) => CohortIds \subseteq CohortsUsed

WithoutLoader ==
    ~load.loader => CohortIds = {} /\ ~At({"cohorts", "download", "used",
                                           "stored", "delete"})

HaveCohorts == load.loader => CohortsUsed \subseteq CohortIds \cup failed

CalmParts ==
    /\ OneUpdate /\ FlagsAreCurrent /\ JobsAreAwaited
    /\ NeededAreLoaded /\ UnusedAreDeleted /\ WithoutLoader
    /\ HaveCohorts

CalmInv == Typed /\ (Calm => CalmParts)

----------------------------------------------------------------------------
LEMMA LoadType ==
  ASSUME load \in Loads
  PROVE  /\ load.configs \subseteq Configs /\ load.types \subseteq Types
         /\ load.active \in Nat
  BY FlagUpdateAssumption DEF FlagUpdateAssumption

LEMMA VersionType ==
  /\ MaxVersion \in Nat /\ Versions = 1..MaxVersion
  /\ \A v \in Versions : v \in Nat /\ v > 0 /\ v \in Procs /\ v # Poll
  /\ \A p \in Procs : p = Poll \/ p \in Versions
  BY FlagUpdateAssumption DEF FlagUpdateAssumption, Versions, Procs, Poll

LEMMA ConfigType ==
  ASSUME NEW g \in Configs
  PROVE  /\ DOMAIN g \subseteq Flags
         /\ \A f \in DOMAIN g : g[f] \subseteq Cohorts
                                    /\ g[f] \subseteq NeededBy(g)
         /\ NeededBy(g) \subseteq Cohorts
  BY DEF Configs, NeededBy

\* The storages and what they give rise to.
LEMMA FlagsStay ==
  ASSUME UNCHANGED <<flags, config>>
  PROVE  Stored' = Stored /\ CohortsUsed' = CohortsUsed
  BY DEF Stored, CohortsUsed, Needs

LEMMA CohortsStay ==
  ASSUME UNCHANGED cohorts PROVE CohortIds' = CohortIds
  BY DEF CohortIds

----------------------------------------------------------------------------
(* Types. *)

LEMMA InitTyped == Init => Typed
<1> SUFFICES ASSUME Init PROVE Typed
  OBVIOUS
<1>1. 0 \in 0..MaxVersion
  BY VersionType
<1>2. \A f \in Flags : flags[f] = Absent
  BY DEF Init
<1>3. Stored = {}
  BY <1>2 DEF Stored
<1>4. flags \in [Flags -> 0..MaxVersion]
  BY <1>1 DEF Init, Absent
<1>5. cohorts \in [Cohorts -> Types \cup {NoType}]
  BY DEF Init
<1>6. TypeOK
  BY <1>1, <1>3, <1>4, <1>5 DEF Init, TypeOK
<1>7. \A v \in Versions : toPut[v] \subseteq DOMAIN config[v]
  BY DEF Init
<1> QED
  BY <1>6, <1>7 DEF Init, Typed

LEMMA ConfigsTyped ==
  ASSUME Typed, NEW v \in Versions
  PROVE  config[v] \in Configs
  BY LoadType DEF Typed, TypeOK

LEMMA UsedType ==
  ASSUME Typed
  PROVE  CohortsUsed \subseteq Cohorts
<1>1. ASSUME NEW f \in Stored PROVE Needs(f) \subseteq Cohorts
  <2>1. flags[f] \in Versions /\ f \in DOMAIN config[flags[f]]
    BY VersionType DEF Typed, TypeOK, Stored, Absent
  <2>2. config[flags[f]] \in Configs
    BY <2>1, ConfigsTyped
  <2> QED
    BY <2>1, <2>2, ConfigType DEF Needs
<1> QED
  BY <1>1 DEF CohortsUsed

LEMMA DeliverTyped == ASSUME Typed, Deliver PROVE Typed'
<1>1. /\ published + 1 \in Versions /\ published + 1 \in Procs
      /\ published' = published + 1 /\ published' \in 0..MaxVersion
  BY VersionType DEF Deliver, Typed, TypeOK
<1>2. DOMAIN config[published + 1] \subseteq Flags
  BY <1>1, ConfigsTyped, ConfigType
<1>3. Stored' = Stored
  BY FlagsStay DEF Deliver, given, storage
<1> QED
  BY <1>1, <1>2, <1>3
  DEF Deliver, Typed, TypeOK, Goto, given, storage, jobs

LEMMA RemoveIfTyped ==
  ASSUME Typed, NEW v \in Versions, RemoveIf(v) PROVE Typed'
<1>1. v \in Procs
  BY VersionType
<1>2. 0 \in 0..MaxVersion
  BY VersionType
<1>3. \A f \in Stored' : f \in Stored /\ flags'[f] = flags[f]
  BY DEF RemoveIf, Stored, Typed, TypeOK
<1> QED
  BY <1>1, <1>2, <1>3
  DEF RemoveIf, Typed, TypeOK, Goto, given, jobs, locals, Absent

LEMMA ReadCohortsTyped ==
  ASSUME Typed, NEW v \in Versions, ReadCohorts(v) PROVE Typed'
<1>1. v \in Procs /\ NeededBy(config[v]) \subseteq Cohorts
  BY VersionType, ConfigsTyped, ConfigType
<1>2. Stored' = Stored
  BY FlagsStay DEF ReadCohorts, given, storage
<1> QED
  BY <1>1, <1>2 DEF ReadCohorts, Typed, TypeOK, Goto, given, storage, jobs

LEMMA PutFlagTyped ==
  ASSUME Typed, NEW v \in Versions, NEW f \in Flags, PutFlag(v, f)
  PROVE  Typed'
<1>1. v \in 0..MaxVersion
  BY VersionType
<1>2. f \in DOMAIN config[v]
  BY DEF PutFlag, Typed
<1>3. \A e \in Stored' : e \in DOMAIN config'[flags'[e]]
  <2> SUFFICES ASSUME NEW e \in Stored' PROVE e \in DOMAIN config'[flags'[e]]
    OBVIOUS
  <2>1. CASE e = f
    BY <1>2, <2>1 DEF PutFlag, Typed, TypeOK, given
  <2>2. CASE e # f
    BY <2>2 DEF PutFlag, Typed, TypeOK, given, Stored
  <2> QED
    BY <2>1, <2>2
<1> QED
  BY <1>1, <1>3 DEF PutFlag, Typed, TypeOK, given, jobs

LEMMA ReadUsedTyped ==
  ASSUME Typed, NEW v \in Versions, ReadUsed(v) PROVE Typed'
<1>1. v \in Procs /\ CohortsUsed \subseteq Cohorts
  BY VersionType, UsedType
<1>2. Stored' = Stored
  BY FlagsStay DEF ReadUsed, given, storage
<1> QED
  BY <1>1, <1>2 DEF ReadUsed, Typed, TypeOK, Goto, given, storage, jobs

LEMMA ReadStoredTyped ==
  ASSUME Typed, NEW v \in Versions, ReadStored(v) PROVE Typed'
<1>1. v \in Procs
  BY VersionType
<1>2. \A c \in CohortIds : c \in Cohorts /\ cohorts[c] \in Types
  BY DEF CohortIds, Typed, TypeOK
<1>3. {<<cohorts[c], c>> : c \in CohortIds \ used[v]} \subseteq Types \X Cohorts
  BY <1>2
<1>4. Stored' = Stored
  BY FlagsStay DEF ReadStored, Doom, given, storage
<1> QED
  BY <1>1, <1>3, <1>4
  DEF ReadStored, Doom, Typed, TypeOK, Goto, given, storage, jobs

LEMMA OtherUpdateStepsTyped ==
  ASSUME Typed, NEW v \in Versions,
         \/ PutsDone(v) \/ DeletesDone(v)
         \/ \E c \in Cohorts, g \in Types : DeleteCohort(v, g, c)
  PROVE  Typed'
<1>1. v \in Procs
  BY VersionType
<1>2. Stored' = Stored
  BY FlagsStay DEF PutsDone, DeletesDone, DeleteCohort, given, storage
<1>3. CASE PutsDone(v) \/ DeletesDone(v)
  BY <1>1, <1>2, <1>3
  DEF PutsDone, DeletesDone, Typed, TypeOK, Goto, given, storage, jobs, locals
<1>4. CASE \E c \in Cohorts, g \in Types : DeleteCohort(v, g, c)
  BY <1>2, <1>4 DEF DeleteCohort, Typed, TypeOK, given, jobs
<1> QED
  BY <1>3, <1>4

LEMMA DownloadStepTyped ==
  ASSUME Typed, NEW p \in Procs, DownloadStep(p) PROVE Typed'
<1>1. Stored' = Stored
  BY FlagsStay DEF DownloadStep, Downloaded, LoadCohort, given, storage
<1>2. CASE Downloaded(p)
  BY <1>1, <1>2
  DEF Downloaded, Typed, TypeOK, Goto, given, storage, jobs, locals
<1>3. ASSUME NEW c \in Cohorts, LoadCohort(p, c) PROVE Typed'
  BY <1>1, <1>3 DEF LoadCohort, Typed, TypeOK, given, storage
<1> QED
  BY <1>2, <1>3 DEF DownloadStep

LEMMA JobStepTyped ==
  ASSUME Typed, NEW c \in Cohorts, JobStep(c) PROVE Typed'
<1>1. Stored' = Stored
  BY FlagsStay DEF JobStep, JobRequests, JobStores, JobUnmodified, JobFails,
     JobEnds, given, storage
<1>2. CASE JobRequests(c)
  BY <1>1, <1>2 DEF JobRequests, Typed, TypeOK, given, storage, locals
<1>3. CASE JobStores(c)
  BY <1>1, <1>3, LoadType DEF JobStores, Typed, TypeOK, given, locals
<1>4. CASE JobUnmodified(c) \/ JobFails(c)
  BY <1>1, <1>4
  DEF JobUnmodified, JobFails, Typed, TypeOK, given, storage, locals
<1>5. CASE JobEnds(c)
  BY <1>1, <1>5 DEF JobEnds, Typed, TypeOK, given, storage
<1> QED
  BY <1>2, <1>3, <1>4, <1>5 DEF JobStep

LEMMA CohortPollTyped == ASSUME Typed, CohortPoll PROVE Typed'
<1>1. CohortsUsed \subseteq Cohorts /\ Poll \in Procs
  BY UsedType DEF Procs
<1>2. Stored' = Stored
  BY FlagsStay DEF CohortPoll, given, storage
<1> QED
  BY <1>1, <1>2 DEF CohortPoll, Typed, TypeOK, Goto, given, storage, jobs

LEMMA NextTyped == ASSUME Typed, [Next]_vars PROVE Typed'
<1>1. CASE UNCHANGED vars
  BY <1>1, FlagsStay DEF vars, Typed, TypeOK
<1>2. ASSUME NEW v \in Versions, UpdateStep(v) PROVE Typed'
  BY <1>2, RemoveIfTyped, ReadCohortsTyped, PutFlagTyped, ReadUsedTyped,
     ReadStoredTyped, OtherUpdateStepsTyped DEF UpdateStep
<1> QED
  BY <1>1, <1>2, DeliverTyped, DownloadStepTyped, JobStepTyped,
     CohortPollTyped DEF Next

\* The variables stay what the code's types allow, a stored flag is always one
\* that its delivery brought, and a process waits only for a job that exists.
THEOREM TypeCorrect == Spec => []TypeOK
<1>1. Typed => TypeOK
  BY DEF Typed
<1> QED
  BY <1>1, InitTyped, NextTyped, PTL DEF Spec

----------------------------------------------------------------------------
(* The steps of the one update. *)

\* A process that is at a step is the current update.
LEMMA Current ==
  ASSUME Typed, OneUpdate, NEW p \in Procs, pc[p] \notin {"none", "done"}
  PROVE  p = published /\ p \in Versions /\ published > 0
<1>1. p # Poll /\ p \in Versions
  BY VersionType DEF OneUpdate
<1>2. p \in Nat /\ p > 0 /\ published \in Nat
  BY <1>1, VersionType DEF Typed, TypeOK
<1>3. ~(p > published) /\ ~(p < published)
  BY <1>1 DEF OneUpdate
<1> QED
  BY <1>1, <1>2, <1>3

\* The current update goes on to step l.
LEMMA Moves ==
  ASSUME Typed, OneUpdate, NEW v \in Versions, v = published,
         NEW l \in Labels \ {"none"}, Goto(v, l), published' = published
  PROVE  /\ OneUpdate'
         /\ \A L : At(L) <=> pc[v] \in L
         /\ \A L : At(L)' <=> l \in L
<1>1. v \in Procs /\ v # Poll /\ v \in Nat /\ v > 0 /\ Poll \in Procs
  BY VersionType DEF Procs
<1>2. /\ pc'[v] = l
      /\ \A p \in Procs : p # v => pc'[p] = pc[p]
  BY <1>1 DEF Goto, Typed, TypeOK
<1>3. \A w \in Versions : w \in Procs /\ w \in Nat
  BY VersionType
<1>4. OneUpdate'
  BY <1>1, <1>2, <1>3 DEF OneUpdate
<1> QED
  BY <1>1, <1>2, <1>4 DEF At

\* The current update stays at its step.
LEMMA Stays ==
  ASSUME OneUpdate, NEW v \in Versions, v = published,
         UNCHANGED <<pc, published>>
  PROVE  /\ OneUpdate'
         /\ \A L : At(L) <=> pc[v] \in L
         /\ \A L : At(L)' <=> pc[v] \in L
  BY VersionType DEF OneUpdate, At

\* Nothing is being downloaded.
LEMMA NoJobs ==
  ASSUME JobsAreAwaited, ~At({"download"}), UNCHANGED job
  PROVE  JobsAreAwaited'
<1>1. \A c \in Cohorts : job[c] = "none"
  BY DEF JobsAreAwaited
<1> QED
  BY <1>1 DEF JobsAreAwaited

LEMMA FinishedIsDone ==
  ASSUME Typed, OneUpdate, Calm, Deliver
  PROVE  \A v \in Versions : v <= published => pc[v] = "done"
<1>1. Cardinality(Active) < 1
  BY DEF Deliver, Calm
<1>2. IsFiniteSet(Active)
  <2>1. IsFiniteSet(Versions)
    BY FS_Interval, VersionType
  <2> QED
    BY <2>1, FS_Subset DEF Active
<1>3. Active = {}
  BY <1>1, <1>2, FS_EmptySet, FS_CardinalityType
<1>4. \A v \in Versions : pc[v] \in {"none", "done"}
  BY <1>3 DEF Active
<1> QED
  BY <1>4, VersionType DEF OneUpdate, Typed, TypeOK

LEMMA DeliverCalm ==
  ASSUME Typed, Calm, CalmParts, Deliver
  PROVE  CalmParts'
<1>1. PICK n : n = published + 1
  OBVIOUS
<1>2. /\ n \in Versions /\ n \in Procs /\ n \in Nat /\ n > 0 /\ n # Poll
      /\ published \in Nat /\ published' = n
      /\ pc' = [pc EXCEPT ![n] = "remove"]
      /\ toPut' = [toPut EXCEPT ![n] = DOMAIN config[n]]
      /\ UNCHANGED <<load, config, flags, cohorts, failed, job, known>>
  BY <1>1, VersionType
  DEF Deliver, Goto, Typed, TypeOK, given, storage, jobs
<1>3. \A v \in Versions : v < n => pc[v] = "done"
  <2>1. \A v \in Versions : v < n => v <= published
    BY <1>1, <1>2, VersionType
  <2> QED
    BY <2>1, FinishedIsDone DEF CalmParts
<1>4. /\ pc'[n] = "remove"
      /\ \A p \in Procs : p # n => pc'[p] = pc[p]
      /\ toPut'[n] = DOMAIN config[n]
  BY <1>2 DEF Typed, TypeOK
<1>5. OneUpdate'
  <2>1. pc'[Poll] = "none"
    BY <1>2, <1>4 DEF CalmParts, OneUpdate, Procs
  <2>2. ASSUME NEW v \in Versions
        PROVE  /\ v > n => pc'[v] = "none"
               /\ v = n => pc'[v] # "none"
               /\ v < n => pc'[v] = "done"
    <3>1. v \in Procs /\ v \in Nat
      BY VersionType
    <3>2. v > n => v > published
      BY <1>1, <1>2, <3>1
    <3> QED
      BY <1>2, <1>3, <1>4, <3>1, <3>2 DEF CalmParts, OneUpdate
  <2> QED
    BY <1>2, <2>1, <2>2 DEF OneUpdate
<1>6. \A L : At(L)' <=> "remove" \in L
  BY <1>2, <1>4 DEF At
<1>7. ~At({"download"})
  <2>1. published > 0 => published \in Versions /\ published < n
    BY <1>1, <1>2, VersionType DEF Typed, TypeOK
  <2> QED
    BY <1>3, <2>1 DEF At
<1>8. Stored' = Stored /\ CohortsUsed' = CohortsUsed /\ CohortIds' = CohortIds
  BY <1>2, FlagsStay, CohortsStay
<1>9. FlagsAreCurrent'
  BY <1>2, <1>4, <1>6 DEF FlagsAreCurrent
<1>10. JobsAreAwaited'
  BY <1>2, <1>7, NoJobs DEF CalmParts
<1>11. NeededAreLoaded' /\ UnusedAreDeleted'
  BY <1>6 DEF NeededAreLoaded, UnusedAreDeleted
<1>12. WithoutLoader' /\ HaveCohorts'
  BY <1>2, <1>6, <1>8 DEF CalmParts, WithoutLoader, HaveCohorts
<1> QED
  BY <1>5, <1>9, <1>10, <1>11, <1>12 DEF CalmParts

LEMMA RemoveIfCalm ==
  ASSUME Typed, CalmParts, NEW v \in Versions, RemoveIf(v)
  PROVE  CalmParts'
<1>1. PICK l : l = IF load.loader THEN "cohorts" ELSE "put"
  OBVIOUS
<1>2. /\ v \in Procs /\ pc[v] = "remove" /\ Goto(v, l)
      /\ l \in Labels \ {"none"}
      /\ UNCHANGED <<load, published, config, cohorts, failed, job, known,
                     toPut>>
  BY <1>1, VersionType DEF RemoveIf, Labels, given, jobs, locals
<1>3. v = published /\ published > 0
  BY <1>2, Current DEF CalmParts
<1>4. /\ OneUpdate'
      /\ \A L : At(L) <=> "remove" \in L
      /\ \A L : At(L)' <=> l \in L
  BY <1>2, <1>3, Moves DEF CalmParts
<1>5. flags' = [f \in Flags |->
                    IF f \in DOMAIN config[v] THEN flags[f] ELSE Absent]
  BY DEF RemoveIf
<1>6. /\ Stored' \subseteq Stored \cap DOMAIN config[v]
      /\ \A f \in Stored' : flags'[f] = flags[f]
  BY <1>5 DEF Stored
<1>7. CohortsUsed' \subseteq CohortsUsed
  BY <1>2, <1>6 DEF CohortsUsed, Needs
<1>8. CohortIds' = CohortIds
  BY <1>2, CohortsStay
<1>9. FlagsAreCurrent'
  <2>1. DOMAIN config[v] \subseteq Flags
    BY ConfigsTyped, ConfigType
  <2>2. /\ toPut[v] \subseteq DOMAIN config[v]
        /\ \A f \in DOMAIN config[v] \ toPut[v] : flags'[f] = v
    BY <1>3, <1>5, <2>1 DEF CalmParts, FlagsAreCurrent
  <2> QED
    BY <1>1, <1>2, <1>3, <1>4, <1>6, <2>2 DEF FlagsAreCurrent
<1>10. JobsAreAwaited'
  BY <1>2, <1>4, NoJobs DEF CalmParts
<1>11. NeededAreLoaded' /\ UnusedAreDeleted'
  BY <1>1, <1>2, <1>4 DEF NeededAreLoaded, UnusedAreDeleted
<1>12. WithoutLoader' /\ HaveCohorts'
  BY <1>1, <1>2, <1>4, <1>7, <1>8 DEF CalmParts, WithoutLoader, HaveCohorts
<1> QED
  BY <1>4, <1>9, <1>10, <1>11, <1>12 DEF CalmParts

LEMMA ReadCohortsCalm ==
  ASSUME Typed, CalmParts, NEW v \in Versions, ReadCohorts(v)
  PROVE  CalmParts'
<1>1. /\ v \in Procs /\ pc[v] = "cohorts" /\ Goto(v, "download")
      /\ "download" \in Labels \ {"none"}
      /\ UNCHANGED <<load, published, config, flags, cohorts, failed, job,
                     known, toPut, waiting>>
  BY VersionType DEF ReadCohorts, Labels, given, storage, jobs
<1>2. v = published /\ published > 0
  BY <1>1, Current DEF CalmParts
<1>3. /\ OneUpdate'
      /\ \A L : At(L) <=> "cohorts" \in L
      /\ \A L : At(L)' <=> "download" \in L
  BY <1>1, <1>2, Moves DEF CalmParts
<1>4. Stored' = Stored /\ CohortsUsed' = CohortsUsed /\ CohortIds' = CohortIds
  BY <1>1, FlagsStay, CohortsStay
<1>5. FlagsAreCurrent'
  BY <1>1, <1>2, <1>3, <1>4 DEF CalmParts, FlagsAreCurrent, Labels
<1>6. JobsAreAwaited'
  BY <1>1, <1>3, NoJobs DEF CalmParts
<1>7. todo'[v] = NeededBy(config[v]) \ CohortIds
  BY <1>1 DEF ReadCohorts, Typed, TypeOK
<1>8. NeededAreLoaded' /\ UnusedAreDeleted'
  BY <1>1, <1>2, <1>3, <1>4, <1>7 DEF NeededAreLoaded, UnusedAreDeleted
<1>9. WithoutLoader' /\ HaveCohorts'
  BY <1>1, <1>3, <1>4 DEF CalmParts, WithoutLoader, HaveCohorts
<1> QED
  BY <1>3, <1>5, <1>6, <1>8, <1>9 DEF CalmParts

LEMMA PutFlagCalm ==
  ASSUME Typed, CalmParts, NEW v \in Versions, NEW f \in Flags, PutFlag(v, f)
  PROVE  CalmParts'
<1>1. /\ v \in Procs /\ pc[v] = "put"
      /\ UNCHANGED <<load, published, config, cohorts, failed, job, known, pc>>
  BY VersionType DEF PutFlag, given, jobs
<1>2. v = published /\ published > 0
  BY <1>1, Current DEF CalmParts
<1>3. /\ OneUpdate'
      /\ \A L : At(L) <=> "put" \in L
      /\ \A L : At(L)' <=> "put" \in L
  BY <1>1, <1>2, Stays DEF CalmParts
<1>4. /\ flags'[f] = v
      /\ \A e \in Flags : e # f => flags'[e] = flags[e]
      /\ toPut'[v] = toPut[v] \ {f}
      /\ f \in DOMAIN config[v] /\ toPut[v] \subseteq DOMAIN config[v]
  BY DEF PutFlag, Typed, TypeOK
<1>5. CohortIds' = CohortIds
  BY <1>1, CohortsStay
<1>6. Stored' \subseteq Stored \cup {f}
  BY <1>4 DEF Stored
<1>7. CohortsUsed' \subseteq CohortsUsed \cup NeededBy(config[v])
  <2>1. \A e \in Stored' : e # f => e \in Stored /\ Needs(e)' = Needs(e)
    BY <1>1, <1>4, <1>6 DEF Needs, Stored
  <2>2. Needs(f)' \subseteq NeededBy(config[v])
    BY <1>1, <1>4, ConfigsTyped, ConfigType DEF Needs
  <2> QED
    BY <2>1, <2>2 DEF CohortsUsed
<1>8. FlagsAreCurrent'
  <2>1. \A e \in DOMAIN config[v] \ toPut'[v] : flags'[e] = v
    BY <1>2, <1>4, ConfigsTyped, ConfigType DEF CalmParts, FlagsAreCurrent
  <2> QED
    BY <1>1, <1>2, <1>3, <1>4, <1>6, <2>1
    DEF CalmParts, FlagsAreCurrent, Labels
<1>9. JobsAreAwaited'
  BY <1>1, <1>3, NoJobs DEF CalmParts
<1>10. NeededAreLoaded' /\ UnusedAreDeleted'
  BY <1>1, <1>2, <1>3, <1>5
  DEF CalmParts, NeededAreLoaded, UnusedAreDeleted
<1>11. WithoutLoader' /\ HaveCohorts'
  BY <1>1, <1>2, <1>3, <1>5, <1>7
  DEF CalmParts, WithoutLoader, HaveCohorts, NeededAreLoaded
<1> QED
  BY <1>3, <1>8, <1>9, <1>10, <1>11 DEF CalmParts

\* Steps of the update that only read the storages, or are over.
LEMMA ReadsCalm ==
  ASSUME Typed, CalmParts, NEW v \in Versions, NEW l \in Labels \ {"none"},
         Goto(v, l), pc[v] \notin {"none", "done", "remove", "download"},
         UNCHANGED <<load, published, config, flags, cohorts, failed, job,
                     known, toPut>>
  PROVE  /\ v = published /\ published > 0
         /\ OneUpdate' /\ JobsAreAwaited' /\ HaveCohorts'
         /\ Stored' = Stored /\ CohortsUsed' = CohortsUsed
         /\ CohortIds' = CohortIds
         /\ \A L : At(L) <=> pc[v] \in L
         /\ \A L : At(L)' <=> l \in L
<1>1. v = published /\ published > 0 /\ v \in Procs
  BY VersionType, Current DEF CalmParts
<1>2. /\ OneUpdate'
      /\ \A L : At(L) <=> pc[v] \in L
      /\ \A L : At(L)' <=> l \in L
  BY <1>1, Moves DEF CalmParts
<1>3. JobsAreAwaited'
  BY <1>2, NoJobs DEF CalmParts
<1>4. Stored' = Stored /\ CohortsUsed' = CohortsUsed /\ CohortIds' = CohortIds
  BY FlagsStay, CohortsStay
<1>5. HaveCohorts'
  BY <1>4 DEF CalmParts, HaveCohorts
<1> QED
  BY <1>1, <1>2, <1>3, <1>4, <1>5

LEMMA PutsDoneCalm ==
  ASSUME Typed, CalmParts, NEW v \in Versions, PutsDone(v)
  PROVE  CalmParts'
<1>1. PICK l : l = IF load.loader THEN "used" ELSE "done"
  OBVIOUS
<1>2. /\ pc[v] = "put" /\ Goto(v, l) /\ l \in Labels \ {"none"}
      /\ toPut[v] = {}
      /\ UNCHANGED <<load, published, config, flags, cohorts, failed, job,
                     known, toPut>>
  BY <1>1 DEF PutsDone, Labels, given, storage, jobs, locals
<1>3. /\ v = published /\ published > 0
      /\ OneUpdate' /\ JobsAreAwaited' /\ HaveCohorts'
      /\ Stored' = Stored /\ CohortsUsed' = CohortsUsed
      /\ CohortIds' = CohortIds
      /\ \A L : At(L) <=> "put" \in L
      /\ \A L : At(L)' <=> l \in L
  BY <1>2, ReadsCalm
<1>4. FlagsAreCurrent'
  BY <1>2, <1>3 DEF CalmParts, FlagsAreCurrent, Labels
<1>5. NeededAreLoaded'
  BY <1>1, <1>3 DEF NeededAreLoaded
<1>6. UnusedAreDeleted' /\ WithoutLoader'
  BY <1>1, <1>2, <1>3 DEF CalmParts, UnusedAreDeleted, WithoutLoader
<1> QED
  BY <1>3, <1>4, <1>5, <1>6 DEF CalmParts

LEMMA ReadUsedCalm ==
  ASSUME Typed, CalmParts, NEW v \in Versions, ReadUsed(v)
  PROVE  CalmParts'
<1>1. /\ pc[v] = "used" /\ Goto(v, "stored")
      /\ "stored" \in Labels \ {"none"}
      /\ used'[v] = CohortsUsed
      /\ UNCHANGED <<load, published, config, flags, cohorts, failed, job,
                     known, toPut>>
  BY DEF ReadUsed, Labels, given, storage, jobs, Typed, TypeOK
<1>2. /\ v = published /\ published > 0
      /\ OneUpdate' /\ JobsAreAwaited' /\ HaveCohorts'
      /\ Stored' = Stored /\ CohortsUsed' = CohortsUsed
      /\ CohortIds' = CohortIds
      /\ \A L : At(L) <=> "used" \in L
      /\ \A L : At(L)' <=> "stored" \in L
  BY <1>1, ReadsCalm
<1>3. FlagsAreCurrent'
  BY <1>1, <1>2 DEF CalmParts, FlagsAreCurrent, Labels
<1>4. NeededAreLoaded' /\ UnusedAreDeleted'
  BY <1>1, <1>2 DEF NeededAreLoaded, UnusedAreDeleted
<1>5. WithoutLoader'
  BY <1>1, <1>2 DEF CalmParts, WithoutLoader
<1> QED
  BY <1>2, <1>3, <1>4, <1>5 DEF CalmParts

LEMMA ReadStoredCalm ==
  ASSUME Typed, CalmParts, NEW v \in Versions, ReadStored(v)
  PROVE  CalmParts'
<1>1. /\ pc[v] = "stored" /\ Goto(v, "delete")
      /\ "delete" \in Labels \ {"none"}
      /\ doomed'[v] = {<<cohorts[c], c>> : c \in CohortIds \ used[v]}
      /\ UNCHANGED <<load, published, config, flags, cohorts, failed, job,
                     known, toPut>>
  BY DEF ReadStored, Doom, Labels, given, storage, jobs, Typed, TypeOK
<1>2. /\ v = published /\ published > 0
      /\ OneUpdate' /\ JobsAreAwaited' /\ HaveCohorts'
      /\ Stored' = Stored /\ CohortsUsed' = CohortsUsed
      /\ CohortIds' = CohortIds
      /\ \A L : At(L) <=> "stored" \in L
      /\ \A L : At(L)' <=> "delete" \in L
  BY <1>1, ReadsCalm
<1>3. FlagsAreCurrent'
  BY <1>1, <1>2 DEF CalmParts, FlagsAreCurrent, Labels
<1>4. used[v] = CohortsUsed
  BY <1>2 DEF CalmParts, UnusedAreDeleted
<1>5. NeededAreLoaded' /\ UnusedAreDeleted'
  <2>1. \A g \in Types, c \in Cohorts :
            <<g, c>> \in doomed'[v] => c \notin CohortsUsed
    BY <1>1, <1>4
  <2>2. \A c \in CohortIds \ CohortsUsed : <<cohorts[c], c>> \in doomed'[v]
    BY <1>1, <1>4
  <2> QED
    BY <1>1, <1>2, <2>1, <2>2 DEF NeededAreLoaded, UnusedAreDeleted
<1>6. WithoutLoader'
  BY <1>1, <1>2 DEF CalmParts, WithoutLoader
<1> QED
  BY <1>2, <1>3, <1>5, <1>6 DEF CalmParts

LEMMA DeleteCohortCalm ==
  ASSUME Typed, CalmParts, NEW v \in Versions, NEW g \in Types,
         NEW c \in Cohorts, DeleteCohort(v, g, c)
  PROVE  CalmParts'
<1>1. /\ v \in Procs /\ pc[v] = "delete" /\ <<g, c>> \in doomed[v]
      /\ doomed'[v] = doomed[v] \ {<<g, c>>}
      /\ UNCHANGED <<load, published, config, flags, failed, job, known, pc,
                     toPut>>
  BY VersionType DEF DeleteCohort, given, jobs, Typed, TypeOK
<1>2. v = published /\ published > 0
  BY <1>1, Current DEF CalmParts
<1>3. /\ OneUpdate'
      /\ \A L : At(L) <=> "delete" \in L
      /\ \A L : At(L)' <=> "delete" \in L
  BY <1>1, <1>2, Stays DEF CalmParts
<1>4. Stored' = Stored /\ CohortsUsed' = CohortsUsed
  BY <1>1, FlagsStay
<1>5. /\ CohortIds' = CohortIds \ {c}
      /\ \A d \in CohortIds' : cohorts'[d] = cohorts[d]
  BY DEF DeleteCohort, CohortIds, Typed, TypeOK
<1>6. c \notin CohortsUsed
  BY <1>1, <1>2, <1>3 DEF CalmParts, UnusedAreDeleted
<1>7. FlagsAreCurrent'
  BY <1>1, <1>2, <1>3, <1>4 DEF CalmParts, FlagsAreCurrent
<1>8. JobsAreAwaited'
  BY <1>1, <1>3, NoJobs DEF CalmParts
<1>9. NeededAreLoaded' /\ UnusedAreDeleted'
  <2>1. \A d \in CohortIds' \ CohortsUsed : <<cohorts'[d], d>> \in doomed'[v]
    BY <1>1, <1>2, <1>3, <1>5 DEF CalmParts, UnusedAreDeleted
  <2>2. \A h \in Types, d \in Cohorts :
            <<h, d>> \in doomed'[v] => d \notin CohortsUsed
    BY <1>1, <1>2, <1>3 DEF CalmParts, UnusedAreDeleted
  <2> QED
    BY <1>1, <1>2, <1>3, <1>4, <2>1, <2>2
    DEF NeededAreLoaded, UnusedAreDeleted
<1>10. WithoutLoader' /\ HaveCohorts'
  BY <1>1, <1>3, <1>4, <1>5, <1>6 DEF CalmParts, WithoutLoader, HaveCohorts
<1> QED
  BY <1>3, <1>7, <1>8, <1>9, <1>10 DEF CalmParts

LEMMA DeletesDoneCalm ==
  ASSUME Typed, CalmParts, NEW v \in Versions, DeletesDone(v)
  PROVE  CalmParts'
<1>1. /\ pc[v] = "delete" /\ Goto(v, "done") /\ doomed[v] = {}
      /\ "done" \in Labels \ {"none"}
      /\ UNCHANGED <<load, published, config, flags, cohorts, failed, job,
                     known, toPut>>
  BY DEF DeletesDone, Labels, given, storage, jobs, locals
<1>2. /\ v = published /\ published > 0
      /\ OneUpdate' /\ JobsAreAwaited' /\ HaveCohorts'
      /\ Stored' = Stored /\ CohortsUsed' = CohortsUsed
      /\ CohortIds' = CohortIds
      /\ \A L : At(L) <=> "delete" \in L
      /\ \A L : At(L)' <=> "done" \in L
  BY <1>1, ReadsCalm
<1>3. FlagsAreCurrent'
  BY <1>1, <1>2 DEF CalmParts, FlagsAreCurrent, Labels
<1>4. CohortIds \subseteq CohortsUsed
  BY <1>1, <1>2 DEF CalmParts, UnusedAreDeleted
<1>5. NeededAreLoaded' /\ UnusedAreDeleted' /\ WithoutLoader'
  BY <1>1, <1>2, <1>4
  DEF CalmParts, NeededAreLoaded, UnusedAreDeleted, WithoutLoader
<1> QED
  BY <1>2, <1>3, <1>5 DEF CalmParts

----------------------------------------------------------------------------
(* The jobs the one update waits for. *)

LEMMA LoadCohortCalm ==
  ASSUME Typed, CalmParts, NEW p \in Procs, NEW c \in Cohorts, LoadCohort(p, c)
  PROVE  CalmParts'
<1>1. /\ pc[p] = "download" /\ c \in todo[p]
      /\ todo'[p] = todo[p] \ {c} /\ waiting'[p] = waiting[p] \cup {c}
      /\ \A d \in Cohorts \ {c} : job'[d] = job[d]
      /\ job'[c] = IF job[c] = "none" THEN "started" ELSE job[c]
      /\ UNCHANGED <<load, published, config, flags, cohorts, failed, known,
                     pc, toPut>>
  BY DEF LoadCohort, given, storage, Typed, TypeOK
<1>2. p = published /\ published > 0 /\ p \in Versions
  BY <1>1, Current DEF CalmParts
<1>3. /\ OneUpdate'
      /\ \A L : At(L) <=> "download" \in L
      /\ \A L : At(L)' <=> "download" \in L
  BY <1>1, <1>2, Stays DEF CalmParts
<1>4. Stored' = Stored /\ CohortsUsed' = CohortsUsed /\ CohortIds' = CohortIds
  BY <1>1, FlagsStay, CohortsStay
<1>5. FlagsAreCurrent'
  BY <1>1, <1>2, <1>3, <1>4 DEF CalmParts, FlagsAreCurrent
<1>6. JobsAreAwaited'
  <2>1. \A d \in Cohorts : job[d] # "none" => d \in waiting[p]
    BY <1>2 DEF CalmParts, JobsAreAwaited
  <2> SUFFICES ASSUME NEW d \in Cohorts
               PROVE  /\ job'[d] # "none" => d \in waiting'[p]
                      /\ job'[d] = "requested" /\ known[d] => d \in CohortIds
                      /\ job'[d] = "ending" => d \in CohortIds \cup failed
    BY <1>1, <1>2, <1>3, <1>4 DEF JobsAreAwaited
  <2>2. CASE d = c
    BY <1>1, <2>2 DEF CalmParts, JobsAreAwaited
  <2>3. CASE d # c
    BY <1>1, <2>1, <2>3 DEF CalmParts, JobsAreAwaited
  <2> QED
    BY <2>2, <2>3
<1>7. NeededAreLoaded' /\ UnusedAreDeleted'
  <2>1. NeededBy(config[p]) \subseteq CohortIds \cup failed
                                        \cup todo[p] \cup waiting[p]
    BY <1>2, <1>3 DEF CalmParts, NeededAreLoaded
  <2> QED
    BY <1>1, <1>2, <1>3, <1>4, <2>1 DEF NeededAreLoaded, UnusedAreDeleted
<1>8. WithoutLoader' /\ HaveCohorts'
  BY <1>1, <1>3, <1>4 DEF CalmParts, WithoutLoader, HaveCohorts
<1> QED
  BY <1>3, <1>5, <1>6, <1>7, <1>8 DEF CalmParts

LEMMA DownloadedCalm ==
  ASSUME Typed, CalmParts, NEW p \in Procs, Downloaded(p)
  PROVE  CalmParts'
<1>1. /\ pc[p] = "download" /\ todo[p] = {} /\ waiting[p] = {}
      /\ UNCHANGED <<load, published, config, flags, cohorts, failed, job,
                     known, toPut, todo, waiting>>
  BY DEF Downloaded, given, storage, jobs, locals
<1>2. p = published /\ published > 0 /\ p \in Versions /\ p # Poll
  BY <1>1, Current, VersionType DEF CalmParts
<1>3. Goto(p, "put") /\ "put" \in Labels \ {"none"}
  BY <1>2 DEF Downloaded, Labels
<1>4. /\ OneUpdate'
      /\ \A L : At(L) <=> "download" \in L
      /\ \A L : At(L)' <=> "put" \in L
  BY <1>1, <1>2, <1>3, Moves DEF CalmParts
<1>5. Stored' = Stored /\ CohortsUsed' = CohortsUsed /\ CohortIds' = CohortIds
  BY <1>1, FlagsStay, CohortsStay
<1>6. FlagsAreCurrent'
  BY <1>1, <1>2, <1>4, <1>5 DEF CalmParts, FlagsAreCurrent, Labels
<1>7. JobsAreAwaited'
  <2>1. \A c \in Cohorts : job[c] = "none"
    BY <1>1, <1>2 DEF CalmParts, JobsAreAwaited
  <2> QED
    BY <1>1, <2>1 DEF JobsAreAwaited
<1>8. NeededAreLoaded' /\ UnusedAreDeleted'
  BY <1>1, <1>2, <1>4, <1>5
  DEF CalmParts, NeededAreLoaded, UnusedAreDeleted
<1>9. WithoutLoader' /\ HaveCohorts'
  BY <1>1, <1>4, <1>5 DEF CalmParts, WithoutLoader, HaveCohorts
<1> QED
  BY <1>4, <1>6, <1>7, <1>8, <1>9 DEF CalmParts

\* A job runs only while the update downloads, and its cohort is then stored,
\* or failed, or both, or none of them until it ends.
LEMMA JobsAt ==
  ASSUME Typed, CalmParts, NEW c \in Cohorts, job[c] # "none",
         UNCHANGED <<pc, published>>
  PROVE  /\ published \in Versions /\ c \in waiting[published]
         /\ OneUpdate'
         /\ \A L : At(L) <=> "download" \in L
         /\ \A L : At(L)' <=> "download" \in L
<1>1. published > 0 /\ pc[published] = "download" /\ c \in waiting[published]
  BY DEF CalmParts, JobsAreAwaited, At
<1>2. published \in Versions
  BY <1>1, VersionType DEF Typed, TypeOK
<1> QED
  BY <1>1, <1>2, Stays DEF CalmParts

\* A step of a job that stores no cohort away and leaves others' jobs alone.
LEMMA JobMovesCalm ==
  ASSUME Typed, CalmParts, NEW c \in Cohorts, job[c] # "none",
         UNCHANGED <<load, published, config, flags, pc, toPut, todo, waiting>>,
         CohortIds \subseteq CohortIds',
         CohortIds' \subseteq CohortIds \cup {c},
         failed \subseteq failed' \cup {c},
         c \in failed => c \in failed' \cup CohortIds',
         \A d \in Cohorts \ {c} : job'[d] = job[d] /\ known'[d] = known[d],
         job'[c] = "requested" /\ known'[c] => c \in CohortIds',
         job'[c] = "ending" => c \in CohortIds' \cup failed'
  PROVE  CalmParts'
<1>1. /\ published \in Versions /\ c \in waiting[published]
      /\ OneUpdate'
      /\ \A L : At(L) <=> "download" \in L
      /\ \A L : At(L)' <=> "download" \in L
  BY JobsAt
<1>2. Stored' = Stored /\ CohortsUsed' = CohortsUsed
  BY FlagsStay
<1>3. CohortIds \cup failed \subseteq CohortIds' \cup failed'
  OBVIOUS
<1>4. FlagsAreCurrent'
  BY <1>1, <1>2 DEF CalmParts, FlagsAreCurrent
<1>5. JobsAreAwaited'
  <2> SUFFICES ASSUME NEW d \in Cohorts
               PROVE  /\ job'[d] # "none" => d \in waiting[published]
                      /\ job'[d] = "requested" /\ known'[d] => d \in CohortIds'
                      /\ job'[d] = "ending" => d \in CohortIds' \cup failed'
    BY <1>1 DEF JobsAreAwaited
  <2>1. CASE d = c
    BY <1>1, <2>1
  <2>2. CASE d # c
    BY <1>3, <2>2 DEF CalmParts, JobsAreAwaited
  <2> QED
    BY <2>1, <2>2
<1>6. NeededAreLoaded' /\ UnusedAreDeleted'
  <2>1. NeededBy(config[published])
            \subseteq CohortIds \cup failed \cup todo[published]
                        \cup waiting[published]
    BY <1>1 DEF CalmParts, NeededAreLoaded
  <2> QED
    BY <1>1, <1>3, <2>1 DEF NeededAreLoaded, UnusedAreDeleted
<1>7. WithoutLoader' /\ HaveCohorts'
  BY <1>1, <1>2, <1>3 DEF CalmParts, WithoutLoader, HaveCohorts
<1> QED
  BY <1>1, <1>4, <1>5, <1>6, <1>7 DEF CalmParts

LEMMA JobEndsCalm ==
  ASSUME Typed, CalmParts, NEW c \in Cohorts, JobEnds(c)
  PROVE  CalmParts'
<1>1. /\ job[c] = "ending" /\ job'[c] = "none"
      /\ \A d \in Cohorts \ {c} : job'[d] = job[d] /\ known'[d] = known[d]
      /\ UNCHANGED <<load, published, config, flags, cohorts, failed, pc,
                     toPut, todo>>
      /\ waiting' = [p \in Procs |-> waiting[p] \ {c}]
  BY DEF JobEnds, given, storage, Typed, TypeOK
<1>2. /\ published \in Versions /\ published \in Procs
      /\ OneUpdate'
      /\ \A L : At(L) <=> "download" \in L
      /\ \A L : At(L)' <=> "download" \in L
  BY <1>1, JobsAt, VersionType
<1>3. Stored' = Stored /\ CohortsUsed' = CohortsUsed /\ CohortIds' = CohortIds
  BY <1>1, FlagsStay, CohortsStay
<1>4. waiting'[published] = waiting[published] \ {c}
  BY <1>1, <1>2
<1>5. c \in CohortIds \cup failed
  BY <1>1 DEF CalmParts, JobsAreAwaited
<1>6. FlagsAreCurrent'
  BY <1>1, <1>2, <1>3 DEF CalmParts, FlagsAreCurrent
<1>7. JobsAreAwaited'
  <2> SUFFICES ASSUME NEW d \in Cohorts, job'[d] # "none"
               PROVE  /\ d \in waiting'[published]
                      /\ job'[d] = "requested" /\ known'[d] => d \in CohortIds
                      /\ job'[d] = "ending" => d \in CohortIds \cup failed
    BY <1>1, <1>2, <1>3 DEF JobsAreAwaited
  <2>1. d # c
    BY <1>1
  <2> QED
    BY <1>1, <1>4, <2>1 DEF CalmParts, JobsAreAwaited
<1>8. NeededAreLoaded' /\ UnusedAreDeleted'
  <2>1. NeededBy(config[published])
            \subseteq CohortIds \cup failed \cup todo[published]
                        \cup waiting[published]
    BY <1>2 DEF CalmParts, NeededAreLoaded
  <2> QED
    BY <1>1, <1>2, <1>3, <1>4, <1>5, <2>1
    DEF NeededAreLoaded, UnusedAreDeleted
<1>9. WithoutLoader' /\ HaveCohorts'
  BY <1>1, <1>2, <1>3 DEF CalmParts, WithoutLoader, HaveCohorts
<1> QED
  BY <1>2, <1>6, <1>7, <1>8, <1>9 DEF CalmParts

LEMMA JobStepCalm ==
  ASSUME Typed, CalmParts, NEW c \in Cohorts, JobStep(c)
  PROVE  CalmParts'
<1>1. CASE JobRequests(c)
  <2>1. /\ job[c] # "none" /\ CohortIds' = CohortIds
        /\ job'[c] = "requested" /\ (known'[c] => c \in CohortIds)
        /\ \A d \in Cohorts \ {c} : job'[d] = job[d] /\ known'[d] = known[d]
        /\ UNCHANGED <<load, published, config, flags, pc, toPut, todo,
                       waiting, failed>>
    BY <1>1, CohortsStay
    DEF JobRequests, given, storage, locals, Typed, TypeOK
  <2> QED
    BY <2>1, JobMovesCalm
<1>2. CASE JobStores(c)
  <2>1. PICK g \in load.types : cohorts' = [cohorts EXCEPT ![c] = g]
    BY <1>2 DEF JobStores
  <2>2. g \in Types /\ g # NoType
    BY LoadType, FlagUpdateAssumption DEF Typed, FlagUpdateAssumption
  <2>3. CohortIds' = CohortIds \cup {c}
    BY <2>1, <2>2 DEF CohortIds, Typed, TypeOK
  <2>4. /\ job[c] # "none" /\ job'[c] = "ending" /\ failed' = failed \ {c}
        /\ \A d \in Cohorts \ {c} : job'[d] = job[d] /\ known'[d] = known[d]
        /\ UNCHANGED <<load, published, config, flags, pc, toPut, todo,
                       waiting>>
    BY <1>2 DEF JobStores, given, locals, Typed, TypeOK
  <2> QED
    BY <2>3, <2>4, JobMovesCalm
<1>3. CASE JobUnmodified(c)
  <2>1. /\ job[c] = "requested" /\ known[c] /\ CohortIds' = CohortIds
        /\ job'[c] = "ending" /\ failed' = failed \ {c}
        /\ \A d \in Cohorts \ {c} : job'[d] = job[d] /\ known'[d] = known[d]
        /\ UNCHANGED <<load, published, config, flags, pc, toPut, todo,
                       waiting>>
    BY <1>3, CohortsStay
    DEF JobUnmodified, given, storage, locals, Typed, TypeOK
  <2>2. c \in CohortIds
    BY <2>1 DEF CalmParts, JobsAreAwaited
  <2> QED
    BY <2>1, <2>2, JobMovesCalm
<1>4. CASE JobFails(c)
  <2>1. /\ job[c] # "none" /\ CohortIds' = CohortIds
        /\ job'[c] = "ending" /\ failed' = failed \cup {c}
        /\ \A d \in Cohorts \ {c} : job'[d] = job[d] /\ known'[d] = known[d]
        /\ UNCHANGED <<load, published, config, flags, pc, toPut, todo,
                       waiting>>
    BY <1>4, CohortsStay
    DEF JobFails, given, storage, locals, Typed, TypeOK
  <2> QED
    BY <2>1, JobMovesCalm
<1> QED
  BY <1>1, <1>2, <1>3, <1>4, JobEndsCalm DEF JobStep

----------------------------------------------------------------------------
LEMMA InitCalm == Init => CalmInv
<1> SUFFICES ASSUME Init PROVE CalmInv
  OBVIOUS
<1>1. Typed
  BY InitTyped
<1>2. OneUpdate
  <2>1. Poll \in Procs /\ \A v \in Versions : v \in Procs /\ v > 0 /\ v \in Nat
    BY VersionType DEF Procs
  <2> QED
    BY <2>1 DEF Init, OneUpdate
<1>3. Stored = {} /\ CohortIds = {} /\ CohortsUsed = {}
  BY DEF Init, Stored, CohortIds, CohortsUsed
<1>4. \A L : ~At(L)
  BY DEF Init, At
<1> QED
  BY <1>1, <1>2, <1>3, <1>4
  DEF Init, CalmInv, CalmParts, FlagsAreCurrent, JobsAreAwaited,
      NeededAreLoaded, UnusedAreDeleted, WithoutLoader, HaveCohorts

LEMMA CalmStutter ==
  ASSUME CalmParts, UNCHANGED vars PROVE CalmParts'
<1>1. UNCHANGED <<load, published, config, flags, cohorts, failed, pc, toPut,
                  todo, waiting, used, doomed, job, known>>
  BY DEF vars
<1>2. Stored' = Stored /\ CohortsUsed' = CohortsUsed /\ CohortIds' = CohortIds
  BY <1>1, FlagsStay, CohortsStay
<1>3. \A L : At(L)' <=> At(L)
  BY <1>1 DEF At
<1>4. OneUpdate' /\ FlagsAreCurrent' /\ JobsAreAwaited'
  BY <1>1, <1>2, <1>3 DEF CalmParts, OneUpdate, FlagsAreCurrent,
     JobsAreAwaited
<1>5. NeededAreLoaded' /\ UnusedAreDeleted' /\ WithoutLoader' /\ HaveCohorts'
  BY <1>1, <1>2, <1>3 DEF CalmParts, NeededAreLoaded, UnusedAreDeleted,
     WithoutLoader, HaveCohorts
<1> QED
  BY <1>4, <1>5 DEF CalmParts

LEMMA NextCalm == ASSUME CalmInv, [Next]_vars PROVE CalmInv'
<1>1. Typed' /\ Typed
  BY NextTyped DEF CalmInv
<1> SUFFICES ASSUME Calm' PROVE CalmParts'
  BY <1>1 DEF CalmInv
<1>2. load' = load
  BY DEF Next, Deliver, CohortPoll, UpdateStep, RemoveIf, ReadCohorts,
     PutsDone, ReadUsed, ReadStored, Doom, DeletesDone, PutFlag, DeleteCohort,
     DownloadStep, Downloaded, LoadCohort, JobStep, JobRequests, JobStores,
     JobUnmodified, JobFails, JobEnds, given, vars
<1>3. Calm /\ CalmParts
  BY <1>2 DEF Calm, CalmInv
<1>4. CASE Deliver
  BY <1>1, <1>3, <1>4, DeliverCalm
<1>5. CASE CohortPoll
  BY <1>3, <1>5 DEF CohortPoll, Calm
<1>6. ASSUME NEW v \in Versions, UpdateStep(v) PROVE CalmParts'
  BY <1>1, <1>3, <1>6, RemoveIfCalm, ReadCohortsCalm, PutFlagCalm,
     PutsDoneCalm, ReadUsedCalm, ReadStoredCalm, DeleteCohortCalm,
     DeletesDoneCalm DEF UpdateStep
<1>7. ASSUME NEW p \in Procs, DownloadStep(p) PROVE CalmParts'
  BY <1>1, <1>3, <1>7, DownloadedCalm, LoadCohortCalm DEF DownloadStep
<1>8. ASSUME NEW c \in Cohorts, JobStep(c) PROVE CalmParts'
  BY <1>1, <1>3, <1>8, JobStepCalm
<1>9. CASE UNCHANGED vars
  BY <1>3, <1>9, CalmStutter
<1> QED
  BY <1>4, <1>5, <1>6, <1>7, <1>8, <1>9 DEF Next

\* With one update at a time, a flag that evaluations can see has its cohorts
\* in the storage, unless a download of theirs failed, however many flags and
\* cohorts a delivery adds, shares, swaps or drops.
THEOREM FlagsHaveCohortsAlways == Spec => []FlagsHaveCohorts
<1>1. CalmInv => FlagsHaveCohorts
  BY DEF CalmInv, CalmParts, HaveCohorts, FlagsHaveCohorts
<1> QED
  BY <1>1, InitCalm, NextCalm, PTL DEF Spec

\* With one update at a time, the storage is what the last delivery asks for
\* when its update is done: exactly its flags, and no cohort they do not need.
THEOREM StorageIsLatestAlways == Spec => []StorageIsLatest
<1>1. CalmInv => StorageIsLatest
  <2> SUFFICES ASSUME CalmInv, Calm, AllDone
               PROVE  /\ flags = [f \in Flags |->
                                    IF f \in DOMAIN config[published]
                                    THEN published ELSE Absent]
                      /\ CohortIds \subseteq CohortsUsed
    BY DEF StorageIsLatest, LatestConfigWins
  <2>1. Typed /\ CalmParts
    BY DEF CalmInv
  <2>2. published > 0 /\ pc[published] = "done"
    BY <2>1, VersionType DEF AllDone, Typed, TypeOK
  <2>3. /\ toPut[published] = {}
        /\ \A f \in DOMAIN config[published] : flags[f] = published
        /\ Stored \subseteq DOMAIN config[published]
    BY <2>1, <2>2 DEF CalmParts, FlagsAreCurrent, At, Labels
  <2>4. \A f \in Flags : flags[f] = IF f \in DOMAIN config[published]
                                    THEN published ELSE Absent
    BY <2>3 DEF Stored
  <2>5. CohortIds \subseteq CohortsUsed
    BY <2>1, <2>2 DEF CalmParts, UnusedAreDeleted, At
  <2> QED
    BY <2>1, <2>4, <2>5 DEF Typed, TypeOK
<1> QED
  BY <1>1, InitCalm, NextCalm, PTL DEF Spec

============================================================================
