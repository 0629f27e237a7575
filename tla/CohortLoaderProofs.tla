------------------------- MODULE CohortLoaderProofs -------------------------
(***************************************************************************)
(* However task objects are used again, the loader shares its downloads as *)
(* SingleFlight promises, for any number of cohorts, tasks and waiters.    *)
(***************************************************************************)
EXTENDS CohortLoader, TLAPS

\* A run at one of these steps has its job in the map.
Active == {"read", "request", "store", "remove"}

Typed ==
    /\ jobs \in [Cohorts -> Tasks \cup {None}]
    /\ pc \in [Tasks -> Active \cup {"idle", "close", "recycle"}]
    /\ cohortOf \in [Tasks -> Cohorts \cup {None}]
    /\ wanted \in [Waiters -> Cohorts \cup {None}]
    /\ task \in [Waiters -> Tasks \cup {None}]
    /\ chan \in [Waiters -> {"unread", "present", "past"}]
    /\ joined \in [Waiters -> BOOLEAN]

\* The task of a job runs for it.
JobsRun ==
    \A c \in Cohorts : jobs[c] # None =>
        cohortOf[jobs[c]] = c /\ pc[jobs[c]] \in Active

\* A task that runs is in the map.
RunsAreJobs ==
    \A t \in Tasks : pc[t] \in Active =>
        cohortOf[t] \in Cohorts /\ jobs[cohortOf[t]] = t

\* Who waits has a task; who does not has nothing.  The channel of an
\* earlier job is held only by those whose job is over.
WaitersAreSound ==
    \A w \in Waiters :
        /\ (wanted[w] = None) <=> (task[w] = None)
        /\ wanted[w] = None => chan[w] = "unread"
        /\ chan[w] = "past" => ~joined[w]

IInv == Typed /\ JobsRun /\ RunsAreJobs /\ WaitersAreSound

flying == {c \in Cohorts : jobs[c] # None}
down   == {w \in Waiters : HasLanded(w)}

LEMMA NoneIsNothing == None \notin Tasks /\ None \notin Cohorts
  BY CohortLoaderAssumption DEF CohortLoaderAssumption

----------------------------------------------------------------------------
(* The invariant. *)

LEMMA InitEstablishes == Init => IInv
  BY NoneIsNothing
  DEF Init, IInv, Typed, JobsRun, RunsAreJobs, WaitersAreSound, Active

\* Steps that see neither jobs, runs nor waiters.
LEMMA Elsewhere ==
  ASSUME IInv, UNCHANGED <<jobs, pc, cohortOf, wanted, task, chan, joined>>
  PROVE  IInv'
  BY DEF IInv, Typed, JobsRun, RunsAreJobs, WaitersAreSound

\* Steps of a run that keep its job in the map.
LEMMA RunContinues ==
  ASSUME IInv, NEW t \in Tasks, NEW l \in Active, pc[t] \in Active,
         Goto(t, l), UNCHANGED <<jobs, cohortOf, waiterVars>>
  PROVE  IInv'
  BY DEF IInv, Typed, JobsRun, RunsAreJobs, WaitersAreSound, Goto,
         waiterVars

LEMMA RemoveJobKeeps ==
  ASSUME IInv, NEW t \in Tasks, RemoveJob(t)
  PROVE  IInv'
<1>1. cohortOf[t] \in Cohorts /\ jobs[cohortOf[t]] = t
  BY DEF IInv, RunsAreJobs, RemoveJob, Active
<1>2. Typed' /\ WaitersAreSound'
  BY <1>1 DEF RemoveJob, IInv, Typed, WaitersAreSound, Goto, waiterVars
<1>3. JobsRun'
  BY <1>1 DEF RemoveJob, IInv, Typed, JobsRun, Goto
<1>4. RunsAreJobs'
  <2> SUFFICES ASSUME NEW u \in Tasks, pc'[u] \in Active
               PROVE  cohortOf[u] \in Cohorts /\ jobs'[cohortOf[u]] = u
    BY DEF RunsAreJobs, RemoveJob
  <2>1. u # t /\ pc[u] \in Active
    BY DEF RemoveJob, Goto, IInv, Typed, Active
  <2>2. cohortOf[u] \in Cohorts /\ jobs[cohortOf[u]] = u
    BY <2>1 DEF IInv, RunsAreJobs
  <2>3. cohortOf[u] # cohortOf[t]
    BY <1>1, <2>1, <2>2
  <2> QED
    BY <2>2, <2>3 DEF RemoveJob, IInv, Typed
<1> QED
  BY <1>2, <1>3, <1>4 DEF IInv

\* Steps of a run whose job is over.
LEMMA RunEndsKeeps ==
  ASSUME IInv, NEW t \in Tasks, CloseDone(t) \/ Recycle(t)
  PROVE  IInv'
<1>1. \A c \in Cohorts : jobs[c] # t
  BY NoneIsNothing
  DEF CloseDone, Recycle, IInv, JobsRun, Active
<1> QED
  BY <1>1 DEF CloseDone, Recycle, IInv, Typed, JobsRun, RunsAreJobs,
              WaitersAreSound, Goto, Active, waiterVars

LEMMA RunStepKeeps ==
  ASSUME IInv, NEW t \in Tasks, RunStep(t)
  PROVE  IInv'
<1>1. CASE ReadStored(t)
  BY <1>1, RunContinues DEF ReadStored, Active
<1>2. CASE TransportError(t)
  BY <1>2, Elsewhere DEF TransportError, waiterVars
<1>3. CASE RequestFails(t) \/ Unmodified(t)
  BY <1>3, RunContinues DEF RequestFails, Unmodified, RequestEnds, Active
<1>4. CASE Answered(t)
  BY <1>4, RunContinues DEF Answered, RequestEnds, Active
<1>5. CASE PutCohort(t)
  BY <1>5, RunContinues DEF PutCohort, Active
<1>6. CASE RemoveJob(t)
  BY <1>6, RemoveJobKeeps
<1>7. CASE CloseDone(t) \/ Recycle(t)
  BY <1>7, RunEndsKeeps
<1> QED
  BY <1>1, <1>2, <1>3, <1>4, <1>5, <1>6, <1>7 DEF RunStep, RequestStep

LEMMA JoinKeeps ==
  ASSUME IInv, NEW w \in Waiters, NEW c \in Cohorts, Join(w, c)
  PROVE  IInv'
<1>1. Typed'
  BY DEF Join, IInv, Typed, taskVars
<1>2. WaitersAreSound'
  BY NoneIsNothing DEF Join, IInv, Typed, WaitersAreSound, taskVars
<1>3. JobsRun' /\ RunsAreJobs'
  BY DEF Join, IInv, JobsRun, RunsAreJobs, taskVars
<1> QED
  BY <1>1, <1>2, <1>3 DEF IInv

\* No job is done by an idle task.
LEMMA IdleHasNoJob ==
  ASSUME IInv, NEW t \in Tasks, pc[t] = "idle", NEW c \in Cohorts
  PROVE  jobs[c] # t
  BY NoneIsNothing DEF IInv, JobsRun, Active

LEMMA LaunchKeeps ==
  ASSUME IInv, NEW w \in Waiters, NEW c \in Cohorts, NEW t \in Tasks,
         wanted[w] = None, jobs[c] = None, InitTask(w, c, t)
  PROVE  IInv'
<1>1. Typed'
  BY DEF InitTask, IInv, Typed, Active
<1>2. WaitersAreSound'
  BY NoneIsNothing DEF InitTask, IInv, Typed, WaitersAreSound
<1>3. JobsRun'
  BY NoneIsNothing, IdleHasNoJob
  DEF InitTask, IInv, Typed, JobsRun, Active
<1>4. RunsAreJobs'
  BY NoneIsNothing DEF InitTask, IInv, Typed, RunsAreJobs, Active
<1> QED
  BY <1>1, <1>2, <1>3, <1>4 DEF IInv

LEMMA WaiterStepKeeps ==
  ASSUME IInv, NEW w \in Waiters, WaiterStep(w)
  PROVE  IInv'
<1>1. JobsRun' /\ RunsAreJobs'
  BY DEF WaiterStep, ReadChan, Wake, IInv, JobsRun, RunsAreJobs, taskVars
<1>2. CASE ReadChan(w)
  <2>1. Typed'
    BY <1>2 DEF ReadChan, IInv, Typed, taskVars
  <2>2. WaitersAreSound'
    BY <1>2 DEF ReadChan, IInv, Typed, WaitersAreSound
  <2> QED
    BY <1>1, <2>1, <2>2 DEF IInv
<1>3. CASE Wake(w)
  <2>1. Typed'
    BY <1>3 DEF Wake, IInv, Typed, taskVars
  <2>2. WaitersAreSound'
    BY <1>3 DEF Wake, IInv, Typed, WaitersAreSound
  <2> QED
    BY <1>1, <2>1, <2>2 DEF IInv
<1> QED
  BY <1>2, <1>3 DEF WaiterStep

LEMMA NextKeeps == ASSUME IInv, [Next]_vars PROVE IInv'
<1>1. ASSUME NEW w \in Waiters, NEW c \in Cohorts, Join(w, c) \/ Launch(w, c)
      PROVE  IInv'
  BY <1>1, JoinKeeps, LaunchKeeps DEF Launch
<1>2. CASE \E w \in Waiters : WaiterStep(w)
  BY <1>2, WaiterStepKeeps
<1>3. CASE \E t \in Tasks : RunStep(t)
  BY <1>3, RunStepKeeps
<1>4. CASE \E c \in Cohorts : CohortChanges(c) \/ DeleteCohort(c)
  BY <1>4, Elsewhere DEF CohortChanges, DeleteCohort, taskVars, waiterVars
<1>5. CASE UNCHANGED vars
  BY <1>5, Elsewhere DEF vars
<1> QED
  BY <1>1, <1>2, <1>3, <1>4, <1>5 DEF Next

----------------------------------------------------------------------------
(* The refinement. *)

LEMMA InitRefines == Init => SF!Init
  BY DEF Init, SF!Init, HasLanded

\* Steps that move no job and no waiter are stutters.
LEMMA Stutters ==
  ASSUME UNCHANGED <<jobs, wanted, task, joined>>
  PROVE  UNCHANGED SF!vars
  BY DEF SF!vars, HasLanded

LEMMA JoinRefines ==
  ASSUME IInv, NEW w \in Waiters, NEW c \in Cohorts, Join(w, c)
  PROVE  SF!Join(w, c)
<1>1. flying' = flying \cup {c}
  BY DEF Join, flying
<1>2. \A v \in Waiters : HasLanded(v)' = HasLanded(v)
  BY DEF Join, HasLanded, IInv, Typed
<1> QED
  BY <1>1, <1>2 DEF Join, SF!Join, flying

LEMMA LaunchRefines ==
  ASSUME IInv, NEW w \in Waiters, NEW c \in Cohorts, NEW t \in Tasks,
         wanted[w] = None, jobs[c] = None, InitTask(w, c, t)
  PROVE  SF!Join(w, c)
<1>1. flying' = flying \cup {c}
  BY NoneIsNothing DEF InitTask, flying, IInv, Typed
<1>2. ASSUME NEW v \in Waiters PROVE HasLanded(v)' <=> HasLanded(v)
  <2>1. CASE v = w
    BY <2>1 DEF InitTask, HasLanded, IInv, Typed
  <2>2. CASE v # w /\ wanted[v] = c
    BY <2>2, NoneIsNothing
    DEF InitTask, HasLanded, IInv, Typed, WaitersAreSound
  <2>3. CASE v # w /\ wanted[v] # c
    <3>1. wanted'[v] = wanted[v] /\ task'[v] = task[v]
      BY <2>3 DEF InitTask, IInv, Typed
    <3>2. joined'[v] <=> joined[v] /\ task[v] # t
      BY <2>3 DEF InitTask, IInv, Typed
    <3>3. wanted[v] # None =>
            jobs'[wanted[v]] = jobs[wanted[v]] /\ jobs[wanted[v]] # t
      BY <2>3, IdleHasNoJob DEF InitTask, IInv, Typed
    <3> QED
      BY <3>1, <3>2, <3>3 DEF HasLanded
  <2> QED
    BY <2>1, <2>2, <2>3
<1> QED
  BY <1>1, <1>2 DEF InitTask, SF!Join, flying

LEMMA RemoveJobRefines ==
  ASSUME IInv, NEW t \in Tasks, RemoveJob(t)
  PROVE  \E c \in Cohorts : SF!Land(c)
<1> DEFINE c == cohortOf[t]
<1>1. c \in Cohorts /\ jobs[c] = t
  BY DEF IInv, RunsAreJobs, RemoveJob, Active
<1>2. c \in flying /\ flying' = flying \ {c}
  BY <1>1, NoneIsNothing DEF RemoveJob, flying, IInv, Typed
<1>3. ASSUME NEW w \in Waiters
      PROVE  HasLanded(w)' <=> HasLanded(w) \/ wanted[w] = c
  BY <1>1, NoneIsNothing
  DEF RemoveJob, HasLanded, IInv, Typed, WaitersAreSound, waiterVars
<1>4. down' = down \cup {w \in Waiters : wanted[w] = c}
  BY <1>3 DEF down, RemoveJob, waiterVars
<1> QED
  BY <1>1, <1>2, <1>4 DEF SF!Land, flying, down, RemoveJob, waiterVars

\* A channel that is closed is that of a job that is over.
LEMMA WakeRefines ==
  ASSUME IInv, NEW w \in Waiters, Wake(w)
  PROVE  SF!Return(w)
<1>1. wanted[w] # None
  BY DEF Wake, IInv, WaitersAreSound
<1>2. HasLanded(w)
  BY <1>1 DEF Wake, HasLanded, IInv, Typed, WaitersAreSound, JobsRun,
              Active
<1>3. ASSUME NEW v \in Waiters
      PROVE  HasLanded(v)' <=> HasLanded(v) /\ v # w
  BY DEF Wake, HasLanded, IInv, Typed
<1>4. down' = down \ {w}
  BY <1>3 DEF down
<1> QED
  BY <1>2, <1>4 DEF Wake, SF!Return, down, taskVars

LEMMA StepRefines == ASSUME IInv, [Next]_vars PROVE [SF!Next]_(SF!vars)
<1>1. ASSUME NEW w \in Waiters, NEW c \in Cohorts, Join(w, c) \/ Launch(w, c)
      PROVE  SF!Next
  BY <1>1, JoinRefines, LaunchRefines DEF Launch, SF!Next
<1>2. ASSUME NEW w \in Waiters, Wake(w) PROVE SF!Next
  BY <1>2, WakeRefines DEF SF!Next
<1>3. ASSUME NEW w \in Waiters, ReadChan(w) PROVE UNCHANGED SF!vars
  BY <1>3, Stutters DEF ReadChan
<1>4. ASSUME NEW t \in Tasks, RemoveJob(t) PROVE SF!Next
  BY <1>4, RemoveJobRefines DEF SF!Next
<1>5. ASSUME NEW t \in Tasks,
             \/ ReadStored(t) \/ RequestStep(t) \/ PutCohort(t)
             \/ CloseDone(t) \/ Recycle(t)
      PROVE  UNCHANGED SF!vars
  BY <1>5, Stutters
  DEF ReadStored, RequestStep, TransportError, RequestFails, Unmodified,
      Answered, PutCohort, CloseDone, Recycle, waiterVars
<1>6. CASE \E c \in Cohorts : CohortChanges(c) \/ DeleteCohort(c)
  BY <1>6, Stutters DEF CohortChanges, DeleteCohort, waiterVars
<1>7. CASE UNCHANGED vars
  BY <1>7, Stutters DEF vars
<1> QED
  BY <1>1, <1>2, <1>3, <1>4, <1>5, <1>6, <1>7
  DEF Next, WaiterStep, RunStep

\* Every behaviour of the loader is one of SingleFlight!Spec: although task
\* objects are used again while waiters still hold them, one download of a
\* cohort is in flight at a time and nobody goes on before it has landed.
THEOREM SharedDownloads == Spec => ImplementsLoader
<1>1. Init => IInv
  BY InitEstablishes
<1>2. IInv /\ [Next]_vars => IInv'
  BY NextKeeps
<1>3. IInv /\ [Next]_vars => [SF!Next]_(SF!vars)
  BY StepRefines
<1> QED
  BY <1>1, <1>2, <1>3, InitRefines, PTL
  DEF Spec, ImplementsLoader, SF!Spec

----------------------------------------------------------------------------
(* Versions. *)

VersionsTyped ==
    /\ server \in [Cohorts -> Nat]
    /\ stored \in [Cohorts -> Nat]
    /\ answer \in [Tasks -> Nat]

\* What is stored is no newer than the server's, and a copy on its way to
\* the storage lies between the two.
Ages ==
    /\ \A c \in Cohorts : stored[c] <= server[c]
    /\ \A t \in Tasks : pc[t] = "store" =>
           /\ stored[cohortOf[t]] <= answer[t]
           /\ answer[t] <= server[cohortOf[t]]

VInv == IInv /\ VersionsTyped /\ Ages

LEMMA VersionsInit == Init => VInv
  BY InitEstablishes DEF Init, VInv, VersionsTyped, Ages, Absent

\* Steps that see neither versions nor a task with a copy to store.
LEMMA VersionsUntouched ==
  ASSUME VInv, IInv', UNCHANGED <<server, stored, answer>>,
         \A t \in Tasks : pc'[t] = "store" =>
             pc[t] = "store" /\ cohortOf'[t] = cohortOf[t]
  PROVE  VInv'
  BY DEF VInv, VersionsTyped, Ages

LEMMA AnsweredKeepsAges ==
  ASSUME VInv, IInv', NEW t \in Tasks, Answered(t)
  PROVE  VInv'
<1>1. cohortOf[t] \in Cohorts
  BY DEF VInv, IInv, RunsAreJobs, Answered, RequestEnds, Active
<1>2. VersionsTyped'
  BY <1>1 DEF VInv, VersionsTyped, Answered
<1>3. Ages'
  <2> SUFFICES ASSUME NEW u \in Tasks, pc'[u] = "store"
               PROVE  /\ stored[cohortOf[u]] <= answer'[u]
                      /\ answer'[u] <= server[cohortOf[u]]
    BY DEF Answered, VInv, Ages
  <2>1. CASE u = t
    BY <1>1, <2>1 DEF Answered, VInv, VersionsTyped, Ages
  <2>2. CASE u # t
    BY <2>2
    DEF Answered, RequestEnds, Goto, VInv, VersionsTyped, Ages, IInv, Typed
  <2> QED
    BY <2>1, <2>2
<1> QED
  BY <1>2, <1>3 DEF VInv

\* The task that stores a copy of c is the only one that runs for c.
LEMMA OneRunPerCohort ==
  ASSUME IInv, NEW t \in Tasks, NEW u \in Tasks,
         pc[t] \in Active, pc[u] \in Active, cohortOf[t] = cohortOf[u]
  PROVE  t = u
  BY DEF IInv, RunsAreJobs

LEMMA PutCohortKeepsAges ==
  ASSUME VInv, IInv', NEW t \in Tasks, PutCohort(t)
  PROVE  VInv' /\ \A c \in Cohorts : stored'[c] >= stored[c]
<1>1. cohortOf[t] \in Cohorts
  BY DEF VInv, IInv, RunsAreJobs, PutCohort, Active
<1>2. VersionsTyped'
  BY <1>1 DEF VInv, VersionsTyped, PutCohort, Absent
<1>3. \A c \in Cohorts : stored'[c] <= server'[c] /\ stored'[c] >= stored[c]
  BY <1>1 DEF PutCohort, VInv, VersionsTyped, Ages
<1>4. ASSUME NEW u \in Tasks, pc'[u] = "store"
      PROVE  /\ stored'[cohortOf[u]] <= answer'[u]
             /\ answer'[u] <= server[cohortOf[u]]
  <2>1. u # t /\ pc[u] = "store"
    BY <1>4 DEF PutCohort, Goto, VInv, IInv, Typed
  <2>2. cohortOf[u] # cohortOf[t]
    BY <2>1, OneRunPerCohort DEF PutCohort, VInv, Active
  <2> QED
    BY <2>1, <2>2 DEF PutCohort, VInv, VersionsTyped, Ages
<1>5. Ages'
  BY <1>3, <1>4 DEF Ages, PutCohort
<1> QED
  BY <1>2, <1>3, <1>5 DEF VInv

LEMMA ServerStepKeepsAges ==
  ASSUME VInv, IInv', NEW c \in Cohorts, CohortChanges(c) \/ DeleteCohort(c)
  PROVE  VInv'
<1>1. VersionsTyped'
  BY DEF CohortChanges, DeleteCohort, VInv, VersionsTyped, Absent, taskVars
<1>2. \A d \in Cohorts :
        /\ server'[d] \in Nat /\ server[d] <= server'[d]
        /\ stored'[d] \in Nat /\ stored'[d] <= stored[d]
  BY DEF CohortChanges, DeleteCohort, VInv, VersionsTyped, Absent
<1>3. \A d \in Cohorts : stored'[d] <= server'[d]
  BY <1>2 DEF VInv, VersionsTyped, Ages
<1>4. pc' = pc /\ cohortOf' = cohortOf /\ answer' = answer
  BY DEF CohortChanges, DeleteCohort, taskVars
<1>5. ASSUME NEW t \in Tasks, pc'[t] = "store"
      PROVE  /\ stored'[cohortOf[t]] <= answer[t]
             /\ answer[t] <= server'[cohortOf[t]]
  <2>1. cohortOf[t] \in Cohorts
    BY <1>4, <1>5 DEF VInv, IInv, RunsAreJobs, Active
  <2> QED
    BY <1>2, <1>4, <1>5, <2>1 DEF VInv, VersionsTyped, Ages
<1> QED
  BY <1>1, <1>3, <1>4, <1>5 DEF VInv, Ages

NeverBack == \A c \in Cohorts : stored'[c] >= stored[c] \/ stored'[c] = Absent

LEMMA StoredAlone ==
  ASSUME VInv, stored' = stored
  PROVE  NeverBack
  BY DEF NeverBack, VInv, VersionsTyped

LEMMA StepKeepsAges == ASSUME VInv, [Next]_vars PROVE VInv' /\ NeverBack
<1>0. IInv'
  BY NextKeeps DEF VInv
<1>1. ASSUME NEW w \in Waiters, NEW c \in Cohorts, Join(w, c)
      PROVE  VInv' /\ NeverBack
  BY <1>0, <1>1, VersionsUntouched, StoredAlone DEF Join, taskVars
<1>2. ASSUME NEW w \in Waiters, NEW c \in Cohorts, Launch(w, c)
      PROVE  VInv' /\ NeverBack
  <2>1. PICK t \in Tasks : InitTask(w, c, t)
    BY <1>2 DEF Launch
  <2>2. \A u \in Tasks : pc'[u] = "store" =>
          pc[u] = "store" /\ cohortOf'[u] = cohortOf[u]
    BY <2>1 DEF InitTask, VInv, IInv, Typed
  <2> QED
    BY <1>0, <2>1, <2>2, VersionsUntouched, StoredAlone DEF InitTask
<1>3. ASSUME NEW w \in Waiters, WaiterStep(w)
      PROVE  VInv' /\ NeverBack
  BY <1>0, <1>3, VersionsUntouched, StoredAlone
  DEF WaiterStep, ReadChan, Wake, taskVars
<1>4. ASSUME NEW t \in Tasks, Answered(t)
      PROVE  VInv' /\ NeverBack
  BY <1>0, <1>4, AnsweredKeepsAges, StoredAlone DEF Answered
<1>5. ASSUME NEW t \in Tasks, PutCohort(t)
      PROVE  VInv' /\ NeverBack
  BY <1>0, <1>5, PutCohortKeepsAges DEF NeverBack
<1>6. ASSUME NEW t \in Tasks,
             \/ ReadStored(t) \/ TransportError(t) \/ RequestFails(t)
             \/ Unmodified(t) \/ RemoveJob(t) \/ CloseDone(t) \/ Recycle(t)
      PROVE  VInv' /\ NeverBack
  <2>1. \A u \in Tasks : pc'[u] = "store" =>
          pc[u] = "store" /\ cohortOf'[u] = cohortOf[u]
    BY <1>6 DEF ReadStored, TransportError, RequestFails, Unmodified,
         RequestEnds, RemoveJob, CloseDone, Recycle, Goto, VInv, IInv, Typed
  <2>2. UNCHANGED <<server, stored, answer>>
    BY <1>6 DEF ReadStored, TransportError, RequestFails, Unmodified,
         RemoveJob, CloseDone, Recycle
  <2> QED
    BY <1>0, <2>1, <2>2, VersionsUntouched, StoredAlone
<1>7. ASSUME NEW c \in Cohorts, CohortChanges(c) \/ DeleteCohort(c)
      PROVE  VInv' /\ NeverBack
  <2>1. NeverBack
    BY <1>7, StoredAlone
    DEF CohortChanges, DeleteCohort, NeverBack, VInv, VersionsTyped
  <2> QED
    BY <1>0, <1>7, <2>1, ServerStepKeepsAges
<1>8. CASE UNCHANGED vars
  BY <1>0, <1>8, VersionsUntouched, StoredAlone DEF vars
<1> QED
  BY <1>1, <1>2, <1>3, <1>4, <1>5, <1>6, <1>7, <1>8
  DEF Next, RunStep, RequestStep

\* No stored cohort is replaced by an older version of it: the task that
\* stores one is the only one that runs for its cohort, so nothing newer can
\* have been stored since it was answered.
THEOREM NoOldVersions == Spec => CohortNeverGoesBack
<1>1. VInv /\ [Next]_vars => VInv' /\ NeverBack
  BY StepKeepsAges
<1>2. NeverBack =>
        [\A c \in Cohorts : stored'[c] >= stored[c] \/ stored'[c] = Absent]_vars
  BY DEF NeverBack
<1> QED
  BY <1>1, <1>2, VersionsInit, PTL DEF Spec, CohortNeverGoesBack

----------------------------------------------------------------------------
(* Types. *)

TypeInv ==
    /\ VInv
    /\ known \in [Tasks -> Nat]
    /\ errors \in [Tasks -> 0..Attempts - 1]

LEMMA RequestStepTyped ==
  ASSUME TypeInv, NEW t \in Tasks, RequestStep(t)
  PROVE  known' \in [Tasks -> Nat] /\ errors' \in [Tasks -> 0..Attempts - 1]
<1>1. CASE TransportError(t)
  <2>1. errors[t] \in 0..Attempts - 1 /\ errors[t] + 1 < Attempts
    BY <1>1 DEF TypeInv, TransportError
  <2>2. errors[t] + 1 \in 0..Attempts - 1
    BY <2>1 DEF Attempts
  <2> QED
    BY <1>1, <2>2 DEF TypeInv, TransportError
<1>2. CASE RequestFails(t) \/ Unmodified(t) \/ Answered(t)
  <2>1. 0 \in 0..Attempts - 1
    BY DEF Attempts
  <2> QED
    BY <1>2, <2>1
    DEF TypeInv, RequestFails, Unmodified, Answered, RequestEnds, Absent
<1> QED
  BY <1>1, <1>2 DEF RequestStep

LEMMA TypeInvNext == ASSUME TypeInv, [Next]_vars PROVE TypeInv'
<1>1. VInv'
  BY StepKeepsAges DEF TypeInv
<1>2. ASSUME NEW t \in Tasks, ReadStored(t)
      PROVE  known' \in [Tasks -> Nat] /\ errors' = errors
  <2>1. cohortOf[t] \in Cohorts
    BY <1>2 DEF TypeInv, VInv, IInv, RunsAreJobs, Active, ReadStored
  <2>2. stored[cohortOf[t]] \in Nat
    BY <2>1 DEF TypeInv, VInv, VersionsTyped
  <2> QED
    BY <1>2, <2>2 DEF ReadStored, TypeInv
<1>3. \/ \E t \in Tasks : ReadStored(t) \/ RequestStep(t)
      \/ UNCHANGED <<known, errors>>
  BY DEF Next, Join, Launch, InitTask, WaiterStep, ReadChan, Wake, RunStep,
         PutCohort, RemoveJob, CloseDone, Recycle, CohortChanges,
         DeleteCohort, taskVars, vars
<1> QED
  BY <1>1, <1>2, <1>3, RequestStepTyped DEF TypeInv

\* The state of the loader is well typed: the job of a cohort is a task that
\* was made for it, and getCohort never counts beyond its attempts.
THEOREM Typing == Spec => []TypeOK
<1>1. Init => TypeInv
  <2>1. 0 \in 0..Attempts - 1
    BY DEF Attempts
  <2> QED
    BY <2>1, VersionsInit DEF Init, TypeInv, Absent
<1>2. TypeInv /\ [Next]_vars => TypeInv'
  BY TypeInvNext
<1>3. TypeInv => TypeOK
  BY DEF TypeInv, VInv, VersionsTyped, IInv, Typed, JobsRun, Active, TypeOK
<1> QED
  BY <1>1, <1>2, <1>3, PTL DEF Spec

============================================================================
