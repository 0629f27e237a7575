---------------------------- MODULE CohortLoader ----------------------------
(***************************************************************************)
(* cohortLoader, its CohortLoaderTask objects and the requests of          *)
(* directCohortDownloadApi.                                                *)
(*                                                                         *)
(* A task object comes from a sync.Pool and goes back when its run ends,   *)
(* while goroutines of downloadCohorts may still hold a pointer to it: if  *)
(* it is then initialised for another cohort, they read the doneChan of    *)
(* that job.  sync.Pool hands out any object it holds, or a new one, so    *)
(* the tasks that may be had are those that do not run.                    *)
(*                                                                         *)
(* Each initialisation makes a new channel.  What a waiter waits on is     *)
(* therefore the present channel of its task or one of the task's past,    *)
(* and those are closed.                                                   *)
(***************************************************************************)
EXTENDS Naturals

CONSTANTS
    Cohorts,        \* cohort ids
    Tasks,          \* task objects
    Waiters,        \* goroutines of downloadCohorts
    None,           \* no task, no cohort
    MaxVersion      \* bound: versions of each cohort on the server

ASSUME CohortLoaderAssumption ==
    /\ None \notin Tasks \cup Cohorts
    /\ MaxVersion \in [Cohorts -> Nat]

Attempts == 3       \* transport errors getCohort gives up after
Absent   == 0       \* version of a cohort that is not stored

VARIABLES
    server,     \* the version of each cohort on the server
    stored,     \* cohortStorage: the version stored, or Absent
    jobs,       \* cl.jobs: the task loading each cohort, or None
    pc,         \* where the run of each task is
    cohortOf,   \* task.cohortId
    known,      \* the version whose lastModified the task sends
    errors,     \* transport errors of the task's request so far
    answer,     \* the version the task was given
    wanted,     \* the cohort each waiter asked for, or None
    task,       \* the task it was given, or None
    chan,       \* "unread", or which doneChan of its task it waits on
    joined      \* history: does the task still do the job that was joined?

taskVars   == <<pc, cohortOf, known, errors, answer>>
waiterVars == <<wanted, task, chan, joined>>
vars == <<server, stored, jobs, pc, cohortOf, known, errors, answer,
          wanted, task, chan, joined>>

TypeOK ==
    /\ server \in [Cohorts -> Nat]
    /\ stored \in [Cohorts -> Nat]
    /\ jobs \in [Cohorts -> Tasks \cup {None}]
    /\ pc \in [Tasks -> {"idle", "read", "request", "store", "remove",
                         "close", "recycle"}]
    /\ cohortOf \in [Tasks -> Cohorts \cup {None}]
    /\ known \in [Tasks -> Nat]
    /\ errors \in [Tasks -> 0..Attempts - 1]
    /\ answer \in [Tasks -> Nat]
    /\ wanted \in [Waiters -> Cohorts \cup {None}]
    /\ task \in [Waiters -> Tasks \cup {None}]
    /\ chan \in [Waiters -> {"unread", "present", "past"}]
    /\ joined \in [Waiters -> BOOLEAN]
    /\ \A c \in Cohorts : jobs[c] # None => cohortOf[jobs[c]] = c

Init ==
    /\ server = [c \in Cohorts |-> 1]
    /\ stored = [c \in Cohorts |-> Absent]
    /\ jobs = [c \in Cohorts |-> None]
    /\ pc = [t \in Tasks |-> "idle"]
    /\ cohortOf = [t \in Tasks |-> None]
    /\ known = [t \in Tasks |-> Absent]
    /\ errors = [t \in Tasks |-> 0]
    /\ answer = [t \in Tasks |-> Absent]
    /\ wanted = [w \in Waiters |-> None]
    /\ task = [w \in Waiters |-> None]
    /\ chan = [w \in Waiters |-> "unread"]
    /\ joined = [w \in Waiters |-> FALSE]

Goto(t, l) == pc' = [pc EXCEPT ![t] = l]

----------------------------------------------------------------------------
(* downloadCohorts: one goroutine per cohort calls loadCohort and wait. *)

\* loadCohort returns task t, doing the job of c, to the waiter.
Join(w, c) ==
    /\ wanted[w] = None
    /\ jobs[c] # None
    /\ wanted' = [wanted EXCEPT ![w] = c]
    /\ task' = [task EXCEPT ![w] = jobs[c]]
    /\ joined' = [joined EXCEPT ![w] = TRUE]
    /\ UNCHANGED <<server, stored, jobs, taskVars, chan>>

\* task.init(cl, id), with a new doneChan, and go task.run().
InitTask(w, c, t) ==
    /\ pc[t] = "idle"
    /\ jobs' = [jobs EXCEPT ![c] = t]
    /\ pc' = [pc EXCEPT ![t] = "read"]
    /\ cohortOf' = [cohortOf EXCEPT ![t] = c]
    /\ wanted' = [wanted EXCEPT ![w] = c]
    /\ task' = [task EXCEPT ![w] = t]
    /\ joined' = [v \in Waiters |-> v = w \/ (joined[v] /\ task[v] # t)]
    /\ chan' = [v \in Waiters |->
                   IF task[v] = t /\ chan[v] = "present" THEN "past"
                                                        ELSE chan[v]]
    /\ UNCHANGED <<server, stored, known, errors, answer>>

\* Mutant: a job that is already running is not looked for.
LaunchAlways(w, c) ==
    /\ wanted[w] = None
    /\ \E t \in Tasks : InitTask(w, c, t)

Launch(w, c) ==
    /\ wanted[w] = None
    /\ jobs[c] = None
    /\ \E t \in Tasks : InitTask(w, c, t)

\* wait() evaluates task.doneChan, whoever's job that is by now.
ReadChan(w) ==
    /\ task[w] # None
    /\ chan[w] = "unread"
    /\ chan' = [chan EXCEPT ![w] = "present"]
    /\ UNCHANGED <<server, stored, jobs, taskVars, wanted, task, joined>>

\* The channel is closed: the run that made it is past its last step but one.
Wake(w) ==
    /\ \/ chan[w] = "past"
       \/ chan[w] = "present" /\ pc[task[w]] \in {"recycle", "idle"}
    /\ wanted' = [wanted EXCEPT ![w] = None]
    /\ task' = [task EXCEPT ![w] = None]
    /\ chan' = [chan EXCEPT ![w] = "unread"]
    /\ joined' = [joined EXCEPT ![w] = FALSE]
    /\ UNCHANGED <<server, stored, jobs, taskVars>>

----------------------------------------------------------------------------
(* CohortLoaderTask.run of task t, and getCohort. *)

ReadStored(t) ==
    /\ pc[t] = "read"
    /\ known' = [known EXCEPT ![t] = stored[cohortOf[t]]]
    /\ Goto(t, "request")
    /\ UNCHANGED <<server, stored, jobs, cohortOf, errors, answer, waiterVars>>

\* The request is over: what only getCohort knew is forgotten.
RequestEnds(t, l) ==
    /\ pc[t] = "request"
    /\ known' = [known EXCEPT ![t] = Absent]
    /\ errors' = [errors EXCEPT ![t] = 0]
    /\ Goto(t, l)

TransportError(t) ==
    /\ pc[t] = "request"
    /\ errors[t] + 1 < Attempts
    /\ errors' = [errors EXCEPT ![t] = @ + 1]
    /\ UNCHANGED <<server, stored, jobs, pc, cohortOf, known, answer,
                   waiterVars>>

\* The last transport error, an unexpected status, a cohort that is too
\* large, or a body that cannot be decoded.
RequestFails(t) ==
    /\ RequestEnds(t, "remove")
    /\ UNCHANGED <<server, stored, jobs, cohortOf, answer, waiterVars>>

\* 204: not modified.
Unmodified(t) ==
    /\ RequestEnds(t, "remove")
    /\ known[t] = server[cohortOf[t]]
    /\ UNCHANGED <<server, stored, jobs, cohortOf, answer, waiterVars>>

\* Mutant: the job is taken out of the map before its cohort is stored.
AnsweredAndRemoved(t) ==
    /\ RequestEnds(t, "store")
    /\ answer' = [answer EXCEPT ![t] = server[cohortOf[t]]]
    /\ jobs' = [jobs EXCEPT ![cohortOf[t]] = None]
    /\ UNCHANGED <<server, stored, cohortOf, waiterVars>>

Answered(t) ==
    /\ RequestEnds(t, "store")
    /\ answer' = [answer EXCEPT ![t] = server[cohortOf[t]]]
    /\ UNCHANGED <<server, stored, jobs, cohortOf, waiterVars>>

PutCohort(t) ==
    /\ pc[t] = "store"
    /\ stored' = [stored EXCEPT ![cohortOf[t]] = answer[t]]
    /\ answer' = [answer EXCEPT ![t] = Absent]
    /\ Goto(t, "remove")
    /\ UNCHANGED <<server, jobs, cohortOf, known, errors, waiterVars>>

RemoveJob(t) ==
    /\ pc[t] = "remove"
    /\ jobs' = [jobs EXCEPT ![cohortOf[t]] = None]
    /\ Goto(t, "close")
    /\ UNCHANGED <<server, stored, cohortOf, known, errors, answer, waiterVars>>

CloseDone(t) ==
    /\ pc[t] = "close"
    /\ Goto(t, "recycle")
    /\ UNCHANGED <<server, stored, jobs, cohortOf, known, errors,
                   answer, waiterVars>>

\* The deferred executor.Put.
Recycle(t) ==
    /\ pc[t] = "recycle"
    /\ Goto(t, "idle")
    /\ cohortOf' = [cohortOf EXCEPT ![t] = None]
    /\ UNCHANGED <<server, stored, jobs, known, errors, answer, waiterVars>>

----------------------------------------------------------------------------
(* The server, and the updates that drop cohorts no flag uses. *)

CohortChanges(c) ==
    /\ server[c] < MaxVersion[c]
    /\ server' = [server EXCEPT ![c] = @ + 1]
    /\ UNCHANGED <<stored, jobs, taskVars, waiterVars>>

DeleteCohort(c) ==
    /\ stored[c] # Absent
    /\ stored' = [stored EXCEPT ![c] = Absent]
    /\ UNCHANGED <<server, jobs, taskVars, waiterVars>>

----------------------------------------------------------------------------
RequestStep(t) ==
    TransportError(t) \/ RequestFails(t) \/ Unmodified(t) \/ Answered(t)

RunStep(t) ==
    \/ ReadStored(t) \/ RequestStep(t) \/ PutCohort(t) \/ RemoveJob(t)
    \/ CloseDone(t) \/ Recycle(t)

WaiterStep(w) == ReadChan(w) \/ Wake(w)

Next ==
    \/ \E w \in Waiters, c \in Cohorts : Join(w, c) \/ Launch(w, c)
    \/ \E w \in Waiters : WaiterStep(w)
    \/ \E t \in Tasks : RunStep(t)
    \/ \E c \in Cohorts : CohortChanges(c) \/ DeleteCohort(c)

Spec == Init /\ [][Next]_vars

\* Goroutines run, and every request is answered or fails.
FairSpec ==
    /\ Spec
    /\ \A t \in Tasks : WF_vars(RunStep(t))
    /\ \A w \in Waiters : WF_vars(WaiterStep(w))

----------------------------------------------------------------------------
(* Properties. *)

\* The job a waiter joined is no longer in the map.
HasLanded(w) ==
    wanted[w] # None /\ ~(joined[w] /\ jobs[wanted[w]] = task[w])

SF == INSTANCE SingleFlight WITH
        flights <- {c \in Cohorts : jobs[c] # None},
        landed  <- {w \in Waiters : HasLanded(w)}

\* However task objects are used again: one download of a cohort at a time,
\* no waiter goes on before the download it joined is stored or has failed,
\* and every waiter goes on.
ImplementsLoader     == SF!Spec
ImplementsSingleFlight == SF!FairSpec

\* A stored cohort is never replaced by an older version of it, although a
\* new job may start while the previous one is still ending.
CohortNeverGoesBack ==
    [][\A c \in Cohorts : stored'[c] >= stored[c] \/ stored'[c] = Absent]_vars

============================================================================
