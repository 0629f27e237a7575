---------------------------- MODULE RemoteClient ----------------------------
(***************************************************************************)
(* The remote client: Initialize with its registry of clients, and one     *)
(* FetchV2WithContextAndOptions with the retries of retryFetch.            *)
(*                                                                         *)
(* Fetches share nothing but the config of their client, so one of them is *)
(* followed.  Time passes in ticks; timers and deadlines are met at once.  *)
(***************************************************************************)
EXTENDS Naturals, Sequences

CONSTANTS
    Keys,       \* API keys, none of them empty
    Configs,    \* configs: the timeout of the first request, and RetryBackoff
    None        \* no client

ASSUME RemoteClientAssumption ==
    /\ None \notin Configs
    /\ \A f \in Configs :
        /\ f.fetchTimeout \in Nat /\ f.retryTimeout \in Nat
        /\ f.retries \in Nat /\ f.scalar \in Nat
        /\ f.min \in Nat /\ f.max \in Nat

\* What a request comes to: variants, a body that is null, a status from 400
\* to 499 other than 429, another status, or no response that can be read.
Answers == {"variants", "null", "client error", "server error", "failure"}

IsError(a) == a \notin {"variants", "null"}

VARIABLES
    clients,    \* the config of every client, by its key
    mutex,      \* initMutex: "free", or "held" by a call that panicked
    pc,         \* "idle", "requesting", "sleeping" or "returned"
    config,     \* the config of the client that fetches
    cancelled,  \* is the caller's context cancelled?
    answers,    \* the answers so far; the loop's i is one less than their number
    delay,      \* the delay of the next retry
    left,       \* ticks left until the timer or the request's deadline
    elapsed     \* ticks since the call

initVars  == <<clients, mutex>>
fetchVars == <<pc, config, cancelled, answers, delay, left, elapsed>>
vars      == <<initVars, fetchVars>>

Init ==
    /\ clients = [k \in Keys |-> None]
    /\ mutex = "free"
    /\ pc = "idle"
    /\ config = None
    /\ cancelled = FALSE
    /\ answers = <<>>
    /\ delay = 0 /\ left = 0 /\ elapsed = 0

----------------------------------------------------------------------------
\* The first config given for a key stays.
Initialize(k, f) ==
    /\ mutex = "free"
    /\ clients[k] = None
    /\ clients' = [clients EXCEPT ![k] = f]
    /\ UNCHANGED <<mutex, fetchVars>>

\* With an empty key Initialize panics before it unlocks.
InitializePanics ==
    /\ mutex = "free"
    /\ mutex' = "held"
    /\ UNCHANGED <<clients, fetchVars>>

Fetch(k) ==
    /\ pc = "idle"
    /\ clients[k] # None
    /\ config' = clients[k]
    /\ pc' = "requesting"
    /\ left' = config'.fetchTimeout
    /\ UNCHANGED <<initVars, cancelled, answers, delay, elapsed>>

----------------------------------------------------------------------------
\* Mutant: only a request without a response is tried again.
RetryFailureOnly(a) == a = "failure"

ShouldRetryFetch(a) == a # "client error"

\* Mutant: the delay has no upper bound.
Longer(d) == d * config.scalar

NextDelay(d) ==
    LET longer == d * config.scalar
    IN  IF longer < config.max THEN longer ELSE config.max

Return ==
    /\ pc' = "returned"
    /\ UNCHANGED <<delay, left>>

Sleep(d) ==
    /\ pc' = "sleeping"
    /\ delay' = d
    /\ left' = d

AfterFirst(a) ==
    IF IsError(a) /\ config.retries > 0 /\ ShouldRetryFetch(a)
    THEN Sleep(config.min)
    ELSE Return

\* In the loop a null body is tried again like any error, and so is an error
\* that shouldRetryFetch would not retry.
AfterRetry(a) ==
    IF a = "variants" \/ Len(answers') > config.retries
    THEN Return
    ELSE Sleep(NextDelay(delay))

RequestEnds(a) ==
    /\ pc = "requesting"
    /\ answers' = Append(answers, a)
    /\ IF answers = <<>> THEN AfterFirst(a) ELSE AfterRetry(a)
    /\ UNCHANGED <<initVars, config, cancelled, elapsed>>

\* A cancelled context fails the request, before or after it is sent.
ServerAnswers(a) == ~cancelled /\ RequestEnds(a)

ContextEnds == (cancelled \/ left = 0) /\ RequestEnds("failure")

Cancel ==
    /\ ~cancelled
    /\ cancelled' = TRUE
    /\ UNCHANGED <<initVars, pc, config, answers, delay, left, elapsed>>

\* <-timer.C, which the context does not interrupt.
TimerFires ==
    /\ pc = "sleeping" /\ left = 0
    /\ pc' = "requesting"
    /\ left' = config.retryTimeout
    /\ UNCHANGED <<initVars, config, cancelled, answers, delay, elapsed>>

Tick ==
    /\ pc \in {"requesting", "sleeping"}
    /\ left > 0
    /\ ~(cancelled /\ pc = "requesting")
    /\ left' = left - 1
    /\ elapsed' = elapsed + 1
    /\ UNCHANGED <<initVars, pc, config, cancelled, answers, delay>>

Next ==
    \/ \E k \in Keys, f \in Configs : Initialize(k, f)
    \/ InitializePanics
    \/ \E k \in Keys : Fetch(k)
    \/ \E a \in Answers : ServerAnswers(a)
    \/ ContextEnds
    \/ Cancel
    \/ TimerFires
    \/ Tick

Spec == Init /\ [][Next]_vars

----------------------------------------------------------------------------
(* Properties. *)

Last == answers[Len(answers)]

\* A fetch returns as soon as there are variants.  Otherwise it ends with what
\* the last request came to, and only after every retry: sooner only if the
\* first request was answered by null or by an error that is not retried.
OutcomeIsEarned ==
    pc = "returned" =>
        /\ \A i \in 1..Len(answers) - 1 : answers[i] # "variants"
        /\ \/ Last = "variants"
           \/ Len(answers) = 1 + config.retries
           \/ Len(answers) = 1 /\ Last \in {"null", "client error"}

\* However the server and the caller's context behave, a call takes no longer
\* than its requests may take and all sleeps together, none of which is longer
\* than the greatest delay, except the first.
FetchIsBounded ==
    pc # "idle" =>
        elapsed <= config.fetchTimeout + config.retries * config.retryTimeout
                        + (IF config.retries = 0 THEN 0 ELSE config.min)
                        + (IF config.retries = 0 THEN 0
                           ELSE (config.retries - 1) * config.max)

============================================================================
