----------------------------- MODULE StreamApi -----------------------------
(***************************************************************************)
(* flagConfigStreamer over flagConfigStreamApiV2: an owner that starts and *)
(* stops the updater, and one receive goroutine per connection.            *)
(*                                                                         *)
(* Two mutexes are involved.  s.lock is held by the owner for the whole of *)
(* Start and Stop and by a goroutine that reports a failure while it stops *)
(* the updater; api.lock is held by Connect while it waits for the first   *)
(* message, by Close and by closeAll.  The pc values say who holds which,  *)
(* see StreamerLockFree and ApiLockFree.                                   *)
(*                                                                         *)
(* The server side of a connection is one fact, failed[c]: the stream has  *)
(* an error (or a message that does not parse) to hand over.  The flags    *)
(* that messages carry are the subject of FlagUpdate.                      *)
(***************************************************************************)
EXTENDS Naturals

CONSTANT MaxConns       \* bound: connections the owner opens

ASSUME StreamApiAssumption == MaxConns \in Nat

Conns  == 1..MaxConns
NoConn == 0

VARIABLES
    ownerPc,    \* where the owner is in Start or Stop
    wants,      \* the last call of the owner was a Start that succeeded
    last,       \* the newest connection
    stopCh,     \* the connection whose channel api.stopCh is, or NoConn
    pc,         \* where the receive goroutine of each connection is
    stopClosed, \* has the connection's local stopCh been closed?
    streamOpen, \* has the stream not been cancelled, its channels not closed?
    failed,     \* does the stream have an error to deliver?
    reported    \* onError was called since the last successful Start

ownerVars == <<ownerPc, wants, last>>
vars == <<ownerPc, wants, last, stopCh, pc, stopClosed, streamOpen, failed,
          reported>>

FlagsOK ==
    /\ wants \in BOOLEAN
    /\ stopClosed \in [Conns -> BOOLEAN]
    /\ streamOpen \in [Conns -> BOOLEAN]
    /\ failed \in [Conns -> BOOLEAN]
    /\ reported \in BOOLEAN

PlacesOK ==
    /\ ownerPc \in {"idle", "startClose", "connect", "first", "stopClose",
                    "crashed"}
    /\ last \in Conns \cup {NoConn}
    /\ stopCh \in Conns \cup {NoConn}
    /\ pc \in [Conns -> {"none", "first", "receiving", "closing", "reporting",
                         "stopping", "notifying", "done"}]
    /\ \A c \in Conns : pc[c] = "none" <=> c > last
    /\ \A c \in Conns : pc[c] = "first" => c = last /\ ownerPc = "first"

TypeOK == FlagsOK /\ PlacesOK

Init ==
    /\ ownerPc = "idle"
    /\ wants = FALSE
    /\ last = NoConn
    /\ stopCh = NoConn
    /\ pc = [c \in Conns |-> "none"]
    /\ stopClosed = [c \in Conns |-> FALSE]
    /\ streamOpen = [c \in Conns |-> FALSE]
    /\ failed = [c \in Conns |-> FALSE]
    /\ reported = FALSE

StreamerLockFree == ownerPc = "idle" /\ \A c \in Conns : pc[c] # "stopping"
ApiLockFree      == ownerPc # "first"

\* Mutant: the channel is dropped without being closed.
CloseInternalForgets ==
    /\ stopCh' = NoConn
    /\ UNCHANGED stopClosed

\* Mutant: the channel is closed but still referred to.
CloseInternalKeeps ==
    /\ stopClosed' = [c \in Conns |-> stopClosed[c] \/ c = stopCh]
    /\ UNCHANGED stopCh

\* Close the channel api.stopCh refers to, if any, and forget it.
CloseInternal ==
    /\ stopCh' = NoConn
    /\ stopClosed' = [c \in Conns |-> stopClosed[c] \/ c = stopCh]

----------------------------------------------------------------------------
(* The owner: streamer.Start = Close then Connect, streamer.Stop = Close. *)

StartLocks ==
    /\ StreamerLockFree
    /\ last < MaxConns
    /\ ownerPc' = "startClose"
    /\ UNCHANGED <<wants, last, stopCh, pc, stopClosed, streamOpen, failed,
                   reported>>

StartCloses ==
    /\ ownerPc = "startClose"
    /\ CloseInternal
    /\ ownerPc' = "connect"
    /\ UNCHANGED <<wants, last, pc, streamOpen, failed, reported>>

ConnectBegins ==
    /\ ownerPc = "connect"
    /\ CloseInternal
    /\ last' = last + 1
    /\ pc' = [pc EXCEPT ![last'] = "first"]
    /\ streamOpen' = [streamOpen EXCEPT ![last'] = TRUE]
    /\ ownerPc' = "first"
    /\ UNCHANGED <<wants, failed, reported>>

\* The first message parsed and was stored: the receive goroutine starts.
FirstMessage ==
    /\ ownerPc = "first"
    /\ pc' = [pc EXCEPT ![last] = "receiving"]
    /\ stopCh' = last
    /\ ownerPc' = "idle"
    /\ wants' = TRUE
    /\ reported' = FALSE
    /\ UNCHANGED <<last, stopClosed, streamOpen, failed>>

\* Mutant: no timeout, only an error of the stream ends the wait.
FirstFailsNoTimeout ==
    /\ ownerPc = "first"
    /\ failed[last]
    /\ pc' = [pc EXCEPT ![last] = "done"]
    /\ streamOpen' = [streamOpen EXCEPT ![last] = FALSE]
    /\ ownerPc' = "idle"
    /\ wants' = FALSE
    /\ UNCHANGED <<last, stopCh, stopClosed, failed, reported>>

\* Mutant: a failed Connect does not close the stream.
FirstFailsLeaks ==
    /\ ownerPc = "first"
    /\ ownerPc' = "idle"
    /\ wants' = FALSE
    /\ UNCHANGED <<last, stopCh, pc, stopClosed, streamOpen, failed, reported>>

\* Corrupt or refused first message, stream error, or connection timeout.
FirstFails ==
    /\ ownerPc = "first"
    /\ pc' = [pc EXCEPT ![last] = "done"]
    /\ streamOpen' = [streamOpen EXCEPT ![last] = FALSE]
    /\ ownerPc' = "idle"
    /\ wants' = FALSE
    /\ UNCHANGED <<last, stopCh, stopClosed, failed, reported>>

StopLocks ==
    /\ StreamerLockFree
    /\ ownerPc' = "stopClose"
    /\ UNCHANGED <<wants, last, stopCh, pc, stopClosed, streamOpen, failed,
                   reported>>

StopCloses ==
    /\ ownerPc = "stopClose"
    /\ CloseInternal
    /\ ownerPc' = "idle"
    /\ wants' = FALSE
    /\ UNCHANGED <<last, pc, streamOpen, failed, reported>>

----------------------------------------------------------------------------
(* The stream and the receive goroutine of connection c. *)

StreamFails(c) ==
    /\ streamOpen[c]
    /\ ~failed[c]
    /\ failed' = [failed EXCEPT ![c] = TRUE]
    /\ UNCHANGED <<ownerVars, stopCh, pc, stopClosed, streamOpen, reported>>

SeesStop(c) ==
    /\ pc[c] = "receiving"
    /\ stopClosed[c]
    /\ streamOpen' = [streamOpen EXCEPT ![c] = FALSE]
    /\ pc' = [pc EXCEPT ![c] = "done"]
    /\ UNCHANGED <<ownerVars, stopCh, stopClosed, failed, reported>>

\* select takes any ready case, so also when the local stopCh is closed.
SeesError(c) ==
    /\ pc[c] = "receiving"
    /\ failed[c]
    /\ pc' = [pc EXCEPT ![c] = "closing"]
    /\ UNCHANGED <<ownerVars, stopCh, stopClosed, streamOpen, failed, reported>>

\* Mutant: the goroutine ends without calling onError.
CloseAllSilently(c) ==
    /\ pc[c] = "closing"
    /\ ApiLockFree
    /\ streamOpen' = [streamOpen EXCEPT ![c] = FALSE]
    /\ stopCh' = IF stopCh = c THEN NoConn ELSE stopCh
    /\ ~stopClosed[c]
    /\ stopClosed' = [stopClosed EXCEPT ![c] = TRUE]
    /\ pc' = [pc EXCEPT ![c] = "done"]
    /\ UNCHANGED <<ownerVars, failed, reported>>

CloseAll(c) ==
    /\ pc[c] = "closing"
    /\ ApiLockFree
    /\ ~stopClosed[c]
    /\ streamOpen' = [streamOpen EXCEPT ![c] = FALSE]
    /\ stopCh' = IF stopCh = c THEN NoConn ELSE stopCh
    /\ stopClosed' = [stopClosed EXCEPT ![c] = TRUE]
    /\ pc' = [pc EXCEPT ![c] = "reporting"]
    /\ UNCHANGED <<ownerVars, failed, reported>>

\* close(stopCh) of a closed channel panics in a goroutine nobody recovers:
\* the process is gone.
CloseAllPanics(c) ==
    /\ pc[c] = "closing"
    /\ ApiLockFree
    /\ stopClosed[c]
    /\ ownerPc' = "crashed"
    /\ streamOpen' = [d \in Conns |-> FALSE]
    /\ pc' = [d \in Conns |-> IF d > last THEN "none" ELSE "done"]
    /\ stopCh' = NoConn
    /\ UNCHANGED <<wants, last, stopClosed, failed, reported>>

\* onError: s.Stop(), which closes whatever connection is then current ...
ReportLocks(c) ==
    /\ pc[c] = "reporting"
    /\ StreamerLockFree
    /\ pc' = [pc EXCEPT ![c] = "stopping"]
    /\ UNCHANGED <<ownerVars, stopCh, stopClosed, streamOpen, failed, reported>>

ReportStops(c) ==
    /\ pc[c] = "stopping"
    /\ CloseInternal
    /\ pc' = [pc EXCEPT ![c] = "notifying"]
    /\ UNCHANGED <<ownerVars, streamOpen, failed, reported>>

\* ... and then go onError(err).
ReportNotifies(c) ==
    /\ pc[c] = "notifying"
    /\ pc' = [pc EXCEPT ![c] = "done"]
    /\ reported' = TRUE
    /\ UNCHANGED <<ownerVars, stopCh, stopClosed, streamOpen, failed>>

----------------------------------------------------------------------------
OwnerStep ==
    \/ StartLocks \/ StartCloses \/ ConnectBegins \/ FirstMessage \/ FirstFails
    \/ StopLocks \/ StopCloses

ConnStep(c) ==
    \/ StreamFails(c) \/ SeesStop(c) \/ SeesError(c) \/ CloseAll(c)
    \/ CloseAllPanics(c) \/ ReportLocks(c) \/ ReportStops(c)
    \/ ReportNotifies(c)

Next == OwnerStep \/ \E c \in Conns : ConnStep(c)

Spec == Init /\ [][Next]_vars

\* A goroutine that can run does.  sync.Mutex lets a waiter in eventually,
\* so lock acquisitions are strongly fair.  The wait for the first message is
\* bounded by time.After; that a message comes is not assumed.  If one comes,
\* the fairness of FirstFails also takes onInitUpdate to end, whose cohort
\* downloads have no timeout in the code.
Fairness ==
    /\ WF_vars(StartCloses \/ ConnectBegins \/ StopCloses)
    /\ WF_vars(FirstFails)
    /\ \A c \in Conns :
        /\ WF_vars(SeesStop(c) \/ SeesError(c))
        /\ SF_vars(CloseAll(c) \/ CloseAllPanics(c))
        /\ SF_vars(ReportLocks(c))
        /\ WF_vars(ReportStops(c) \/ ReportNotifies(c))

FairSpec == Spec /\ Fairness

----------------------------------------------------------------------------
(* Properties. *)

\* No connection is out of reach: one that still receives and was not told to
\* stop is the one api.stopCh refers to, so Close ends it.
ConnectionReachable ==
    \A c \in Conns :
        pc[c] \in {"receiving", "closing"} /\ ~stopClosed[c] => stopCh = c

\* No stream leaks: one that is open is being connected, or has a receive
\* goroutine that will close it.
OpenStreamHasReader ==
    \A c \in Conns :
        streamOpen[c] => pc[c] \in {"receiving", "closing"}
                            \/ (c = last /\ ownerPc = "first")

\* Close and Connect never close a channel twice: api.stopCh, when set, is the
\* open channel of a connection whose stream is open too.
StopChIsOpen ==
    stopCh # NoConn => ~stopClosed[stopCh] /\ streamOpen[stopCh]

Reporting(c) == pc[c] \in {"closing", "reporting", "stopping", "notifying"}

\* "If some other async error happened [...] it should call the callback": a
\* started updater that has no connection any more has called onError or is
\* about to, also when a report of an older connection closed the newer one.
NeverSilentlyDead ==
    ownerPc = "idle" /\ wants =>
        stopCh # NoConn \/ reported \/ \E c \in Conns : Reporting(c)

\* An asynchronous error is reported; it does not take the process down.
NoPanic == ownerPc # "crashed"

\* Start and Stop return: no wait on the two locks or on the first message
\* lasts for ever.
CallsReturn == ownerPc # "idle" ~> ownerPc \in {"idle", "crashed"}

============================================================================
