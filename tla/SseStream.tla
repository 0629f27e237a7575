------------------------------ MODULE SseStream -----------------------------
(***************************************************************************)
(* sseStream: the connection that flagConfigStreamApiV2.Connect makes, and *)
(* the connections that replace it, one after the other, each time the     *)
(* reconnect interval is over.                                             *)
(*                                                                         *)
(* Each connection has a context, a main goroutine that passes messages    *)
(* and errors of the event source on, and a reconnect timer.  They share   *)
(* the two channels to the reader, which are unbuffered: a send waits for  *)
(* the reader or, once the channels are closed, panics and is muted.       *)
(*                                                                         *)
(* s.lock is held for one step at a time (Connect, Cancel, cancelWithLock) *)
(* but not by the reconnect timer when it connects.  Timeouts may strike   *)
(* whenever they are waited for.  Keep-alive data changes nothing here.    *)
(***************************************************************************)
EXTENDS Naturals

CONSTANT MaxConns       \* bound: connections of the stream

ASSUME SseStreamAssumption == MaxConns \in Nat \ {0}

Conns  == 1..MaxConns
NoConn == 0

VARIABLES
    reader,     \* where the goroutine that reads the channels is
    current,    \* the connection s.cancelClientContext is of, or NoConn
    last,       \* the newest connection
    live,       \* is the context of a connection not cancelled?
    source,     \* the event source of each connection
    pc,         \* where the main goroutine of each connection is
    timer       \* where the reconnect timer of each connection is

vars == <<reader, current, last, live, source, pc, timer>>

PlacesOK ==
    /\ reader \in {"new", "reading", "cancelling", "closing", "gone"}
    /\ current \in Conns \cup {NoConn}
    /\ last \in Conns \cup {NoConn}
    /\ source \in [Conns -> {"none", "connecting", "open", "refused",
                             "dropped"}]
    /\ pc \in [Conns -> {"none", "connect", "loop", "select", "message",
                         "muted", "failed", "error", "silent", "silentError",
                         "done"}]
    /\ timer \in [Conns -> {"none", "armed", "checked", "cancelled", "done"}]

TypeOK ==
    /\ PlacesOK
    /\ live \in [Conns -> BOOLEAN]
    /\ \A c \in Conns : live[c] => pc[c] \notin {"none", "error", "done"}

Init ==
    /\ reader = "new"
    /\ current = NoConn
    /\ last = NoConn
    /\ live = [c \in Conns |-> FALSE]
    /\ source = [c \in Conns |-> "none"]
    /\ pc = [c \in Conns |-> "none"]
    /\ timer = [c \in Conns |-> "none"]

ChannelsClosed == reader = "gone"

\* connectInternal: a context, an event source, a main goroutine, a timer.
NewConnection(c) ==
    /\ current' = c
    /\ last' = c
    /\ live' = [live EXCEPT ![c] = TRUE]
    /\ source' = [source EXCEPT ![c] = "connecting"]
    /\ pc' = [pc EXCEPT ![c] = "connect"]

\* Mutant: whatever connection the field is of is forgotten.
CancelWithLockForgets(c) ==
    /\ live' = [live EXCEPT ![c] = FALSE]
    /\ current' = NoConn

CancelWithLock(c) ==
    /\ live' = [live EXCEPT ![c] = FALSE]
    /\ current' = IF current = c THEN NoConn ELSE current

----------------------------------------------------------------------------
(* The reader: Connect, reading, and closeStream = Cancel, then close.     *)

Connect ==
    /\ reader = "new"
    /\ NewConnection(1)
    /\ timer' = [timer EXCEPT ![1] = "armed"]
    /\ reader' = "reading"

\* The updater is stopped, or a message could not be parsed.
StopReading ==
    /\ reader = "reading"
    /\ reader' = "cancelling"
    /\ UNCHANGED <<current, last, live, source, pc, timer>>

Cancel ==
    /\ reader = "cancelling"
    /\ live' = [c \in Conns |-> live[c] /\ c # current]
    /\ current' = NoConn
    /\ reader' = "closing"
    /\ UNCHANGED <<last, source, pc, timer>>

CloseChannels ==
    /\ reader = "closing"
    /\ reader' = "gone"
    /\ UNCHANGED <<current, last, live, source, pc, timer>>

----------------------------------------------------------------------------
(* The event source of connection c. *)

SourceMoves(c, from, to) ==
    /\ source[c] = from
    /\ source' = [source EXCEPT ![c] = to]
    /\ UNCHANGED <<reader, current, last, live, pc, timer>>

SourceOpens(c) == live[c] /\ SourceMoves(c, "connecting", "open")

\* Also the way a subscription ends when its context is cancelled.
SourceRefused(c) == SourceMoves(c, "connecting", "refused")

SourceDrops(c) == live[c] /\ SourceMoves(c, "open", "dropped")

----------------------------------------------------------------------------
(* The main goroutine of connection c. *)

Goto(c, l) == pc' = [pc EXCEPT ![c] = l]

SeesCancel(c) ==
    /\ pc[c] \in {"connect", "loop", "select"}
    /\ ~live[c]
    /\ Goto(c, "done")
    /\ UNCHANGED <<reader, current, last, live, source, timer>>

SeesConnected(c) ==
    /\ pc[c] = "connect"
    /\ source[c] \in {"open", "dropped"}
    /\ Goto(c, "loop")
    /\ UNCHANGED <<reader, current, last, live, source, timer>>

\* The subscription failed, or the connection timed out.
ConnectFails(c) ==
    /\ pc[c] = "connect"
    /\ Goto(c, "failed")
    /\ UNCHANGED <<reader, current, last, live, source, timer>>

\* "Forced priority on context done": only a live context goes on to select,
\* where it may be cancelled while another case is ready.
LoopChecks(c) ==
    /\ pc[c] = "loop"
    /\ live[c]
    /\ Goto(c, "select")
    /\ UNCHANGED <<reader, current, last, live, source, timer>>

TakesMessage(c) ==
    /\ pc[c] = "select"
    /\ source[c] = "open"
    /\ Goto(c, "message")
    /\ UNCHANGED <<reader, current, last, live, source, timer>>

SeesDisconnect(c) ==
    /\ pc[c] = "select"
    /\ source[c] = "dropped"
    /\ Goto(c, "failed")
    /\ UNCHANGED <<reader, current, last, live, source, timer>>

KeepaliveTimesOut(c) ==
    /\ pc[c] = "select"
    /\ Goto(c, "silent")
    /\ UNCHANGED <<reader, current, last, live, source, timer>>

SendsMessage(c) ==
    /\ pc[c] = "message"
    /\ reader = "reading"
    /\ Goto(c, "loop")
    /\ UNCHANGED <<reader, current, last, live, source, timer>>

\* Mutant: the panic is muted, and that is all.
MessageMutedOnly(c) ==
    /\ pc[c] = "message"
    /\ ChannelsClosed
    /\ Goto(c, "done")
    /\ UNCHANGED <<reader, current, last, live, source, timer>>

\* mutePanic(cancelWithLock): "If channel closed, cancel."
MessageMuted(c) ==
    /\ pc[c] = "message"
    /\ ChannelsClosed
    /\ Goto(c, "muted")
    /\ UNCHANGED <<reader, current, last, live, source, timer>>

\* Mutant: the context is cancelled and no error follows.
CancelsOnly(c) ==
    /\ \/ pc[c] \in {"muted", "failed"} /\ Goto(c, "done")
       \/ pc[c] = "silent" /\ Goto(c, "silentError")
    /\ CancelWithLock(c)
    /\ UNCHANGED <<reader, last, source, timer>>

\* cancelWithLock, before the error is sent or after a muted message.
Cancels(c) ==
    /\ \/ pc[c] = "muted"  /\ Goto(c, "done")
       \/ pc[c] = "failed" /\ Goto(c, "error")
       \/ pc[c] = "silent" /\ Goto(c, "silentError")
    /\ CancelWithLock(c)
    /\ UNCHANGED <<reader, last, source, timer>>

\* After a keep-alive timeout the goroutine loops instead of returning.
SendsError(c) ==
    /\ \/ pc[c] = "error"       /\ Goto(c, "done")
       \/ pc[c] = "silentError" /\ Goto(c, "loop")
    /\ reader = "reading"
    /\ reader' = "cancelling"
    /\ UNCHANGED <<current, last, live, source, timer>>

ErrorMuted(c) ==
    /\ pc[c] \in {"error", "silentError"}
    /\ ChannelsClosed
    /\ Goto(c, "done")
    /\ UNCHANGED <<reader, current, last, live, source, timer>>

----------------------------------------------------------------------------
(* The reconnect timer of connection c. *)

SetTimer(c, l) == timer' = [timer EXCEPT ![c] = l]

TimerFires(c) ==
    /\ timer[c] = "armed"
    /\ c < MaxConns
    /\ SetTimer(c, IF live[c] THEN "checked" ELSE "done")
    /\ UNCHANGED <<reader, current, last, live, source, pc>>

\* Mutant: the old connection is left to itself.
TimerCancelsNothing(c) ==
    /\ timer[c] = "checked"
    /\ SetTimer(c, "cancelled")
    /\ UNCHANGED <<reader, current, last, live, source, pc>>

TimerCancels(c) ==
    /\ timer[c] = "checked"
    /\ CancelWithLock(c)
    /\ SetTimer(c, "cancelled")
    /\ UNCHANGED <<reader, last, source, pc>>

\* Without s.lock, and without looking whether Cancel was called meanwhile.
TimerConnects(c) ==
    /\ timer[c] = "cancelled"
    /\ NewConnection(c + 1)
    /\ timer' = [timer EXCEPT ![c] = "done", ![c + 1] = "armed"]
    /\ UNCHANGED reader

----------------------------------------------------------------------------
ReaderStep == Connect \/ StopReading \/ Cancel \/ CloseChannels

SourceStep(c) == SourceOpens(c) \/ SourceRefused(c) \/ SourceDrops(c)

WaitEnds(c) ==
    \/ SeesCancel(c) \/ SeesConnected(c) \/ ConnectFails(c) \/ LoopChecks(c)
    \/ TakesMessage(c) \/ SeesDisconnect(c) \/ KeepaliveTimesOut(c)

SendEnds(c) ==
    \/ SendsMessage(c) \/ MessageMuted(c) \/ Cancels(c) \/ SendsError(c)
    \/ ErrorMuted(c)

TimerStep(c) == TimerFires(c) \/ TimerCancels(c) \/ TimerConnects(c)

Next ==
    \/ ReaderStep
    \/ \E c \in Conns :
        SourceStep(c) \/ WaitEnds(c) \/ SendEnds(c) \/ TimerStep(c)

Spec == Init /\ [][Next]_vars

\* Goroutines that can run do.  A wait for the event source ends: the server
\* sends its flags on every connection, and where it does not, a timeout
\* strikes.  A reader that is told to stop closes the stream.
Fairness ==
    /\ WF_vars(Cancel \/ CloseChannels)
    /\ \A c \in Conns :
        WF_vars(WaitEnds(c)) /\ WF_vars(SendEnds(c)) /\ WF_vars(TimerStep(c))

FairSpec == Spec /\ Fairness

----------------------------------------------------------------------------
(* Properties. *)

\* A connection that is not cancelled is the newest one, so there is never
\* more than one, and s.cancelClientContext is its: Cancel would end it.
LiveIsCurrent == \A c \in Conns : live[c] => c = last /\ current = c

Failing(c) == pc[c] \in {"failed", "error", "silent", "silentError"}

\* A reader is never left waiting for nothing: a connection is live, an error
\* is on its way to the reader, or a reconnect is in progress.
ReaderIsServed ==
    reader = "reading" =>
        \E c \in Conns : live[c] \/ Failing(c) \/ timer[c] = "cancelled"

\* "Cancel stream, should cancel context": after Cancel no connection is live.
NoConnectionAfterCancel ==
    reader \in {"closing", "gone"} => \A c \in Conns : ~live[c]

Over ==
    \A c \in Conns :
        ~live[c] /\ pc[c] \in {"none", "done"} /\ timer[c] # "cancelled"

\* Once the channels are closed every goroutine of the stream ends and every
\* context is cancelled, the one of a reconnect that missed Cancel as well.
ClosedStreamEnds == ChannelsClosed ~> Over

\* A failure of any connection makes the reader give the stream up.
ErrorsArrive ==
    \A c \in Conns : Failing(c) ~> reader # "reading"

============================================================================
