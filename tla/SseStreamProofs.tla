--------------------------- MODULE SseStreamProofs --------------------------
(***************************************************************************)
(* Proofs about SseStream for any number of reconnections: there is one    *)
(* live connection at most, Cancel would reach it, and a reader is never   *)
(* left waiting for nothing.                                               *)
(*                                                                         *)
(* The connections form a chain.  The timers of all but the last one have  *)
(* run; only the timer of the last one can still add a connection, and it  *)
(* does so after that connection has been cancelled.                       *)
(***************************************************************************)
EXTENDS SseStream, TLAPS

LiveOK == live \in [Conns -> BOOLEAN]

\* The timers along the chain.
Chain ==
    /\ \A c \in Conns : c < last => timer[c] = "done"
    /\ \A c \in Conns : c > last => timer[c] = "none"
    /\ \A c \in Conns : timer[c] \in {"checked", "cancelled"} => c < MaxConns
    /\ \A c \in Conns : timer[c] = "cancelled" => ~live[c]
    /\ reader = "new" => last = NoConn

\* A goroutine that sends its error or has ended has cancelled its context;
\* only closed channels mute a send.
Goroutines ==
    \A c \in Conns :
        /\ live[c] => pc[c] \notin {"none", "error", "silentError", "done"}
        /\ pc[c] = "muted" => reader = "gone"

Control == PlacesOK /\ Chain /\ Goroutines /\ LiveIsCurrent /\ ReaderIsServed

IInv == LiveOK /\ Control

LEMMA InitIInv == Init => IInv
<1> SUFFICES ASSUME Init PROVE IInv
  OBVIOUS
<1> USE SseStreamAssumption DEF SseStreamAssumption, Init, Conns, NoConn
<1>1. LiveOK
  BY DEF LiveOK
<1>2. PlacesOK
  BY DEF PlacesOK
<1>3. Chain /\ Goroutines /\ LiveIsCurrent /\ ReaderIsServed
  BY DEF Chain, Goroutines, LiveIsCurrent, ReaderIsServed
<1> QED
  BY <1>1, <1>2, <1>3 DEF IInv, Control

LEMMA StepLive == LiveOK /\ [Next]_vars => LiveOK'
<1> SUFFICES ASSUME LiveOK, [Next]_vars PROVE LiveOK'
  OBVIOUS
<1> USE DEF LiveOK
<1>1. CASE Connect
  BY <1>1 DEF Connect, NewConnection
<1>2. CASE StopReading
  BY <1>2 DEF StopReading
<1>3. CASE Cancel
  BY <1>3 DEF Cancel
<1>4. CASE CloseChannels
  BY <1>4 DEF CloseChannels
<1>5. ASSUME NEW c \in Conns, SourceOpens(c) PROVE LiveOK'
  BY <1>5 DEF SourceOpens, SourceMoves
<1>6. ASSUME NEW c \in Conns, SourceRefused(c) PROVE LiveOK'
  BY <1>6 DEF SourceRefused, SourceMoves
<1>7. ASSUME NEW c \in Conns, SourceDrops(c) PROVE LiveOK'
  BY <1>7 DEF SourceDrops, SourceMoves
<1>8. ASSUME NEW c \in Conns, SeesCancel(c) PROVE LiveOK'
  BY <1>8 DEF SeesCancel, Goto
<1>9. ASSUME NEW c \in Conns, SeesConnected(c) PROVE LiveOK'
  BY <1>9 DEF SeesConnected, Goto
<1>10. ASSUME NEW c \in Conns, ConnectFails(c) PROVE LiveOK'
  BY <1>10 DEF ConnectFails, Goto
<1>11. ASSUME NEW c \in Conns, LoopChecks(c) PROVE LiveOK'
  BY <1>11 DEF LoopChecks, Goto
<1>12. ASSUME NEW c \in Conns, TakesMessage(c) PROVE LiveOK'
  BY <1>12 DEF TakesMessage, Goto
<1>13. ASSUME NEW c \in Conns, SeesDisconnect(c) PROVE LiveOK'
  BY <1>13 DEF SeesDisconnect, Goto
<1>14. ASSUME NEW c \in Conns, KeepaliveTimesOut(c) PROVE LiveOK'
  BY <1>14 DEF KeepaliveTimesOut, Goto
<1>15. ASSUME NEW c \in Conns, SendsMessage(c) PROVE LiveOK'
  BY <1>15 DEF SendsMessage, Goto
<1>16. ASSUME NEW c \in Conns, MessageMuted(c) PROVE LiveOK'
  BY <1>16 DEF MessageMuted, Goto, ChannelsClosed
<1>17. ASSUME NEW c \in Conns, Cancels(c) PROVE LiveOK'
  BY <1>17 DEF Cancels, Goto, CancelWithLock
<1>18. ASSUME NEW c \in Conns, SendsError(c) PROVE LiveOK'
  BY <1>18 DEF SendsError, Goto
<1>19. ASSUME NEW c \in Conns, ErrorMuted(c) PROVE LiveOK'
  BY <1>19 DEF ErrorMuted, Goto, ChannelsClosed
<1>20. ASSUME NEW c \in Conns, TimerFires(c) PROVE LiveOK'
  BY <1>20 DEF TimerFires, SetTimer
<1>21. ASSUME NEW c \in Conns, TimerCancels(c) PROVE LiveOK'
  BY <1>21 DEF TimerCancels, SetTimer, CancelWithLock
<1>22. ASSUME NEW c \in Conns, TimerConnects(c) PROVE LiveOK'
  BY <1>22 DEF TimerConnects, NewConnection
<1>23. CASE UNCHANGED vars
  BY <1>23 DEF vars
<1> QED
  BY <1>1, <1>2, <1>3, <1>4, <1>5, <1>6, <1>7, <1>8, <1>9, <1>10, <1>11,
     <1>12, <1>13, <1>14, <1>15, <1>16, <1>17, <1>18, <1>19, <1>20, <1>21, <1>22,
     <1>23
  DEF Next, ReaderStep, SourceStep, WaitEnds, SendEnds, TimerStep

LEMMA StepControl == IInv /\ [Next]_vars => Control'
<1> SUFFICES ASSUME IInv, [Next]_vars PROVE Control'
  OBVIOUS
<1> USE SseStreamAssumption DEF SseStreamAssumption, IInv, Control, LiveOK,
        PlacesOK, Chain, Goroutines, LiveIsCurrent, ReaderIsServed, Failing,
        Conns, NoConn
<1>1. CASE Connect
  BY <1>1 DEF Connect, NewConnection
<1>2. CASE StopReading
  BY <1>2 DEF StopReading
<1>3. CASE Cancel
  BY <1>3 DEF Cancel
<1>4. CASE CloseChannels
  BY <1>4 DEF CloseChannels
<1>5. ASSUME NEW c \in Conns, SourceOpens(c) PROVE Control'
  BY <1>5 DEF SourceOpens, SourceMoves
<1>6. ASSUME NEW c \in Conns, SourceRefused(c) PROVE Control'
  BY <1>6 DEF SourceRefused, SourceMoves
<1>7. ASSUME NEW c \in Conns, SourceDrops(c) PROVE Control'
  BY <1>7 DEF SourceDrops, SourceMoves
<1>8. ASSUME NEW c \in Conns, SeesCancel(c) PROVE Control'
  BY <1>8 DEF SeesCancel, Goto
<1>9. ASSUME NEW c \in Conns, SeesConnected(c) PROVE Control'
  BY <1>9 DEF SeesConnected, Goto
<1>10. ASSUME NEW c \in Conns, ConnectFails(c) PROVE Control'
  BY <1>10 DEF ConnectFails, Goto
<1>11. ASSUME NEW c \in Conns, LoopChecks(c) PROVE Control'
  BY <1>11 DEF LoopChecks, Goto
<1>12. ASSUME NEW c \in Conns, TakesMessage(c) PROVE Control'
  BY <1>12 DEF TakesMessage, Goto
<1>13. ASSUME NEW c \in Conns, SeesDisconnect(c) PROVE Control'
  BY <1>13 DEF SeesDisconnect, Goto
<1>14. ASSUME NEW c \in Conns, KeepaliveTimesOut(c) PROVE Control'
  BY <1>14 DEF KeepaliveTimesOut, Goto
<1>15. ASSUME NEW c \in Conns, SendsMessage(c) PROVE Control'
  BY <1>15 DEF SendsMessage, Goto
<1>16. ASSUME NEW c \in Conns, MessageMuted(c) PROVE Control'
  BY <1>16 DEF MessageMuted, Goto, ChannelsClosed
<1>17. ASSUME NEW c \in Conns, Cancels(c) PROVE Control'
  BY <1>17 DEF Cancels, Goto, CancelWithLock
<1>18. ASSUME NEW c \in Conns, SendsError(c) PROVE Control'
  BY <1>18 DEF SendsError, Goto
<1>19. ASSUME NEW c \in Conns, ErrorMuted(c) PROVE Control'
  BY <1>19 DEF ErrorMuted, Goto, ChannelsClosed
<1>20. ASSUME NEW c \in Conns, TimerFires(c) PROVE Control'
  BY <1>20 DEF TimerFires, SetTimer
<1>21. ASSUME NEW c \in Conns, TimerCancels(c) PROVE Control'
  BY <1>21 DEF TimerCancels, SetTimer, CancelWithLock
<1>22. ASSUME NEW c \in Conns, TimerConnects(c) PROVE Control'
  BY <1>22 DEF TimerConnects, NewConnection
<1>23. CASE UNCHANGED vars
  BY <1>23 DEF vars
<1> QED
  BY <1>1, <1>2, <1>3, <1>4, <1>5, <1>6, <1>7, <1>8, <1>9, <1>10, <1>11,
     <1>12, <1>13, <1>14, <1>15, <1>16, <1>17, <1>18, <1>19, <1>20, <1>21, <1>22,
     <1>23
  DEF Next, ReaderStep, SourceStep, WaitEnds, SendEnds, TimerStep

\* The inductive invariant holds in every state, for any MaxConns.
THEOREM Invariant == Spec => []IInv
<1>1. IInv /\ [Next]_vars => IInv'
  BY StepLive, StepControl DEF IInv
<1> QED
  BY <1>1, InitIInv, PTL DEF Spec

\* Every variable keeps its type, and a goroutine that has ended has
\* cancelled its context.
THEOREM Typing == Spec => []TypeOK
<1>1. IInv => TypeOK
  BY DEF IInv, LiveOK, Control, Goroutines, TypeOK
<1> QED
  BY <1>1, Invariant, PTL

\* One connection is live at most, and s.cancelClientContext is its.
THEOREM OneLiveConnection == Spec => []LiveIsCurrent
<1>1. IInv => LiveIsCurrent
  BY DEF IInv, Control
<1> QED
  BY <1>1, Invariant, PTL

\* A reader always has a connection, an error or a reconnect to wait for.
THEOREM NoSilentEnd == Spec => []ReaderIsServed
<1>1. IInv => ReaderIsServed
  BY DEF IInv, Control
<1> QED
  BY <1>1, Invariant, PTL

============================================================================
