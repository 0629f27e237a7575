-------------------------- MODULE StreamApiProofs --------------------------
(***************************************************************************)
(* Proofs about StreamApi for any number of connections: Close always      *)
(* reaches the live connection, no stream leaks, api.stopCh is never       *)
(* closed twice through it, and a started updater never dies silently.     *)
(***************************************************************************)
EXTENDS StreamApi, TLAPS

\* The api holds no channel while a connection is being made, and a
\* connection nobody receives from yet has not been told to stop.
Connecting ==
    /\ ownerPc \in {"startClose", "connect"} => last < MaxConns
    /\ ownerPc = "first" =>
        /\ stopCh = NoConn
        /\ last \in Conns
        /\ pc[last] = "first"
        /\ streamOpen[last]
    /\ \A c \in Conns : pc[c] \in {"none", "first"} => ~stopClosed[c]
    /\ \A c \in Conns : pc[c] = "none" => ~streamOpen[c]

Control ==
    /\ PlacesOK
    /\ Connecting
    /\ ConnectionReachable
    /\ OpenStreamHasReader
    /\ StopChIsOpen
    /\ NeverSilentlyDead

IInv == FlagsOK /\ Control

LEMMA InitIInv == Init => IInv
<1> SUFFICES ASSUME Init PROVE IInv
  OBVIOUS
<1> USE StreamApiAssumption DEF StreamApiAssumption, Init, Conns, NoConn
<1>1. FlagsOK
  BY DEF FlagsOK
<1>2. PlacesOK
  BY DEF PlacesOK
<1>3. Connecting /\ ConnectionReachable /\ OpenStreamHasReader
      /\ StopChIsOpen /\ NeverSilentlyDead
  BY DEF Connecting, ConnectionReachable, OpenStreamHasReader, StopChIsOpen,
         NeverSilentlyDead
<1> QED
  BY <1>1, <1>2, <1>3 DEF IInv, Control

LEMMA StepFlags == FlagsOK /\ [Next]_vars => FlagsOK'
<1> SUFFICES ASSUME FlagsOK, [Next]_vars PROVE FlagsOK'
  OBVIOUS
<1> USE DEF FlagsOK, ownerVars
<1>1. CASE StartLocks
  BY <1>1 DEF StartLocks, StreamerLockFree
<1>2. CASE StartCloses
  BY <1>2 DEF StartCloses, CloseInternal
<1>3. CASE ConnectBegins
  BY <1>3 DEF ConnectBegins, CloseInternal
<1>4. CASE FirstMessage
  BY <1>4 DEF FirstMessage
<1>5. CASE FirstFails
  BY <1>5 DEF FirstFails
<1>6. CASE StopLocks
  BY <1>6 DEF StopLocks, StreamerLockFree
<1>7. CASE StopCloses
  BY <1>7 DEF StopCloses, CloseInternal
<1>8. ASSUME NEW c \in Conns, StreamFails(c) PROVE FlagsOK'
  BY <1>8 DEF StreamFails
<1>9. ASSUME NEW c \in Conns, SeesStop(c) PROVE FlagsOK'
  BY <1>9 DEF SeesStop
<1>10. ASSUME NEW c \in Conns, SeesError(c) PROVE FlagsOK'
  BY <1>10 DEF SeesError
<1>11. ASSUME NEW c \in Conns, CloseAll(c) PROVE FlagsOK'
  BY <1>11 DEF CloseAll, ApiLockFree
<1>12. ASSUME NEW c \in Conns, CloseAllPanics(c) PROVE FlagsOK'
  BY <1>12 DEF CloseAllPanics, ApiLockFree
<1>13. ASSUME NEW c \in Conns, ReportLocks(c) PROVE FlagsOK'
  BY <1>13 DEF ReportLocks, StreamerLockFree
<1>14. ASSUME NEW c \in Conns, ReportStops(c) PROVE FlagsOK'
  BY <1>14 DEF ReportStops, CloseInternal
<1>15. ASSUME NEW c \in Conns, ReportNotifies(c) PROVE FlagsOK'
  BY <1>15 DEF ReportNotifies
<1>16. CASE UNCHANGED vars
  BY <1>16 DEF vars
<1> QED
  BY <1>1, <1>2, <1>3, <1>4, <1>5, <1>6, <1>7, <1>8, <1>9, <1>10, <1>11,
     <1>12, <1>13, <1>14, <1>15, <1>16 DEF Next, OwnerStep, ConnStep

LEMMA StepControl == IInv /\ [Next]_vars => Control'
<1> SUFFICES ASSUME IInv, [Next]_vars PROVE Control'
  OBVIOUS
<1> USE StreamApiAssumption DEF StreamApiAssumption, IInv, Control, FlagsOK,
        PlacesOK, Connecting, ConnectionReachable, OpenStreamHasReader,
        StopChIsOpen, NeverSilentlyDead, Reporting, Conns, NoConn, ownerVars
<1>1. CASE StartLocks
  BY <1>1 DEF StartLocks, StreamerLockFree
<1>2. CASE StartCloses
  BY <1>2 DEF StartCloses, CloseInternal
<1>3. CASE ConnectBegins
  BY <1>3 DEF ConnectBegins, CloseInternal
<1>4. CASE FirstMessage
  BY <1>4 DEF FirstMessage
<1>5. CASE FirstFails
  BY <1>5 DEF FirstFails
<1>6. CASE StopLocks
  BY <1>6 DEF StopLocks, StreamerLockFree
<1>7. CASE StopCloses
  BY <1>7 DEF StopCloses, CloseInternal
<1>8. ASSUME NEW c \in Conns, StreamFails(c) PROVE Control'
  BY <1>8 DEF StreamFails
<1>9. ASSUME NEW c \in Conns, SeesStop(c) PROVE Control'
  BY <1>9 DEF SeesStop
<1>10. ASSUME NEW c \in Conns, SeesError(c) PROVE Control'
  BY <1>10 DEF SeesError
<1>11. ASSUME NEW c \in Conns, CloseAll(c) PROVE Control'
  BY <1>11 DEF CloseAll, ApiLockFree
<1>12. ASSUME NEW c \in Conns, CloseAllPanics(c) PROVE Control'
  BY <1>12 DEF CloseAllPanics, ApiLockFree
<1>13. ASSUME NEW c \in Conns, ReportLocks(c) PROVE Control'
  BY <1>13 DEF ReportLocks, StreamerLockFree
<1>14. ASSUME NEW c \in Conns, ReportStops(c) PROVE Control'
  BY <1>14 DEF ReportStops, CloseInternal
<1>15. ASSUME NEW c \in Conns, ReportNotifies(c) PROVE Control'
  BY <1>15 DEF ReportNotifies
<1>16. CASE UNCHANGED vars
  BY <1>16 DEF vars
<1> QED
  BY <1>1, <1>2, <1>3, <1>4, <1>5, <1>6, <1>7, <1>8, <1>9, <1>10, <1>11,
     <1>12, <1>13, <1>14, <1>15, <1>16 DEF Next, OwnerStep, ConnStep

\* The inductive invariant holds in every state, for any MaxConns.
THEOREM Invariant == Spec => []IInv
<1>1. IInv /\ [Next]_vars => IInv'
  BY StepFlags, StepControl DEF IInv
<1> QED
  BY <1>1, InitIInv, PTL DEF Spec

\* Every variable keeps its type.
THEOREM Typing == Spec => []TypeOK
<1>1. IInv => TypeOK
  BY DEF IInv, Control, TypeOK
<1> QED
  BY <1>1, Invariant, PTL

\* Close reaches every connection that still receives.
THEOREM Reachability == Spec => []ConnectionReachable
<1>1. IInv => ConnectionReachable
  BY DEF IInv, Control
<1> QED
  BY <1>1, Invariant, PTL

\* Every open stream has somebody who will close it.
THEOREM NoStreamLeaks == Spec => []OpenStreamHasReader
<1>1. IInv => OpenStreamHasReader
  BY DEF IInv, Control
<1> QED
  BY <1>1, Invariant, PTL

\* Start, Stop and Connect never close a closed channel.
THEOREM CloseIsSafe == Spec => []StopChIsOpen
<1>1. IInv => StopChIsOpen
  BY DEF IInv, Control
<1> QED
  BY <1>1, Invariant, PTL

\* A started updater without a connection has reported, or is reporting.
THEOREM FailureIsReported == Spec => []NeverSilentlyDead
<1>1. IInv => NeverSilentlyDead
  BY DEF IInv, Control
<1> QED
  BY <1>1, Invariant, PTL

============================================================================
