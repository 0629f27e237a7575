---------------------------- MODULE SingleFlight ----------------------------
(***************************************************************************)
(* What a loader of shared values promises those who ask it: at most one   *)
(* download of a cohort is in flight, whoever asks meanwhile joins it, and *)
(* nobody gets an answer before the download that was joined has landed.   *)
(***************************************************************************)
CONSTANTS
    Cohorts,    \* what can be asked for
    Waiters,    \* who asks
    None        \* neither

VARIABLES
    flights,    \* cohorts with a download in flight
    wanted,     \* what each waiter has asked for and not been given, or None
    landed      \* waiters whose download has landed

vars == <<flights, wanted, landed>>

Init ==
    /\ flights = {}
    /\ wanted = [w \in Waiters |-> None]
    /\ landed = {}

Join(w, c) ==
    /\ wanted[w] = None
    /\ wanted' = [wanted EXCEPT ![w] = c]
    /\ flights' = flights \cup {c}
    /\ UNCHANGED landed

Land(c) ==
    /\ c \in flights
    /\ flights' = flights \ {c}
    /\ landed' = landed \cup {w \in Waiters : wanted[w] = c}
    /\ UNCHANGED wanted

Return(w) ==
    /\ w \in landed
    /\ landed' = landed \ {w}
    /\ wanted' = [wanted EXCEPT ![w] = None]
    /\ UNCHANGED flights

Next ==
    \/ \E w \in Waiters : Return(w) \/ \E c \in Cohorts : Join(w, c)
    \/ \E c \in Cohorts : Land(c)

Spec == Init /\ [][Next]_vars

\* Downloads land, and those who wait for them go on.
FairSpec ==
    /\ Spec
    /\ \A c \in Cohorts : WF_vars(Land(c))
    /\ \A w \in Waiters : WF_vars(Return(w))

============================================================================
