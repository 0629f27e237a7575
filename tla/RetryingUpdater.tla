-------------------------- MODULE RetryingUpdater --------------------------
(***************************************************************************)
(* What a flagConfigUpdater that recovers by itself promises its owner,    *)
(* whatever it is built from.  Start either succeeds, and flag             *)
(* configurations are then served until Stop except for interruptions that *)
(* end, or fails, and then nothing is promised.                            *)
(***************************************************************************)
VARIABLES
    running,    \* started, and not stopped since
    promised,   \* the last Start succeeded
    serving     \* some source keeps the flag configurations up to date

vars == <<running, promised, serving>>

Init == running = FALSE /\ promised = FALSE /\ serving = FALSE

StartOk == running' = TRUE /\ promised' = TRUE /\ serving' = TRUE

StartErr == promised' = FALSE /\ serving' = FALSE /\ UNCHANGED running

Stop == running' = FALSE /\ serving' = FALSE /\ UNCHANGED promised

Interrupt == serving' = FALSE /\ UNCHANGED <<running, promised>>

Recover == running /\ serving' = TRUE /\ UNCHANGED <<running, promised>>

Next == StartOk \/ StartErr \/ Stop \/ Interrupt \/ Recover

Spec == Init /\ [][Next]_vars

FairSpec == Spec /\ WF_vars(promised /\ Recover)

============================================================================
