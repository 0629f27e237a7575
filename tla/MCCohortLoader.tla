--------------------------- MODULE MCCohortLoader ---------------------------
(* A small instance of CohortLoader.  Cohort c1 changes on the server.      *)
EXTENDS CohortLoader

CONSTANTS c1, c2

MCCohorts    == {c1, c2}
MCMaxVersion == [c \in MCCohorts |-> IF c = c1 THEN 2 ELSE 1]

============================================================================
