--------------------------- MODULE MCFlagUpdate ----------------------------
(* Small loads for FlagUpdate.                                              *)
EXTENDS FlagUpdate, TLC

CONSTANTS f1, f2, c1, c2, user, org

MCFlags   == {f1, f2}
MCCohorts == {c1, c2}
MCTypes   == {user, org}

\* Two flags that share, swap and drop two cohorts.
FlagSets == {<<>>, f1 :> {c1}, f2 :> {c1, c2},
             (f1 :> {c2}) @@ (f2 :> {}), (f1 :> {c1}) @@ (f2 :> {c2})}

\* One flag that swaps its cohort, or goes.
Swaps == {<<>>, f1 :> {c1}, f1 :> {c2}}

\* One flag that needs a cohort, or does not.
Toggles == {f1 :> {}, f1 :> {c1}}

Load(configs, active, loader, polling, types) ==
    [configs |-> configs, active |-> active, loader |-> loader,
     polling |-> polling, types |-> types]

MCLoads == {Load(FlagSets, 1, TRUE, FALSE, {user}),
            Load(FlagSets, 1, FALSE, FALSE, {user}),
            Load(Swaps, 2, TRUE, TRUE, {user}),
            Load(Toggles, 2, TRUE, TRUE, {user, org})}

============================================================================
