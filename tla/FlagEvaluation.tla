--------------------------- MODULE FlagEvaluation ---------------------------
(***************************************************************************)
(* Client.EvaluateV2: the stored flags are sorted by their dependencies,   *)
(* the user is given the cohorts they name, and they are evaluated one     *)
(* after the other, each with the results of those before it.  The         *)
(* variants of other flags enter through Engine!Select.                    *)
(*                                                                         *)
(* When an evaluation has ended, the server may widen the rollouts of the  *)
(* flags, and the same user is evaluated again.                            *)
(***************************************************************************)
EXTENDS FlagSort, CohortTargeting

CONSTANTS
    Users,                  \* who is evaluated
    NoUser,                 \* no user yet
    Storage,                \* the cohort storage
    Texts,                  \* the texts that are compared
    Thresholds,             \* those that flags compare others with
    MaxRollout,             \* bound: widenings of the rollouts
    Definition(_, _, _)     \* the flag of a key with given dependencies and
                            \* rollout: allocations only widen with it

\* Does a selector of a flag with these dependencies look at the context, or
\* at the variant of one of them?
IsDeclared(selector, deps) ==
    selector[1] = "context" \/ selector[2] \in ToSet(deps)

\* Numbered like the entries of a list.
IsListed(f) == DOMAIN f \subseteq Nat

\* Cohort filters are on the cohorts of the user or of one of its groups.
CohortFilterIsSound(c) ==
    /\ None \notin c.values
    /\ \/ c.selector = <<"context", "user", "cohort_ids">>
       \/ /\ c.selector[3] \notin {UserType, None}
          /\ c.selector = <<"context", "groups", c.selector[3], "cohort_ids">>

SegmentIsSound(s, deps) ==
    /\ IsListed(s.conditions)
    /\ IsListed(s.bucket.allocations)
    /\ \A i \in DOMAIN s.bucket.allocations :
            IsListed(s.bucket.allocations[i].distributions)
    /\ IsDeclared(s.bucket.selector, deps)
    /\ \A i \in DOMAIN s.conditions :
        /\ IsListed(s.conditions[i])
        /\ \A j \in DOMAIN s.conditions[i] :
            /\ IsDeclared(s.conditions[i][j].selector, deps)
            /\ IsCohortFilter(s.conditions[i][j])
                    => CohortFilterIsSound(s.conditions[i][j])

\* Segments and what is in them are lists.  The flag API lists
\* every flag whose variant a flag looks at among its dependencies; the code
\* relies on it.
ASSUME DefinitionAssumption ==
    /\ MaxRollout \in Nat
    /\ \A g \in Graphs : \A k \in DOMAIN g : \A r \in 0..MaxRollout :
        LET segments == Definition(k, g[k], r).segments
        IN  /\ IsListed(segments)
            /\ \A i \in DOMAIN segments : SegmentIsSound(segments[i], g[k])

\* No cohort id is a truth value, and cohorts are not set as a property.
ASSUME TargetingAssumption ==
    /\ DOMAIN Storage \cap (Trues \cup Falses) = {}
    /\ \A u \in Users : "cohort_ids" \notin DOMAIN u.properties

\* Go orders texts, byte by byte, and numbers other than NaN; the parts of a
\* version are numbers and a text.
ASSUME ComparisonAssumption ==
    /\ Thresholds \subseteq Texts
    /\ \A u \in Users :
        /\ u.id \in Texts
        /\ \A p \in DOMAIN u.properties : u.properties[p] \in Texts
        /\ \A g \in DOMAIN u.groups : u.groups[g] \in Texts
    /\ \A s \in Texts : ~Less(s, s)
    /\ \A s, t \in Texts : Less(s, t) \/ s = t \/ Less(t, s)
    /\ \A r, s, t \in Texts : Less(r, s) /\ Less(s, t) => Less(r, t)
    /\ \A s \in DOMAIN Number : Number[s] = NaN \/ Number[s] \in Int
    /\ \A s \in DOMAIN Version :
        Version[s] \in [major : Nat, minor : Nat, patch : Nat,
                        preRelease : Texts]

\* Allocations that grow, but never into one another, and change nothing else.
BucketWidens(old, new) ==
    /\ new.selector = old.selector /\ new.salt = old.salt
    /\ DOMAIN new.allocations = DOMAIN old.allocations
    /\ \A i \in DOMAIN old.allocations :
        LET wide == new.allocations[i].range
        IN  /\ new.allocations[i].distributions
                    = old.allocations[i].distributions
            /\ \A n \in 0..99 :
                /\ InRange(n, old.allocations[i].range) => InRange(n, wide)
                /\ \A j \in DOMAIN new.allocations :
                    InRange(n, wide) /\ InRange(n, new.allocations[j].range)
                        => i = j

SegmentWidens(old, new) ==
    /\ new.conditions = old.conditions
    /\ new.variant = old.variant
    /\ BucketWidens(old.bucket, new.bucket)

\* What is meant by the widening of a flag's rollout: the flag has one, and
\* its allocations are all that grows.  (Of two, the first would take users
\* from the second, and a segment without a variant of the flag any user.)
Widens(old, new) ==
    /\ new.variants = old.variants /\ NoVariant \notin old.variants
    /\ DOMAIN new.segments = DOMAIN old.segments
    /\ \A i \in DOMAIN old.segments :
        /\ SegmentWidens(old.segments[i], new.segments[i])
        /\ \A j \in DOMAIN old.segments :
            Places(old.segments[i].bucket) # {}
                /\ Places(old.segments[j].bucket) # {} => i = j

\* The server widens rollouts, it does not change flags otherwise.
ASSUME WideningAssumption ==
    \A g \in Graphs : \A k \in DOMAIN g : \A r \in 1..MaxRollout :
        Widens(Definition(k, g[k], r - 1), Definition(k, g[k], r))

VARIABLES
    flags,      \* flagConfigs
    rollout,    \* how far the flags are rolled out
    user,       \* the caller's user, from the step on that looks at it
    context,    \* userContext
    evaluated,  \* number of sorted flags evaluated so far
    results,    \* the variant of every evaluated flag that has one
    before      \* the results before the last widening

evaluationVars == <<flags, rollout, user, context, evaluated, results, before>>
allVars == <<sortVars, evaluationVars>>

FlagsAt(r) == [k \in Stored |-> Definition(k, dependencies[k], r)]

EvaluationInit ==
    /\ Init
    /\ flags = FlagsAt(0)
    /\ rollout = 0
    /\ user = NoUser
    /\ context = <<>>
    /\ evaluated = 0
    /\ results = <<>>
    /\ before = <<>>

\* The user is given the cohorts of all stored flags, requested or not.
EnrichUser ==
    /\ outcome = "sorted"
    /\ user = NoUser
    /\ user' \in Users
    /\ context' = UserToContext(user', {flags[k] : k \in Stored}, Storage)
    /\ UNCHANGED <<sortVars, flags, rollout, evaluated, results, before>>

\* results is a map: a flag without a variant adds nothing.
WithResult(rs, k, variant) ==
    IF variant = NoVariant
    THEN rs
    ELSE [j \in DOMAIN rs \cup {k} |-> IF j = k THEN variant ELSE rs[j]]

EvaluateNext(k) ==
    /\ \E variant \in {EvaluateFlag(context, results, flags[k])} :
            results' = WithResult(results, k, variant)
    /\ evaluated' = evaluated + 1
    /\ UNCHANGED <<sortVars, flags, rollout, user, context, before>>

\* Mutant: the flags are evaluated from the last to the first.
EvaluateBackwards ==
    /\ user # NoUser
    /\ evaluated < Len(result)
    /\ EvaluateNext(result[Len(result) - evaluated])

Evaluate ==
    /\ user # NoUser
    /\ evaluated < Len(result)
    /\ EvaluateNext(result[evaluated + 1])

Evaluated == user # NoUser /\ evaluated = Len(result)

\* A new evaluation of the same user, with the flags of a new version.
RollOut ==
    /\ Evaluated
    /\ rollout < MaxRollout
    /\ rollout' = rollout + 1
    /\ flags' = FlagsAt(rollout')
    /\ context' = UserToContext(user, {flags'[k] : k \in Stored}, Storage)
    /\ before' = results
    /\ evaluated' = 0
    /\ results' = <<>>
    /\ UNCHANGED <<sortVars, user>>

SortStep == Sort /\ UNCHANGED evaluationVars

EvaluationNext == SortStep \/ EnrichUser \/ Evaluate \/ RollOut

EvaluationSpec ==
    /\ EvaluationInit
    /\ [][EvaluationNext]_allVars
    /\ WF_allVars(SortStep)

----------------------------------------------------------------------------
(* Properties. *)

\* Every flag has the variant that the final variants of its dependencies
\* alone give it, in whatever order Go visits the flags, and whichever of
\* them were asked for.  Without cycles one assignment of variants has this
\* property.
EvaluationIsReference ==
    Evaluated =>
        /\ DOMAIN results \subseteq Required
        /\ \A k \in Required :
            LET parents == [j \in ParentsOf(k) \cap DOMAIN results |->
                                results[j]]
            IN  EvaluateFlag(context, parents, flags[k])
                    = IF k \in DOMAIN results THEN results[k] ELSE NoVariant

\* Widening a rollout moves nobody who was in it: a user whom an allocation of
\* a flag without dependencies claimed keeps the variant.
RolloutIsSticky ==
    Evaluated /\ rollout > 0 =>
        \A k \in Required :
            LET old == Definition(k, dependencies[k], rollout - 1)
                i   == DecidingSegment(context, <<>>, old)
            IN  dependencies[k] = <<>> /\ i # 0
                  /\ Hits(context, <<>>, old.segments[i]) # {}
                => results[k] = before[k]

\* A cohort filter holds of exactly those who are members of a cohort it
\* names that is filed under the filter's group type.  (Two filters of a
\* segment on one group type are excluded: the second hides the cohorts of
\* the first.)
TargetingIsMembership ==
    user # NoUser /\ evaluated = 0 =>
        \A s \in SegmentsOf({flags[k] : k \in Stored}) :
            \A c \in SoleFilters(s) :
                MatchCondition(Select(context, results, c.selector), c.op,
                               c.values)
                    <=> (IsMember(user, c, Storage)
                            <=> c.op = "set contains any")

\* The operators of a comparison.
ByNumber  == [below   |-> "less",    atMost  |-> "less or equal",
              above   |-> "greater", atLeast |-> "greater or equal"]
ByVersion == [below   |-> "version less",
              atMost  |-> "version less or equal",
              above   |-> "version greater",
              atLeast |-> "version greater or equal"]

\* Opposite operators part the users at a threshold.
Parts(v, t, ops) ==
    LET Is(op) == MatchCondition(v, op, {t})
    IN  /\ Is(ops.below) <=> ~Is(ops.atLeast)
        /\ Is(ops.above) <=> ~Is(ops.atMost)
        /\ ~(Is(ops.below) /\ Is(ops.above))

\* Who is at least at a threshold is above every lower one.
Nests(v, t, u, ops) ==
    /\ MatchCondition(Text(u), ops.above, {t})
    /\ MatchCondition(v, ops.atLeast, {u})
    => MatchCondition(v, ops.above, {t})

IsNumber(s) == s \in DOMAIN Number
HasNaN(T)   == \E s \in T : IsNumber(s) /\ Number[s] = NaN

\* Texts of which any two are compared in the same way.
Alike(T) == (\A s \in T : IsNumber(s)) \/ (\A s \in T : ~IsNumber(s))

\* Thresholds on a text of the context divide the users like points of a
\* line: of opposite operators exactly one matches, and a higher threshold
\* leaves fewer users above it.  Numbers and other texts have no order in
\* common, and by number NaN is on no side at all.
ThresholdsAreOrdered ==
    user # NoUser /\ evaluated = 0 =>
        \A p \in {q \in DOMAIN context : context[q].kind = "text"} :
            \A t, u \in Thresholds :
                LET v == context[p]
                    T == {v.text, t, u}
                IN  /\ IF Alike({v.text, t}) /\ HasNaN({v.text, t})
                       THEN \A op \in NumberOps : ~MatchCondition(v, op, {t})
                       ELSE Parts(v, t, ByNumber)
                    /\ Alike(T) /\ ~HasNaN(T) => Nests(v, t, u, ByNumber)
                    /\ T \subseteq DOMAIN Version
                        => Parts(v, t, ByVersion) /\ Nests(v, t, u, ByVersion)

============================================================================
