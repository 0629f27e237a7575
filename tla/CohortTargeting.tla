-------------------------- MODULE CohortTargeting ---------------------------
(***************************************************************************)
(* From a user to the context its flags are evaluated in: the cohorts the  *)
(* flags name, by group type (flag_config_util.go), those of them that the *)
(* user and its groups are members of (enrichUserWithCohorts and the       *)
(* cohort storage), and UserToContext.                                     *)
(*                                                                         *)
(* A storage is a function from the ids of the stored cohorts to their     *)
(* members and the group types they are filed under.  A user has an id,    *)
(* properties and groups, a function from group types to the first name of *)
(* each.                                                                   *)
(***************************************************************************)
EXTENDS Engine

UserType == "User"

IsCohortFilter(c) ==
    /\ c.selector[Len(c.selector)] = "cohort_ids"
    /\ c.op \in {"set contains any", "set does not contain any"}

\* Filters that are neither on the user nor on a group belong to no type.
GroupTypeOf(c) ==
    IF Len(c.selector) < 3 THEN None
    ELSE IF c.selector[2] = "user" THEN UserType
    ELSE IF \E i \in DOMAIN c.selector : c.selector[i] = "groups"
         THEN c.selector[3]
         ELSE None

ConditionAt(segment, p) == segment.conditions[p[1]][p[2]]

\* Where the conditions of a segment hold a cohort filter on one group type.
Filters(segment, g) ==
    {p \in UNION {{i} \X DOMAIN segment.conditions[i] :
                    i \in DOMAIN segment.conditions} :
        /\ IsCohortFilter(ConditionAt(segment, p))
        /\ GroupTypeOf(ConditionAt(segment, p)) = g}

\* getGroupedCohortConditionIDs: each filter replaces what an earlier one on
\* the same group type put in the map.
SegmentCohorts(segment, g) ==
    LET filters == Filters(segment, g)
        last == CHOOSE p \in filters : \A q \in filters :
                    q[1] < p[1] \/ (q[1] = p[1] /\ q[2] <= p[2])
    IN  IF filters = {} THEN {} ELSE ConditionAt(segment, last).values

SegmentsOf(flags) ==
    UNION {{f.segments[i] : i \in DOMAIN f.segments} : f \in flags}

FlagCohorts(flags, g) ==
    UNION {SegmentCohorts(s, g) : s \in SegmentsOf(flags)}

\* Does getGroupedCohortIDsFromFlags have an entry for the group type?
HasFilters(flags, g) == \E s \in SegmentsOf(flags) : Filters(s, g) # {}

\* Mutant: the members are looked up whatever the cohort is filed under.
CohortsOfAnyType(storage, g, name, ids) ==
    {c \in ids \cap DOMAIN storage : name \in storage[c].members}

\* getCohortsForGroup: groupTypes is the index by group type.
CohortsForGroup(storage, g, name, ids) ==
    {c \in ids \cap DOMAIN storage :
        g \in storage[c].groupTypes /\ name \in storage[c].members}

UserCohorts(user, flags, storage) ==
    IF user.id = "" THEN {}
    ELSE CohortsForGroup(storage, UserType, user.id,
                         FlagCohorts(flags, UserType))

GroupCohorts(user, g, flags, storage) ==
    CohortsForGroup(storage, g, user.groups[g], FlagCohorts(flags, g))

\* UserToContext: what is empty is left out, except the cohorts of a group.
UserToContext(user, flags, storage) ==
    LET cohorts == UserCohorts(user, flags, storage)
        entries ==
            {<<<<"context", "user", "user_id">>, Text(user.id)>> :
                x \in {user.id} \ {""}}
            \cup {<<<<"context", "user", p>>, Text(user.properties[p])>> :
                    p \in {q \in DOMAIN user.properties :
                                user.properties[q] # ""}}
            \cup {<<<<"context", "user", "cohort_ids">>, List("strings", x)>> :
                    x \in {cohorts} \ {{}}}
            \cup {<<<<"context", "groups", g, "group_name">>,
                    Text(user.groups[g])>> : g \in DOMAIN user.groups}
            \cup {<<<<"context", "groups", g, "cohort_ids">>,
                    List("strings", GroupCohorts(user, g, flags, storage))>> :
                    g \in {h \in DOMAIN user.groups :
                                user.groups[h] # "" /\ HasFilters(flags, h)}}
    IN  [path \in {e[1] : e \in entries} |->
            (CHOOSE e \in entries : e[1] = path)[2]]

----------------------------------------------------------------------------
\* Whose membership a cohort filter is about: the user's id, or a name of
\* one of its groups; "" if there is nobody.
Subject(user, g) ==
    IF g = UserType THEN user.id
    ELSE IF g \in DOMAIN user.groups THEN user.groups[g] ELSE ""

\* Is it a member of a stored cohort of that type the filter names?
IsMember(user, c, storage) ==
    LET g == GroupTypeOf(c)
    IN  \E id \in c.values \cap DOMAIN storage :
            /\ g \in storage[id].groupTypes
            /\ Subject(user, g) \in storage[id].members \ {""}

\* The cohort filters of a segment that has no other on their group type.
SoleFilters(segment) ==
    {ConditionAt(segment, p) :
        p \in {q \in UNION {{i} \X DOMAIN segment.conditions[i] :
                                i \in DOMAIN segment.conditions} :
                LET g == GroupTypeOf(ConditionAt(segment, q))
                IN  g # None /\ Filters(segment, g) = {q}}}

============================================================================
