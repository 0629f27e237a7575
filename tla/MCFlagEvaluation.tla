-------------------------- MODULE MCFlagEvaluation -------------------------
(* Three flags with every choice of up to two dependencies, on each other,  *)
(* on themselves and on a flag that is not stored.                          *)
EXTENDS FlagEvaluation, TLC

CONSTANTS flagA, flagB, flagC, missing

MCKeys == {flagA, flagB, flagC, missing}

MCDependencies ==
    {<<>>} \cup {<<k>> : k \in MCKeys}
    \cup {s \in [1..2 -> {flagA, flagB, flagC}] : s[1] # s[2]}

MCGraphs   == [{flagA, flagB, flagC} -> MCDependencies]
MCRequests == {<<>>, <<flagB>>, <<flagC, missing, flagA, flagC>>}

----------------------------------------------------------------------------
(* What Go's libraries make of the texts in use. *)

MCTrues  == {"true", "True"}
MCFalses == {"false", "False"}

\* In Go's order of texts.
InOrder ==
    <<"", "-a", "1.10.0", "1.2", "1.2.0-a", "10", "2.0", "9", "NaN", "True",
      "a", "ab", "acme", "true", "u1", "u2", "u3", "u4">>
MCTexts  == {InOrder[i] : i \in DOMAIN InOrder}
PlaceOf  == [s \in MCTexts |-> CHOOSE i \in DOMAIN InOrder : InOrder[i] = s]
MCLess(s, t) == PlaceOf[s] < PlaceOf[t]

\* Numbers in tenths.
MCNumber == [s \in {"9", "10", "1.2", "2.0", "NaN"} |->
                CASE s = "9"   -> 90 [] s = "10"  -> 100 [] s = "1.2" -> 12
                  [] s = "2.0" -> 20 [] s = "NaN" -> NaN]

VersionOf(major, minor, preRelease) ==
    [major |-> major, minor |-> minor, patch |-> 0, preRelease |-> preRelease]
MCVersion == [s \in {"1.10.0", "1.2", "1.2.0-a", "2.0"} |->
                CASE s = "1.10.0"  -> VersionOf(1, 10, "")
                  [] s = "1.2"     -> VersionOf(1, 2, "")
                  [] s = "1.2.0-a" -> VersionOf(1, 2, "-a")
                  [] s = "2.0"     -> VersionOf(2, 0, "")]

MCIsPart(s, t)  == s \in {"", t} \/ (s = "-a" /\ t = "1.2.0-a")
MCMatches(p, s) == p = s

\* Users at the edges of the first allocation, inside it and just after it,
\* and at the edges of its distributions.
MCHash(salt, s) ==
    CASE s = "u1" -> 4939 [] s = "u2" -> 5040 [] s = "u3" -> 2000 [] s = "u4" -> 5000
      [] OTHER -> 0

\* Lists are told apart here by being empty.
MCJson(v) == IF v.elems = {} THEN "[]" ELSE "[...]"

\* Variants whose value is their key, without a payload.
MCPart(variant, rest) ==
    IF rest \in {<<"key">>, <<"value">>}
    THEN Text(IF variant = NoVariant THEN "" ELSE variant) ELSE Null

----------------------------------------------------------------------------
(* Users, cohorts and flags. *)

MCStorage == [id \in {"c1", "c2"} |->
    CASE id = "c1" -> [groupTypes |-> {UserType}, members |-> {"u1", "u3"}]
      [] id = "c2" -> [groupTypes |-> {"org"}, members |-> {"acme", "u2"}]]

User(id, version, age, groups) ==
    [id |-> id, groups |-> groups,
     properties |-> [p \in {"version", "age"} |->
                        IF p = "version" THEN version ELSE age]]

MCUsers == {User("u1", "1.10.0", "9", "org" :> "acme"),
            User("u2", "1.2", "true", <<>>),
            User("u3", "1.2.0-a", "10", "org" :> "u2"),
            User("u4", "9", "1.2", <<>>),
            User("", "2.0", "NaN", "org" :> "")}

Bucketed(r) ==
    [selector |-> <<"context", "user", "user_id">>, salt |-> "salt",
     allocations |->
        << [range |-> <<0, 40 + 10 * r>>,
            distributions |-> << [range |-> <<0, 50>>, variant |-> "on"],
                                 [range |-> <<50, 100>>, variant |-> "off"] >>]
        >>]

Condition(selector, op, values) ==
    [selector |-> selector, op |-> op, values |-> values]

\* A flag is off where all its dependencies are on; flagB has no variant
\* "off", flagC is for users in no cohort, for new versions of organisations
\* in a cohort, and for a preview.
MCDefinition(k, deps, r) ==
    LET dependsOn(op, v) ==
            [i \in DOMAIN deps |-> Condition(<<"result", deps[i], "key">>, op,
                                         {v})]
        outside == Condition(<<"context", "user", "cohort_ids">>,
                             "set does not contain any", {"c1", "c2"})
        inside  == Condition(<<"context", "groups", "org", "cohort_ids">>,
                             "set contains any", {"c1", "c2"})
        recent  == Condition(<<"context", "user", "version">>,
                             "version greater or equal", {"1.2"})
        preview == <<Condition(<<"context", "user", "version">>, "contains",
                               {"-a"}),
                     Condition(<<"context", "user", "version">>,
                               "regex does not match", {"1.2"})>>
        first   == [conditions |-> IF deps = <<>> THEN <<>>
                                   ELSE <<dependsOn("is", "on")>>,
                    bucket |-> NoBucket, variant |-> "off"]
        second  == [conditions |-> IF k = flagC
                                   THEN << <<outside>> \o dependsOn("is not", "off"),
                                           <<recent, inside>>, preview >>
                                   ELSE Always,
                    bucket |-> IF k = flagA THEN Bucketed(r) ELSE NoBucket,
                    variant |-> IF k = flagA THEN "default" ELSE "on"]
    IN  [variants |-> IF k = flagB THEN {"on"} ELSE {"on", "off", "default"},
         segments |-> <<first, second>>]

MCThresholds ==
    {"9", "10", "NaN", "1.2", "1.2.0-a", "1.10.0", "2.0", "ab"}

============================================================================
