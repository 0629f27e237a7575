------------------------------- MODULE Engine -------------------------------
(***************************************************************************)
(* Engine.evaluateFlag and what it calls, as operators.                    *)
(*                                                                         *)
(* A selected value is null, a text or a list.  A list comes in one of     *)
(* three forms: a []string, a slice of other values ("any"), or a text     *)
(* that is a JSON array.  Of a list the engine asks which texts it holds,  *)
(* or for its JSON, so lists are sets; so are filter values, which the     *)
(* flag API never leaves out ("set is" tells nil values from empty ones).  *)
(* What Go's libraries make of a text (its number, its place in the order  *)
(* of texts, its hash, the patterns it matches) is given by constants.     *)
(***************************************************************************)
EXTENDS Integers, Sequences

CONSTANTS
    Trues,          \* the spellings of "true"
    Falses,         \* the spellings of "false"
    Number,         \* the number strconv.ParseFloat reads in a text, or:
    NaN,            \* what it reads in the text "NaN"
    Version,        \* what parseVersion reads: major, minor, patch, preRelease
    Less(_, _),     \* the order of texts
    IsPart(_, _),   \* is a text a part of another, in lower case?
    Matches(_, _),  \* does a pattern match a text?
    Hash(_, _),     \* the hash of a salt and a text
    Json(_),        \* the JSON text of a list
    Part(_, _)      \* what the rest of a selector selects in a variant

None == "(none)"

Null             == [kind |-> "null"]
Text(s)          == [kind |-> "text", text |-> s]
List(form, elems) == [kind |-> "list", form |-> form, elems |-> elems]

Always     == << <<>> >>    \* segment.Conditions == nil
NoVariant  == "none"        \* a nil *Variant

\* A nil segment.Bucket decides nothing, like one without allocations.
NoBucket == [selector |-> <<"context">>, salt |-> "", allocations |-> <<>>]

SetOps == {"set is", "set is not", "set contains", "set does not contain",
           "set contains any", "set does not contain any"}

NumberOps  == {"less", "less or equal", "greater", "greater or equal"}
VersionOps == {"version less", "version less or equal",
               "version greater", "version greater or equal"}

----------------------------------------------------------------------------
\* coerceStringList yields a list that is not nil: an empty slice of other
\* values does not count as one.
IsList(v) == v.kind = "list" /\ (v.form = "any" => v.elems # {})

\* coerceString
TextOf(v) == IF v.kind = "text" THEN v.text ELSE Json(v)

SameBoolean(s, t) ==
    {s, t} \subseteq Trues \/ {s, t} \subseteq Falses

MatchesIs(s, values) == \E t \in values : s = t \/ SameBoolean(s, t)

MatchesContains(s, values) == \E t \in values : IsPart(t, s)

MatchesRegex(s, values) == \E t \in values : Matches(t, s)

\* Does op hold of two things of which the first is below the second, the
\* same, or above it?  An operator of another family never holds.
Holds(op, below, same, above) ==
    \/ op = "less" /\ below
    \/ op = "less or equal" /\ (below \/ same)
    \/ op = "greater" /\ above
    \/ op = "greater or equal" /\ (above \/ same)

CompareString(s, op, values) ==
    \E t \in values : Holds(op, Less(s, t), s = t, Less(t, s))

\* NaN is neither below nor above a number, and not even the same as itself.
NumberLess(x, y) == x # NaN /\ y # NaN /\ x < y
NumberSame(x, y) == x # NaN /\ x = y

CompareNumber(x, op, numbers) ==
    \E y \in numbers :
        Holds(op, NumberLess(x, y), NumberSame(x, y), NumberLess(y, x))

\* As numbers if the value and at least one filter value are numbers.
Compare(s, op, values) ==
    LET numbers == {Number[t] : t \in values \cap DOMAIN Number}
    IN  IF s \in DOMAIN Number /\ numbers # {}
        THEN CompareNumber(Number[s], op, numbers)
        ELSE CompareString(s, op, values)

\* A version without a preRelease comes after those that have one.
PreReleaseLess(p, q) == p # "" /\ (q = "" \/ Less(p, q))

\* Mutant: a lower major part does not decide.
VersionLessByPart(v, w) ==
    \/ v.major < w.major
    \/ v.minor < w.minor
    \/ v.minor = w.minor /\ v.patch < w.patch
    \/ /\ v.minor = w.minor /\ v.patch = w.patch
       /\ PreReleaseLess(v.preRelease, w.preRelease)

\* versionCompare(v, w) < 0; it is 0 if all parts are equal, and else 1.
VersionLess(v, w) ==
    \/ v.major < w.major
    \/ v.major = w.major /\ v.minor < w.minor
    \/ v.major = w.major /\ v.minor = w.minor /\ v.patch < w.patch
    \/ /\ v.major = w.major /\ v.minor = w.minor /\ v.patch = w.patch
       /\ PreReleaseLess(v.preRelease, w.preRelease)

\* The operator on numbers that a version operator corresponds to.
Unversioned(op) ==
    CASE op = "version less"             -> "less"
      [] op = "version less or equal"    -> "less or equal"
      [] op = "version greater"          -> "greater"
      [] op = "version greater or equal" -> "greater or equal"

\* compareString is given the version operator, which it does not know.
CompareVersion(s, op, values) ==
    LET versions == {Version[t] : t \in values \cap DOMAIN Version}
        v        == Version[s]
    IN  IF s \in DOMAIN Version /\ versions # {}
        THEN \E w \in versions : Holds(Unversioned(op), VersionLess(v, w),
                                       v = w, VersionLess(w, v))
        ELSE CompareString(s, op, values)

\* Conditions on a value that is not there.
MatchNull(op, values) ==
    \/ /\ \/ op \in {"is", "contains", "set is", "set contains",
                     "set contains any"}
          \/ op \in NumberOps \cup VersionOps
       /\ None \in values
    \/ /\ op \in {"is not", "does not contain", "set does not contain",
                  "set does not contain any"}
       /\ None \notin values
    \/ op \in {"set is not", "regex does not match"}

MatchesSetIs(elems, values) == elems = values
ContainsAll(elems, values) == \A t \in values : MatchesIs(t, elems)
ContainsAny(elems, values) == \E t \in values : MatchesIs(t, elems)

MatchSet(elems, op, values) ==
    \/ op = "set is" /\ MatchesSetIs(elems, values)
    \/ op = "set is not" /\ ~MatchesSetIs(elems, values)
    \/ op = "set contains" /\ ContainsAll(elems, values)
    \/ op = "set does not contain" /\ ~ContainsAll(elems, values)
    \/ op = "set contains any" /\ ContainsAny(elems, values)
    \/ op = "set does not contain any" /\ ~ContainsAny(elems, values)

MatchString(s, op, values) ==
    \/ op = "is" /\ MatchesIs(s, values)
    \/ op = "is not" /\ ~MatchesIs(s, values)
    \/ op = "contains" /\ MatchesContains(s, values)
    \/ op = "does not contain" /\ ~MatchesContains(s, values)
    \/ op \in NumberOps /\ Compare(s, op, values)
    \/ op \in VersionOps /\ CompareVersion(s, op, values)
    \/ op = "regex match" /\ MatchesRegex(s, values)
    \/ op = "regex does not match" /\ ~MatchesRegex(s, values)

\* A list satisfies a condition on texts if one of its elements does.
MatchAny(elems, op, values) == \E s \in elems : MatchString(s, op, values)

MatchCondition(v, op, values) ==
    IF v.kind = "null" THEN MatchNull(op, values)
    ELSE IF op \in SetOps THEN IsList(v) /\ MatchSet(v.elems, op, values)
    ELSE IF IsList(v) THEN MatchAny(v.elems, op, values)
    ELSE MatchString(TextOf(v), op, values)

----------------------------------------------------------------------------
\* selectEach: an entry of the context, or a part of another flag's variant.
\* A flag without a result has Go's zero Variant, which is not null.
Select(context, results, selector) ==
    IF selector[1] = "context"
    THEN IF selector \in DOMAIN context THEN context[selector] ELSE Null
    ELSE LET k == selector[2]
         IN  Part(IF k \in DOMAIN results THEN results[k] ELSE NoVariant,
                  SubSeq(selector, 3, Len(selector)))

\* Conditions are a disjunction of conjunctions.
SegmentMatches(context, results, segment) ==
    \E i \in DOMAIN segment.conditions :
        \A j \in DOMAIN segment.conditions[i] :
            LET c == segment.conditions[i][j]
            IN  MatchCondition(Select(context, results, c.selector), c.op,
                               c.values)

InRange(n, range) == range[1] <= n /\ n < range[2]

\* Where a segment's bucket can decide: an allocation and one of its parts.
Places(bucket) ==
    UNION {{i} \X DOMAIN bucket.allocations[i].distributions :
                i \in DOMAIN bucket.allocations}

\* Mutant: the distribution is drawn with the end of the allocation.
HitsByWidth(context, results, segment) ==
    LET b     == segment.bucket
        value == Select(context, results, b.selector)
        hash  == Hash(b.salt, TextOf(value))
    IN  {h \in Places(b) :
            LET a == b.allocations[h[1]]
            IN  /\ value.kind # "null" /\ TextOf(value) # ""
                /\ InRange(hash % 100, a.range)
                /\ InRange(hash \div a.range[2], a.distributions[h[2]].range)}

\* The places that claim the user.  Null and the empty text have none.
Hits(context, results, segment) ==
    LET b     == segment.bucket
        value == Select(context, results, b.selector)
        hash  == Hash(b.salt, TextOf(value))
    IN  {h \in Places(b) :
            LET a == b.allocations[h[1]]
            IN  /\ value.kind # "null" /\ TextOf(value) # ""
                /\ InRange(hash % 100, a.range)
                /\ InRange(hash \div 100, a.distributions[h[2]].range)}

\* The first place decides; without one the segment's own variant does.
Bucket(context, results, segment) ==
    LET hits  == Hits(context, results, segment)
        first == CHOOSE h \in hits : \A g \in hits :
                    h[1] < g[1] \/ (h[1] = g[1] /\ h[2] <= g[2])
    IN  IF hits = {} THEN segment.variant
        ELSE segment.bucket.allocations[first[1]]
                           .distributions[first[2]].variant

\* The first segment that matches with a variant the flag has decides; 0 if
\* there is none.
DecidingSegment(context, results, flag) ==
    LET hits == {i \in DOMAIN flag.segments :
                    /\ SegmentMatches(context, results, flag.segments[i])
                    /\ Bucket(context, results, flag.segments[i])
                            \in flag.variants}
    IN  IF hits = {} THEN 0 ELSE CHOOSE i \in hits : \A j \in hits : i <= j

EvaluateFlag(context, results, flag) ==
    LET i == DecidingSegment(context, results, flag)
    IN  IF i = 0 THEN NoVariant
                 ELSE Bucket(context, results, flag.segments[i])

============================================================================
