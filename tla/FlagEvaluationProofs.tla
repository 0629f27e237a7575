------------------------ MODULE FlagEvaluationProofs ------------------------
(***************************************************************************)
(* The dependency sort is exact for every graph of flags, and evaluation   *)
(* in its order gives every flag the variant that the variants of its      *)
(* dependencies give it.                                                   *)
(***************************************************************************)
EXTENDS FlagEvaluation, SequenceTheorems, FiniteSetTheorems,
        WellFoundedInduction, TLAPS

Frames == [key : Stored, visited : Nat]

Reaches(j, k) == k \in Closure({j})

\* The keys on a stack are a path along dependencies, without repetition,
\* from a key that was asked for.
PathIsSound(st) ==
    /\ st \in Seq(Frames)
    /\ \A i \in DOMAIN st :
        /\ st[i].key \in available \cap Required
        /\ st[i].visited <= Len(dependencies[st[i].key])
    /\ \A i, j \in DOMAIN st :
        /\ st[i].key = st[j].key => i = j
        /\ i <= j => Reaches(st[i].key, st[j].key)

\* The parents a frame has visited are in the result, except the one whose
\* call is in progress: the next frame, or `called` after the last frame.
ParentsAreVisited(st, called) ==
    \A i \in DOMAIN st :
        \A n \in 1..st[i].visited :
            LET p == dependencies[st[i].key][n]
            IN  \/ p \notin Stored
                \/ p \in ToSet(result)
                \/ i + 1 \in DOMAIN st /\ p = st[i + 1].key
                \/ i = Len(st) /\ p \in called

\* A key that was asked for is still to come, in progress, or in the result.
NothingIsForgotten(td, st, called) ==
    \A k \in ToSet(starting) \cap Stored :
        \/ k \in ToSet(td) \cup ToSet(result)
        \/ IF st = <<>> THEN k \in called ELSE k = st[1].key

ResultIsSound ==
    /\ result \in Seq(Stored)
    /\ available = Stored \ ToSet(result)
    /\ ToSet(result) \subseteq Required
    /\ DependenciesFirst

\* The state of the sort, with the call of the keys in `called` to come.
Progress(td, st, called) ==
    /\ td \in Seq(Keys) /\ ToSet(td) \subseteq ToSet(starting)
    /\ ResultIsSound
    /\ PathIsSound(st)
    /\ ParentsAreVisited(st, called)
    /\ NothingIsForgotten(td, st, called)

Cyclic == \E k \in Required : k \in Closure(ParentsOf(k))

SortInv ==
    /\ dependencies \in Graphs /\ starting \in Seq(Keys)
    /\ outcome \in {"sorting", "sorted", "cycle"}
    /\ outcome = "cycle" => Cyclic /\ result = <<>>
    /\ outcome # "cycle" => Progress(todo, stack, {})
    /\ outcome = "sorted" => todo = <<>> /\ stack = <<>>

----------------------------------------------------------------------------
(* Sequences as sets. *)

LEMMA ToSetAppend ==
  ASSUME NEW S, NEW s \in Seq(S), NEW e \in S
  PROVE  ToSet(Append(s, e)) = ToSet(s) \cup {e}
<1>1. /\ DOMAIN Append(s, e) = 1..Len(s) + 1 /\ DOMAIN s = 1..Len(s)
      /\ Len(s) \in Nat
      /\ \A i \in 1..Len(s) : Append(s, e)[i] = s[i]
      /\ Append(s, e)[Len(s) + 1] = e
  BY AppendProperties, LenProperties
<1>2. 1..Len(s) + 1 = (1..Len(s)) \cup {Len(s) + 1}
  BY <1>1
<1> QED
  BY <1>1, <1>2 DEF ToSet

LEMMA ToSetTail ==
  ASSUME NEW S, NEW s \in Seq(S), s # <<>>
  PROVE  ToSet(s) = {Head(s)} \cup ToSet(Tail(s))
<1>1. /\ Len(s) \in Nat /\ Len(s) # 0 /\ Head(s) = s[1]
      /\ DOMAIN s = 1..Len(s) /\ DOMAIN Tail(s) = 1..Len(s) - 1
      /\ \A i \in 1..Len(s) - 1 : Tail(s)[i] = s[i + 1]
  BY HeadTailProperties, LenProperties, EmptySeq
<1>2. \A i \in 1..Len(s) : i = 1 \/ i - 1 \in 1..Len(s) - 1
  BY <1>1
<1>3. \A i \in 1..Len(s) - 1 : i + 1 \in 1..Len(s)
  BY <1>1
<1>4. ToSet(s) \subseteq {Head(s)} \cup ToSet(Tail(s))
  <2> SUFFICES ASSUME NEW i \in 1..Len(s)
               PROVE  s[i] = Head(s) \/ s[i] \in ToSet(Tail(s))
    BY <1>1 DEF ToSet
  <2>1. CASE i = 1
    BY <1>1, <2>1
  <2>2. CASE i # 1
    <3>1. i - 1 \in 1..Len(s) - 1 /\ (i - 1) + 1 = i
      BY <1>1, <2>2
    <3>2. s[i] = Tail(s)[i - 1]
      BY <1>1, <3>1
    <3> QED
      BY <1>1, <3>1, <3>2 DEF ToSet
  <2> QED
    BY <2>1, <2>2
<1>5. {Head(s)} \cup ToSet(Tail(s)) \subseteq ToSet(s)
  BY <1>1, <1>3 DEF ToSet
<1> QED
  BY <1>4, <1>5

----------------------------------------------------------------------------
(* What is reached along dependencies. *)

LEMMA ClosureContains ==
  ASSUME NEW A PROVE A \cap Stored \subseteq Closure(A)
  BY DEF Closure

LEMMA ClosureIsClosed ==
  ASSUME NEW A, NEW k \in Closure(A)
  PROVE  ParentsOf(k) \subseteq Closure(A)
  BY DEF Closure, ParentsOf

LEMMA ClosureIsLeast ==
  ASSUME NEW A, NEW S \in SUBSET Stored, A \cap Stored \subseteq S,
         \A k \in S : ParentsOf(k) \subseteq S
  PROVE  Closure(A) \subseteq S
  BY DEF Closure

LEMMA ReachesItself ==
  ASSUME NEW k \in Stored PROVE Reaches(k, k)
  BY ClosureContains DEF Reaches

LEMMA ClosureIsStored == \A A : Closure(A) \subseteq Stored
  BY DEF Closure

\* What is reached from something that A reaches, A reaches.
LEMMA ClosureTransitive ==
  ASSUME NEW A, NEW B, B \cap Stored \subseteq Closure(A)
  PROVE  Closure(B) \subseteq Closure(A)
  BY ClosureIsClosed, ClosureIsLeast, ClosureIsStored

----------------------------------------------------------------------------
(* The graph stays. *)

LEMMA GraphStays ==
  ASSUME UNCHANGED <<dependencies, starting>>
  PROVE  /\ Stored' = Stored /\ Required' = Required
         /\ Frames' = Frames
         /\ \A j, k : Reaches(j, k)' <=> Reaches(j, k)
         /\ \A k : ParentsOf(k)' = ParentsOf(k)
         /\ Cyclic' = Cyclic
  BY DEF Stored, Required, Frames, Reaches, Closure, ParentsOf, Cyclic

LEMMA GraphType ==
  ASSUME SortInv
  PROVE  /\ Stored \subseteq Keys
         /\ \A k \in Stored : dependencies[k] \in Seq(Keys)
  BY FlagSortAssumption DEF SortInv, FlagSortAssumption, Stored

LEMMA SortInit == EvaluationInit => SortInv
<1> SUFFICES ASSUME Init PROVE SortInv
  BY DEF EvaluationInit
<1>1. dependencies \in Graphs /\ Stored \subseteq Keys
  BY FlagSortAssumption DEF Init, FlagSortAssumption, Stored
<1>2. starting \in Seq(Keys)
  <2>1. CASE starting \in Requests
    BY <2>1, FlagSortAssumption DEF FlagSortAssumption
  <2>2. CASE starting \in Orders(Stored)
    <3>1. Cardinality(Stored) \in Nat
      BY <1>1, FlagSortAssumption, FS_Subset, FS_CardinalityType
      DEF FlagSortAssumption
    <3>2. starting \in [1..Cardinality(Stored) -> Keys]
      BY <1>1, <2>2 DEF Orders
    <3> QED
      BY <3>1, <3>2
  <2> QED
    BY <2>1, <2>2 DEF Init
<1>3. ResultIsSound
  BY DEF Init, ResultIsSound, DependenciesFirst, ToSet
<1>4. Progress(todo, stack, {})
  BY <1>2, <1>3 DEF Init, Progress, PathIsSound, ParentsAreVisited,
     NothingIsForgotten
<1> QED
  BY <1>1, <1>2, <1>4 DEF Init, SortInv

----------------------------------------------------------------------------
(* A call of parentTraversal. *)

\* What the caller sees to before it calls parentTraversal(k) from the last
\* of the frames st.
Callable(td, st, k) ==
    /\ Progress(td, st, {k})
    /\ k \in Stored => k \in Required
    /\ \A i \in DOMAIN st :
        /\ st[i].key # k
        /\ k \in Stored => Reaches(st[i].key, k)

\* A flag joins the result after its parents.
LEMMA AddKeepsResult ==
  ASSUME ResultIsSound, NEW k \in available \cap Required,
         ParentsOf(k) \subseteq ToSet(result),
         Add(k), UNCHANGED <<dependencies, starting>>
  PROVE  ResultIsSound' /\ ToSet(result)' = ToSet(result) \cup {k}
<1>1. k \in Stored /\ k \notin ToSet(result)
  BY DEF ResultIsSound
<1>2. /\ result \in Seq(Stored) /\ Len(result) \in Nat
      /\ DOMAIN result = 1..Len(result)
  BY LenProperties DEF ResultIsSound
<1>3. /\ result' \in Seq(Stored) /\ Len(result') = Len(result) + 1
      /\ DOMAIN result' = 1..Len(result) + 1
      /\ \A i \in 1..Len(result) : result'[i] = result[i]
      /\ result'[Len(result) + 1] = k
  BY <1>1, <1>2, AppendProperties, LenProperties DEF Add
<1>4. ToSet(result)' = ToSet(result) \cup {k}
  BY <1>1, <1>2, ToSetAppend DEF Add, ToSet
<1>5. \A i \in 1..Len(result) + 1 : i \in 1..Len(result) \/ i = Len(result) + 1
  BY <1>2
<1>6. \A i \in 1..Len(result) : result[i] # k
  BY <1>1, <1>2 DEF ToSet
<1>7. ASSUME NEW i \in DOMAIN result', NEW j \in DOMAIN result',
             result'[i] = result'[j]
      PROVE  i = j
  BY <1>2, <1>3, <1>5, <1>6, <1>7 DEF ResultIsSound, DependenciesFirst
<1>8. ASSUME NEW i \in DOMAIN result'
      PROVE  ParentsOf(result'[i]) \subseteq {result'[j] : j \in 1..i-1}
  <2>1. CASE i = Len(result) + 1
    <3>1. ToSet(result) = {result'[j] : j \in 1..i-1}
      BY <1>2, <1>3, <2>1 DEF ToSet
    <3> QED
      BY <1>3, <2>1, <3>1
  <2>2. CASE i \in 1..Len(result)
    <3>1. \A j \in 1..i-1 : result'[j] = result[j]
      BY <1>2, <1>3, <2>2
    <3>2. ParentsOf(result[i]) \subseteq {result[j] : j \in 1..i-1}
      BY <1>2, <2>2 DEF ResultIsSound, DependenciesFirst
    <3>3. {result'[j] : j \in 1..i-1} = {result[j] : j \in 1..i-1}
      BY <3>1
    <3> QED
      BY <1>3, <2>2, <3>2, <3>3
  <2> QED
    BY <1>3, <1>5, <2>1, <2>2
<1>9. DependenciesFirst'
  BY <1>7, <1>8, GraphStays DEF DependenciesFirst
<1>10. available' = Stored' \ ToSet(result)'
  BY <1>4, GraphStays DEF ResultIsSound, Add
<1> QED
  BY <1>3, <1>4, <1>9, <1>10, GraphStays DEF ResultIsSound

LEMMA NoParents ==
  ASSUME NEW k \in Stored, dependencies[k] = <<>>
  PROVE  ParentsOf(k) = {}
  BY DEF ParentsOf, ToSet

\* The flag is missing or in the result already.
LEMMA CallOfDone ==
  ASSUME NEW td, NEW st, NEW k \in Keys, Callable(td, st, k),
         k \notin available,
         stack' = st, todo' = td,
         UNCHANGED <<dependencies, starting, available, result>>
  PROVE  Progress(todo, stack, {})'
<1>1. k \in Stored => k \in ToSet(result)
  BY DEF Callable, Progress, ResultIsSound
<1>2. ParentsAreVisited(st, {})
  BY <1>1 DEF Callable, Progress, ParentsAreVisited
<1>3. NothingIsForgotten(td, st, {})
  BY <1>1 DEF Callable, Progress, NothingIsForgotten
<1>4. Progress(td, st, {})
  BY <1>2, <1>3 DEF Callable, Progress
<1> QED
  BY <1>4, GraphStays
  DEF Progress, ResultIsSound, DependenciesFirst, PathIsSound,
      ParentsAreVisited, NothingIsForgotten

\* The flag has no dependencies.
LEMMA CallOfLeaf ==
  ASSUME NEW td, NEW st, NEW k \in Keys, Callable(td, st, k),
         k \in available, dependencies[k] = <<>>, Add(k),
         stack' = st, todo' = td, UNCHANGED <<dependencies, starting>>
  PROVE  Progress(todo, stack, {})'
<1>1. k \in Stored /\ ParentsOf(k) = {}
  BY NoParents DEF Callable, Progress, ResultIsSound
<1>2. ResultIsSound' /\ ToSet(result)' = ToSet(result) \cup {k}
  BY <1>1, AddKeepsResult DEF Callable, Progress
<1>3. PathIsSound(st)'
  BY GraphStays DEF Add, Callable, Progress, PathIsSound
<1>4. ParentsAreVisited(st, {})'
  BY <1>2, GraphStays DEF Callable, Progress, ParentsAreVisited
<1>5. NothingIsForgotten(td, st, {})'
  BY <1>2, GraphStays DEF Callable, Progress, NothingIsForgotten
<1> QED
  BY <1>2, <1>3, <1>4, <1>5 DEF Progress, Callable, PathIsSound,
     ParentsAreVisited, NothingIsForgotten

\* The flag has dependencies to visit first.
LEMMA CallOfParent ==
  ASSUME NEW td, NEW st, NEW k \in Keys, Callable(td, st, k),
         k \in available,
         stack' = Append(st, [key |-> k, visited |-> 0]), todo' = td,
         UNCHANGED <<dependencies, starting, available, result>>,
         dependencies[k] \in Seq(Keys)
  PROVE  Progress(todo, stack, {})'
<1> DEFINE f == [key |-> k, visited |-> 0]
           n == Len(st)
<1>1. k \in Stored /\ k \in Required /\ f \in Frames
  BY DEF Callable, Progress, ResultIsSound, Frames
<1>2. st \in Seq(Frames) /\ n \in Nat /\ DOMAIN st = 1..n
  BY LenProperties DEF Callable, Progress, PathIsSound
<1>3. /\ stack' \in Seq(Frames) /\ Len(stack') = n + 1
      /\ DOMAIN stack' = 1..n + 1
      /\ \A i \in 1..n : stack'[i] = st[i]
      /\ stack'[n + 1] = f
      /\ stack' # <<>>
  BY <1>1, <1>2, AppendProperties, LenProperties
<1> HIDE DEF f, n
<1>4. \A i \in 1..n + 1 : i \in 1..n \/ i = n + 1
  BY <1>2
<1>5. f.key = k /\ f.visited = 0 /\ 0 <= Len(dependencies[k])
  BY LenProperties DEF f
<1>6. ResultIsSound'
  BY GraphStays DEF Callable, Progress, ResultIsSound, DependenciesFirst
<1>7. PathIsSound(stack)'
  <2>1. ASSUME NEW i \in 1..n + 1
        PROVE  /\ stack'[i].key \in available \cap Required
               /\ stack'[i].visited <= Len(dependencies[stack'[i].key])
    BY <1>1, <1>2, <1>3, <1>4, <1>5 DEF Callable, Progress, PathIsSound
  <2>2. ASSUME NEW i \in 1..n + 1, NEW j \in 1..n + 1
        PROVE  /\ stack'[i].key = stack'[j].key => i = j
               /\ i <= j => Reaches(stack'[i].key, stack'[j].key)
    <3>1. CASE i \in 1..n /\ j \in 1..n
      BY <1>2, <1>3, <3>1 DEF Callable, Progress, PathIsSound
    <3>2. CASE i \in 1..n /\ j = n + 1
      BY <1>1, <1>2, <1>3, <1>5, <3>2 DEF Callable
    <3>3. CASE i = n + 1 /\ j \in 1..n
      BY <1>1, <1>2, <1>3, <1>5, <3>3 DEF Callable
    <3>4. CASE i = n + 1 /\ j = n + 1
      BY <1>1, <1>3, <1>5, <3>4, ReachesItself
    <3> QED
      BY <1>4, <3>1, <3>2, <3>3, <3>4
  <2> QED
    BY <1>3, <2>1, <2>2, GraphStays DEF PathIsSound
<1>8. ParentsAreVisited(stack, {})'
  <2> SUFFICES ASSUME NEW i \in 1..n + 1, NEW m \in 1..stack'[i].visited,
                      dependencies[stack'[i].key][m] \in Stored \ ToSet(result)
               PROVE  /\ i + 1 \in 1..n + 1
                      /\ dependencies[stack'[i].key][m] = stack'[i + 1].key
    <3>1. /\ dependencies' = dependencies /\ Stored' = Stored
          /\ ToSet(result)' = ToSet(result)
      BY GraphStays DEF ToSet
    <3> QED
      BY <1>3, <3>1 DEF ParentsAreVisited
  <2>1. i \in 1..n /\ stack'[i] = st[i]
    BY <1>3, <1>4, <1>5
  <2>2. \/ i + 1 \in 1..n /\ dependencies[st[i].key][m] = st[i + 1].key
        \/ i = n /\ dependencies[st[i].key][m] = k
    BY <1>2, <2>1 DEF Callable, Progress, ParentsAreVisited, n
  <2> QED
    BY <1>2, <1>3, <1>5, <2>1, <2>2
<1>9. NothingIsForgotten(todo, stack, {})'
  <2>1. st = <<>> => stack'[1].key = k
    BY <1>2, <1>3, <1>5, EmptySeq DEF n
  <2>2. st # <<>> => stack'[1].key = st[1].key
    BY <1>2, <1>3, EmptySeq DEF n
  <2>3. ToSet(result)' = ToSet(result)
    BY DEF ToSet
  <2> QED
    BY <1>3, <2>1, <2>2, <2>3, GraphStays
    DEF Callable, Progress, NothingIsForgotten
<1> QED
  BY <1>6, <1>7, <1>8, <1>9 DEF Progress, Callable

LEMMA CallKeeps ==
  ASSUME SortInv, NEW td, NEW st, NEW k \in Keys, Callable(td, st, k),
         Call(k, st), todo' = td, UNCHANGED <<dependencies, starting>>
  PROVE  Progress(todo, stack, {})'
<1>1. CASE k \notin available
  BY <1>1, CallOfDone DEF Call
<1>2. CASE k \in available
  <2>1. dependencies[k] \in Seq(Keys)
    BY <1>2, GraphType DEF Callable, Progress, ResultIsSound
  <2>2. CASE dependencies[k] = <<>>
    BY <1>2, <2>2, CallOfLeaf DEF Call
  <2>3. CASE dependencies[k] # <<>>
    BY <1>2, <2>1, <2>3, CallOfParent DEF Call
  <2> QED
    BY <2>2, <2>3
<1> QED
  BY <1>1, <1>2

----------------------------------------------------------------------------
(* The steps of the sort. *)

\* What a required flag depends on is required.
LEMMA RequiredIsClosed ==
  ASSUME NEW j \in Required, NEW k \in ParentsOf(j)
  PROVE  k \in Required
  BY ClosureIsClosed DEF Required

LEMMA ReachesOn ==
  ASSUME NEW i, NEW j, Reaches(i, j), NEW k \in ParentsOf(j)
  PROVE  Reaches(i, k)
  BY ClosureIsClosed DEF Reaches

LEMMA TraverseKeeps ==
  ASSUME SortInv, Traverse
  PROVE  SortInv'
<1> DEFINE k == Head(todo)
           td == Tail(todo)
<1>1. Progress(todo, <<>>, {}) /\ todo # <<>> /\ todo \in Seq(Keys)
  BY DEF SortInv, Traverse, Progress
<1>2. k \in Keys /\ td \in Seq(Keys) /\ ToSet(todo) = {k} \cup ToSet(td)
  BY <1>1, HeadTailProperties, ToSetTail
<1> HIDE DEF k, td
<1>3. k \in Stored => k \in Required
  <2>1. k \in ToSet(starting)
    BY <1>1, <1>2 DEF Progress
  <2> QED
    BY <2>1, ClosureContains DEF Required
<1>4. NothingIsForgotten(td, <<>>, {k})
  BY <1>1, <1>2 DEF Progress, NothingIsForgotten
<1>5. Progress(td, <<>>, {k})
  BY <1>1, <1>2, <1>4 DEF Progress, ParentsAreVisited
<1>6. Callable(td, <<>>, k)
  BY <1>3, <1>5 DEF Callable
<1>7. Call(k, <<>>) /\ todo' = td
  BY DEF Traverse, k, td
<1>8. Progress(todo, stack, {})'
  BY <1>2, <1>6, <1>7, CallKeeps DEF Traverse
<1> QED
  BY <1>8 DEF SortInv, Traverse

\* The last frame, in a state in which there is one.
LEMMA TopType ==
  ASSUME SortInv, outcome = "sorting", stack # <<>>
  PROVE  /\ Len(stack) \in Nat /\ Len(stack) >= 1
         /\ DOMAIN stack = 1..Len(stack)
         /\ stack \in Seq(Frames)
         /\ Top.key \in Stored /\ Top.key \in available \cap Required
         /\ Top.visited \in Nat /\ Top.visited <= Len(Parents)
         /\ Parents \in Seq(Keys) /\ Len(Parents) \in Nat
         /\ DOMAIN Parents = 1..Len(Parents)
<1>1. PathIsSound(stack)
  BY DEF SortInv, Progress
<1>2. /\ stack \in Seq(Frames) /\ Len(stack) \in Nat /\ Len(stack) # 0
      /\ DOMAIN stack = 1..Len(stack)
  BY <1>1, LenProperties, EmptySeq DEF PathIsSound
<1>3. Len(stack) \in 1..Len(stack) /\ Top \in Frames
  BY <1>2, ElementOfSeq DEF Top
<1>4. Parents \in Seq(Keys)
  BY <1>3, GraphType DEF Parents, Frames
<1> QED
  BY <1>1, <1>2, <1>3, <1>4, LenProperties
  DEF PathIsSound, Top, Parents, Frames

\* The parent to visit is one of the flag's, if it is stored.
LEMMA ParentType ==
  ASSUME SortInv, Visiting
  PROVE  /\ Parent \in Keys
         /\ Parent \in Stored => Parent \in ParentsOf(Top.key)
<1>1. Top.visited + 1 \in 1..Len(Parents) /\ DOMAIN Parents = 1..Len(Parents)
      /\ Parents \in Seq(Keys)
  BY TopType DEF Visiting
<1> QED
  BY <1>1, ElementOfSeq DEF Parent, ParentsOf, Parents, ToSet

LEMMA VisitKeeps ==
  ASSUME SortInv, Visit
  PROVE  SortInv'
<1> DEFINE n  == Len(stack)
           st == [stack EXCEPT ![n].visited = @ + 1]
           k  == Parent
<1>1. /\ Visiting /\ k \notin Path
      /\ n \in Nat /\ n >= 1 /\ DOMAIN stack = 1..n /\ stack \in Seq(Frames)
      /\ Top.key \in Required /\ Top.visited \in Nat
      /\ Top.visited + 1 <= Len(Parents) /\ Len(Parents) \in Nat
      /\ outcome = "sorting"
  BY TopType DEF Visit, Visiting
<1>2. k \in Keys /\ (k \in Stored => k \in ParentsOf(Top.key))
  BY <1>1, ParentType
<1>3. Progress(todo, stack, {})
  BY <1>1 DEF SortInv
<1>4. /\ DOMAIN st = 1..n /\ st # <<>>
      /\ \A i \in 1..n : st[i].key = stack[i].key
      /\ \A i \in 1..n : i # n => st[i] = stack[i]
      /\ st[n].visited = Top.visited + 1
      /\ st \in Seq(Frames) /\ Len(st) = n
  <2>1. \A i \in 1..n : stack[i] \in Frames
    BY <1>1, ElementOfSeq
  <2>2. [stack[n] EXCEPT !.visited = @ + 1] \in Frames
    BY <1>1, <2>1 DEF Top, Frames
  <2>3. st \in Seq(Frames) /\ Len(st) = n
    BY <1>1, <2>2, ExceptSeq
  <2> QED
    BY <1>1, <2>1, <2>3, LenProperties, EmptySeq DEF Top, Frames
<1> HIDE DEF n, st, k
<1>5. PathIsSound(st)
  <2>1. \A i \in 1..n : st[i].visited <= Len(dependencies[st[i].key])
    BY <1>1, <1>3, <1>4 DEF Progress, PathIsSound, Parents, Top, n
  <2> QED
    BY <1>1, <1>3, <1>4, <2>1 DEF Progress, PathIsSound
<1>6. ParentsAreVisited(st, {k})
  <2> SUFFICES ASSUME NEW i \in DOMAIN st, NEW m \in 1..st[i].visited
               PROVE  LET p == dependencies[st[i].key][m]
                      IN  \/ p \notin Stored
                          \/ p \in ToSet(result)
                          \/ i + 1 \in DOMAIN st /\ p = st[i + 1].key
                          \/ i = Len(st) /\ p \in {k}
    BY DEF ParentsAreVisited
  <2> SUFFICES ASSUME ~(i = n /\ dependencies[st[i].key][m] = k),
                      dependencies[st[i].key][m] \notin ToSet(result),
                      dependencies[st[i].key][m] \in Stored
               PROVE  /\ i + 1 \in 1..n
                      /\ dependencies[st[i].key][m] = st[i + 1].key
    BY <1>4
  <2> i \in 1..n
    BY <1>4
  <2>1. m \in 1..stack[i].visited
    <3>1. CASE i = n
      <4>1. m \in 1..Top.visited + 1
        BY <1>4, <3>1
      <4>2. m # Top.visited + 1
        BY <1>1, <1>4, <3>1 DEF k, Parent, Parents, Top, n
      <4> QED
        BY <1>1, <3>1, <4>1, <4>2 DEF Top, n
    <3>2. CASE i # n
      BY <1>4, <3>2
    <3> QED
      BY <3>1, <3>2
  <2>2. i + 1 \in 1..n /\ dependencies[stack[i].key][m] = stack[i + 1].key
    BY <1>1, <1>3, <1>4, <2>1 DEF Progress, ParentsAreVisited
  <2> QED
    BY <1>4, <2>2
<1>7. NothingIsForgotten(todo, st, {k})
  BY <1>1, <1>3, <1>4 DEF Progress, NothingIsForgotten
<1>8. Progress(todo, st, {k})
  BY <1>3, <1>5, <1>6, <1>7 DEF Progress
<1>9. k \in Stored => k \in Required
  BY <1>1, <1>2, RequiredIsClosed
<1>10. ASSUME NEW i \in 1..n
       PROVE  st[i].key # k /\ (k \in Stored => Reaches(st[i].key, k))
  <2>1. st[i].key # k
    BY <1>1, <1>4 DEF Path
  <2>2. i \in DOMAIN stack /\ n \in DOMAIN stack /\ i <= n
    BY <1>1
  <2>3. Reaches(stack[i].key, stack[n].key)
    BY <1>3, <2>2 DEF Progress, PathIsSound
  <2>4. Reaches(st[i].key, Top.key)
    BY <1>4, <2>3 DEF Top, n
  <2> QED
    BY <1>2, <2>1, <2>4, ReachesOn
<1>11. Callable(todo, st, k)
  BY <1>4, <1>8, <1>9, <1>10 DEF Callable
<1>12. Call(k, st)
  BY DEF Visit, k, st, n
<1>13. Progress(todo, stack, {})'
  BY <1>2, <1>11, <1>12, CallKeeps DEF Visit
<1> QED
  BY <1>1, <1>13 DEF SortInv, Visit

LEMMA FindCycleKeeps ==
  ASSUME SortInv, FindCycle
  PROVE  SortInv'
<1>1. /\ outcome = "sorting" /\ stack # <<>> /\ Visiting
      /\ Parent \in Path
  BY DEF FindCycle, Visiting
<1>2. PICK i \in DOMAIN stack : Parent = stack[i].key
  BY <1>1 DEF Path
<1>3. /\ Top.key \in Required /\ DOMAIN stack = 1..Len(stack)
      /\ Len(stack) \in DOMAIN stack /\ i <= Len(stack)
  BY <1>1, TopType
<1>4. PathIsSound(stack)
  BY <1>1 DEF SortInv, Progress
<1>5. Reaches(Parent, Top.key) /\ Parent \in Stored
  BY <1>2, <1>3, <1>4, ClosureIsStored DEF PathIsSound, Top, Required
<1>6. Parent \in ParentsOf(Top.key)
  BY <1>1, <1>5, ParentType
<1>7. Closure({Parent}) \subseteq Closure(ParentsOf(Top.key))
  BY <1>5, <1>6, ClosureContains, ClosureTransitive
<1>8. Cyclic
  BY <1>3, <1>5, <1>7 DEF Cyclic, Reaches
<1> QED
  BY <1>8, GraphStays DEF FindCycle, SortInv

LEMMA LeaveKeeps ==
  ASSUME SortInv, Leave
  PROVE  SortInv'
<1> DEFINE n == Len(stack)
           k == Top.key
<1>1. /\ outcome = "sorting" /\ stack # <<>> /\ Top.visited = Len(Parents)
      /\ Add(k) /\ stack' = SubSeq(stack, 1, n - 1)
      /\ UNCHANGED <<dependencies, starting, todo, outcome>>
  BY DEF Leave
<1>2. /\ n \in Nat /\ n >= 1 /\ DOMAIN stack = 1..n /\ stack \in Seq(Frames)
      /\ k \in Stored /\ k \in available \cap Required
      /\ Top = stack[n]
      /\ DOMAIN Parents = 1..Len(Parents)
  BY <1>1, TopType DEF Top
<1>3. Progress(todo, stack, {})
  BY <1>1 DEF SortInv
<1>4. /\ stack' \in Seq(Frames) /\ Len(stack') = n - 1
      /\ DOMAIN stack' = 1..n - 1
      /\ \A i \in 1..n - 1 : stack'[i] = stack[i]
  <2>1. \A i \in 1..n - 1 : stack[i] \in Frames
    BY <1>2, ElementOfSeq
  <2> QED
    BY <1>1, <1>2, <2>1, SubSeqProperties, LenProperties
<1> HIDE DEF n, k
<1>5. ParentsOf(k) \subseteq ToSet(result)
  <2> SUFFICES ASSUME NEW m \in 1..Len(Parents), Parents[m] \in Stored
               PROVE  Parents[m] \in ToSet(result)
    BY <1>2 DEF ParentsOf, ToSet, Parents, k
  <2> QED
    BY <1>1, <1>2, <1>3 DEF Progress, ParentsAreVisited, Parents, n
<1>6. ResultIsSound' /\ ToSet(result)' = ToSet(result) \cup {k}
  BY <1>1, <1>2, <1>3, <1>5, AddKeepsResult DEF Progress
<1>7. \A i \in 1..n - 1 : stack'[i].key # k /\ i \in 1..n
  BY <1>2, <1>3, <1>4 DEF Progress, PathIsSound, k
<1>8. PathIsSound(stack)'
  <2>1. \A i \in 1..n - 1 : stack'[i].key \in available' \cap Required
    BY <1>1, <1>2, <1>3, <1>4, <1>7 DEF Add, Progress, PathIsSound
  <2> QED
    BY <1>1, <1>2, <1>3, <1>4, <1>7, <2>1, GraphStays
    DEF Progress, PathIsSound
<1>9. ParentsAreVisited(stack, {})'
  <2> SUFFICES ASSUME NEW i \in 1..n - 1, NEW m \in 1..stack[i].visited,
                      dependencies[stack[i].key][m] \in Stored \ ToSet(result),
                      dependencies[stack[i].key][m] # k
               PROVE  /\ i + 1 \in 1..n - 1
                      /\ dependencies[stack[i].key][m] = stack'[i + 1].key
    BY <1>1, <1>4, <1>6, GraphStays DEF ParentsAreVisited
  <2>1. i + 1 \in 1..n /\ dependencies[stack[i].key][m] = stack[i + 1].key
    BY <1>2, <1>3, <1>7 DEF Progress, ParentsAreVisited
  <2>2. i + 1 # n
    BY <1>2, <2>1 DEF k
  <2> QED
    BY <1>2, <1>4, <2>1, <2>2
<1>10. NothingIsForgotten(todo, stack, {})'
  <2>1. stack' # <<>> => stack'[1] = stack[1]
    BY <1>2, <1>4, EmptySeq
  <2>2. stack' = <<>> => stack[1].key = k
    BY <1>2, <1>4, EmptySeq DEF k
  <2> QED
    BY <1>1, <1>3, <1>6, <2>1, <2>2, GraphStays
    DEF Progress, NothingIsForgotten
<1>11. Progress(todo, stack, {})'
  BY <1>1, <1>3, <1>6, <1>8, <1>9, <1>10 DEF Progress, ToSet
<1> QED
  BY <1>1, <1>11 DEF SortInv

\* Steps that do not sort.
LEMMA SortUntouched ==
  ASSUME SortInv, UNCHANGED <<dependencies, starting, todo, available, stack,
                              result>>,
         \/ UNCHANGED outcome
         \/ /\ outcome = "sorting" /\ outcome' = "sorted"
            /\ todo = <<>> /\ stack = <<>>
  PROVE  SortInv'
<1>1. Progress(todo, stack, {})' <=> Progress(todo, stack, {})
  <2>1. ResultIsSound' <=> ResultIsSound
    BY GraphStays DEF ResultIsSound, DependenciesFirst, ToSet
  <2>2. PathIsSound(stack)' <=> PathIsSound(stack)
    BY GraphStays DEF PathIsSound
  <2>3. ParentsAreVisited(stack, {})' <=> ParentsAreVisited(stack, {})
    BY GraphStays DEF ParentsAreVisited, ToSet
  <2>4. NothingIsForgotten(todo, stack, {})'
            <=> NothingIsForgotten(todo, stack, {})
    BY GraphStays DEF NothingIsForgotten, ToSet
  <2> QED
    BY <2>1, <2>2, <2>3, <2>4 DEF Progress, ToSet
<1> QED
  BY <1>1, GraphStays DEF SortInv

LEMMA SortKeeps == ASSUME SortInv, [EvaluationNext]_allVars PROVE SortInv'
<1>1. CASE Sort
  BY <1>1, TraverseKeeps, VisitKeeps, FindCycleKeeps, LeaveKeeps,
     SortUntouched DEF Sort, Sorted
<1>2. CASE UNCHANGED sortVars
  BY <1>2, SortUntouched DEF sortVars
<1> QED
  BY <1>1, <1>2
  DEF EvaluationNext, SortStep, EnrichUser, Evaluate, EvaluateNext, RollOut,
      allVars

----------------------------------------------------------------------------
(* What the sort has done when it ends. *)

\* The flags before a place of the result contain what they depend on.
LEMMA PrefixIsClosed ==
  ASSUME ResultIsSound, NEW i \in Nat, i <= Len(result) + 1,
         NEW k \in {result[j] : j \in 1..i-1}
  PROVE  ParentsOf(k) \subseteq {result[j] : j \in 1..i-1}
<1>1. PICK m \in 1..i-1 : k = result[m]
  OBVIOUS
<1>2. Len(result) \in Nat /\ DOMAIN result = 1..Len(result)
  BY LenProperties DEF ResultIsSound
<1>3. m \in DOMAIN result /\ 1..m-1 \subseteq 1..i-1
  BY <1>2
<1>4. ParentsOf(k) \subseteq {result[j] : j \in 1..m-1}
  BY <1>1, <1>3 DEF ResultIsSound, DependenciesFirst
<1> QED
  BY <1>3, <1>4

\* No flag of the result is reached from its dependencies.
LEMMA ResultIsAcyclic ==
  ASSUME ResultIsSound, NEW k \in ToSet(result)
  PROVE  k \notin Closure(ParentsOf(k))
<1>1. PICK i \in DOMAIN result : k = result[i]
  BY DEF ToSet
<1>2. /\ Len(result) \in Nat /\ DOMAIN result = 1..Len(result)
      /\ \A j \in 1..Len(result) : result[j] \in Stored
  BY LenProperties, ElementOfSeq DEF ResultIsSound
<1> DEFINE S == {result[j] : j \in 1..i-1}
<1>3. /\ i \in Nat /\ i <= Len(result) + 1 /\ 1..i-1 \subseteq 1..Len(result)
      /\ i \notin 1..i-1
  BY <1>1, <1>2
<1>4. S \in SUBSET Stored
  BY <1>2, <1>3
<1>5. ParentsOf(k) \subseteq S
  BY <1>1 DEF ResultIsSound, DependenciesFirst
<1>6. k \notin S
  BY <1>1, <1>2, <1>3 DEF ResultIsSound, DependenciesFirst
<1>7. \A j \in S : ParentsOf(j) \subseteq S
  BY <1>3, PrefixIsClosed
<1> HIDE DEF S
<1>8. Closure(ParentsOf(k)) \subseteq S
  BY <1>4, <1>5, <1>7, ClosureIsLeast
<1> QED
  BY <1>6, <1>8

LEMMA SortedIsExact ==
  ASSUME SortInv, outcome = "sorted"
  PROVE  ToSet(result) = Required /\ ~Cyclic
<1>1. ResultIsSound /\ NothingIsForgotten(<<>>, <<>>, {})
  BY DEF SortInv, Progress
<1>2. ToSet(starting) \cap Stored \subseteq ToSet(result)
  BY <1>1 DEF NothingIsForgotten, ToSet
<1>3. \A k \in ToSet(result) : ParentsOf(k) \subseteq ToSet(result)
  <2>1. /\ Len(result) \in Nat
        /\ ToSet(result) = {result[j] : j \in 1..(Len(result) + 1) - 1}
    BY <1>1, LenProperties DEF ResultIsSound, ToSet
  <2> QED
    BY <1>1, <2>1, PrefixIsClosed
<1>4. ToSet(result) \in SUBSET Stored
  BY <1>1, ClosureIsStored DEF ResultIsSound, Required
<1>5. Required \subseteq ToSet(result)
  BY <1>2, <1>3, <1>4, ClosureIsLeast DEF Required
<1>6. ToSet(result) = Required
  BY <1>1, <1>5 DEF ResultIsSound
<1> QED
  BY <1>1, <1>6, ResultIsAcyclic DEF Cyclic

LEMMA SortInvIsEnough == SortInv => SortIsExact
<1> SUFFICES ASSUME SortInv PROVE SortIsExact
  OBVIOUS
<1>1. DependenciesFirst
  <2>1. CASE outcome = "cycle"
    BY <2>1 DEF SortInv, DependenciesFirst
  <2>2. CASE outcome # "cycle"
    BY <2>2 DEF SortInv, Progress, ResultIsSound
  <2> QED
    BY <2>1, <2>2
<1>2. outcome = "sorted" => ToSet(result) = Required /\ ~Cyclic
  BY SortedIsExact
<1>3. outcome = "cycle" => Cyclic
  BY DEF SortInv
<1> QED
  BY <1>1, <1>2, <1>3 DEF SortIsExact, Cyclic

\* Whatever the graph, the keys asked for and the order Go visits them in,
\* topologicalSort yields each flag that was asked for or is reached from one
\* along dependencies once, after the flags it depends on, and no others; and
\* it fails only if one of these depends on itself, in which case it never
\* succeeds.
THEOREM SortIsExactAlways == EvaluationSpec => []SortIsExact
<1>1. EvaluationInit => SortInv
  BY SortInit
<1>2. SortInv /\ [EvaluationNext]_allVars => SortInv'
  BY SortKeeps
<1>3. SortInv => SortIsExact
  BY SortInvIsEnough
<1> QED
  BY <1>1, <1>2, <1>3, PTL DEF EvaluationSpec

\* As long as no cycle was found, the types are part of what is known.
LEMMA SortInvIsTyped ==
  ASSUME SortInv, outcome # "cycle"
  PROVE  TypeOK
<1>1. Progress(todo, stack, {})
  BY DEF SortInv
<1>2. /\ Stored \subseteq Keys
      /\ \A k \in Stored : dependencies[k] \in Seq(Keys)
  BY GraphType
<1>3. ASSUME NEW i \in DOMAIN stack
      PROVE  /\ stack[i].key \in available
             /\ stack[i].visited \in 0..Len(dependencies[stack[i].key])
  <2>1. stack[i] \in Frames
    BY <1>1, <1>3, ElementOfSeq, LenProperties DEF Progress, PathIsSound
  <2>2. /\ stack[i].key \in available \cap Required
        /\ stack[i].visited <= Len(dependencies[stack[i].key])
    BY <1>1, <1>3 DEF Progress, PathIsSound
  <2>3. Len(dependencies[stack[i].key]) \in Nat
    BY <1>2, <2>1, LenProperties DEF Frames
  <2> QED
    BY <2>1, <2>2, <2>3 DEF Frames
<1> QED
  BY <1>1, <1>2, <1>3
  DEF TypeOK, SortInv, Progress, ResultIsSound

\* The state of the sort is well typed: what is on the call stack is not in
\* the result yet, and a loop over parents stays within its list.
THEOREM SortTyping == EvaluationSpec => []TypeOK
<1>1. EvaluationInit => SortInv /\ TypeOK
  <2>1. EvaluationInit => outcome # "cycle"
    BY DEF EvaluationInit, Init
  <2> QED
    BY <2>1, SortInit, SortInvIsTyped
<1>2. SortInv /\ TypeOK /\ [EvaluationNext]_allVars => SortInv' /\ TypeOK'
  <2> SUFFICES ASSUME SortInv, TypeOK, [EvaluationNext]_allVars
               PROVE  TypeOK'
    BY SortKeeps
  <2>1. CASE outcome' # "cycle"
    <3>1. SortInv'
      BY SortKeeps
    <3>2. (SortInv /\ outcome # "cycle" => TypeOK)'
      BY SortInvIsTyped, PTL
    <3> QED
      BY <2>1, <3>1, <3>2
  <2>2. CASE outcome' = "cycle"
    <3>1. CASE FindCycle
      BY <3>1, GraphStays DEF FindCycle, TypeOK
    <3>2. CASE UNCHANGED sortVars
      BY <3>2, GraphStays DEF sortVars, TypeOK
    <3>3. FindCycle \/ UNCHANGED sortVars
      BY <2>2
      DEF EvaluationNext, SortStep, Sort, Traverse, Visit, Visiting, Leave,
          Sorted, EnrichUser, Evaluate, EvaluateNext, RollOut, allVars
    <3> QED
      BY <3>1, <3>2, <3>3
  <2> QED
    BY <2>1, <2>2
<1> QED
  BY <1>1, <1>2, PTL DEF EvaluationSpec

----------------------------------------------------------------------------
(* What an evaluation depends on. *)

\* Do two maps of results say the same of a flag?
SameResult(rs, ss, j) ==
    /\ j \in DOMAIN rs <=> j \in DOMAIN ss
    /\ j \in DOMAIN rs => rs[j] = ss[j]

\* Do they say the same of what a selector names?
SameSelected(rs, ss, selector) ==
    selector[1] # "context" => SameResult(rs, ss, selector[2])

SameForSegment(rs, ss, s) ==
    /\ SameSelected(rs, ss, s.bucket.selector)
    /\ \A i \in DOMAIN s.conditions : \A j \in DOMAIN s.conditions[i] :
        SameSelected(rs, ss, s.conditions[i][j].selector)

LEMMA SelectAgrees ==
  ASSUME NEW c, NEW rs, NEW ss, NEW selector, SameSelected(rs, ss, selector)
  PROVE  Select(c, rs, selector) = Select(c, ss, selector)
<1>1. CASE selector[1] = "context"
  BY <1>1 DEF Select
<1>2. CASE selector[1] # "context"
  BY <1>2 DEF Select, SameSelected, SameResult
<1> QED
  BY <1>1, <1>2

LEMMA SegmentAgrees ==
  ASSUME NEW c, NEW rs, NEW ss, NEW s, SameForSegment(rs, ss, s)
  PROVE  SegmentMatches(c, rs, s) <=> SegmentMatches(c, ss, s)
<1>1. \A i \in DOMAIN s.conditions : \A j \in DOMAIN s.conditions[i] :
        Select(c, rs, s.conditions[i][j].selector)
            = Select(c, ss, s.conditions[i][j].selector)
  BY SelectAgrees DEF SameForSegment
<1> QED
  BY <1>1 DEF SegmentMatches

\* The places that claim a value, and the variant that a set of them yields.
ClaimsOf(b, value) ==
    LET hash == Hash(b.salt, TextOf(value))
    IN  {h \in Places(b) :
            LET a == b.allocations[h[1]]
            IN  /\ value.kind # "null" /\ TextOf(value) # ""
                /\ InRange(hash % 100, a.range)
                /\ InRange(hash \div 100, a.distributions[h[2]].range)}

VariantAt(hits, s) ==
    LET first == CHOOSE h \in hits : \A g \in hits :
                    h[1] < g[1] \/ (h[1] = g[1] /\ h[2] <= g[2])
    IN  IF hits = {} THEN s.variant
        ELSE s.bucket.allocations[first[1]].distributions[first[2]].variant

LEMMA BucketAgrees ==
  ASSUME NEW c, NEW rs, NEW ss, NEW s, SameForSegment(rs, ss, s)
  PROVE  Bucket(c, rs, s) = Bucket(c, ss, s)
<1>1. Select(c, rs, s.bucket.selector) = Select(c, ss, s.bucket.selector)
  BY SelectAgrees DEF SameForSegment
<1>2. /\ Hits(c, rs, s) = ClaimsOf(s.bucket, Select(c, rs, s.bucket.selector))
      /\ Hits(c, ss, s) = ClaimsOf(s.bucket, Select(c, ss, s.bucket.selector))
  BY DEF Hits, ClaimsOf
<1>3. Hits(c, rs, s) = Hits(c, ss, s)
  BY <1>1, <1>2
<1>4. /\ Bucket(c, rs, s) = VariantAt(Hits(c, rs, s), s)
      /\ Bucket(c, ss, s) = VariantAt(Hits(c, ss, s), s)
  BY DEF Bucket, VariantAt
<1> QED
  BY <1>3, <1>4

LEMMA LeastNatural ==
  ASSUME NEW S \in SUBSET Nat, S # {}
  PROVE  \E i \in S : \A j \in S : i <= j
<1> DEFINE R == {ss \in Nat \X Nat : ss[1] < ss[2]}
<1>1. IsWellFoundedOn(R, Nat)
  BY NatLessThanWellFounded DEF OpToRel
<1>2. PICK i \in S : \A j \in S : ~(<<j, i>> \in R)
  BY <1>1, WFMin
<1>3. ASSUME NEW j \in S PROVE i <= j
  <2>1. i \in Nat /\ j \in Nat
    OBVIOUS
  <2>2. <<j, i>> \in Nat \X Nat /\ <<j, i>>[1] = j /\ <<j, i>>[2] = i
    BY <2>1
  <2>3. ~(j < i)
    BY <1>2, <2>2
  <2> QED
    BY <2>1, <2>3
<1> QED
  BY <1>3

FirstOf(hits) ==
    IF hits = {} THEN 0 ELSE CHOOSE i \in hits : \A j \in hits : i <= j

Deciding(c, rs, flag) ==
    {i \in DOMAIN flag.segments :
        /\ SegmentMatches(c, rs, flag.segments[i])
        /\ Bucket(c, rs, flag.segments[i]) \in flag.variants}

LEMMA FirstDecides ==
  ASSUME NEW c, NEW rs, NEW flag, DOMAIN flag.segments \subseteq Nat
  PROVE  LET i == DecidingSegment(c, rs, flag)
         IN  i # 0 => i \in DOMAIN flag.segments
<1> DEFINE hits == Deciding(c, rs, flag)
<1>1. DecidingSegment(c, rs, flag) = FirstOf(hits)
  BY DEF DecidingSegment, FirstOf, Deciding
<1>2. hits \in SUBSET Nat /\ hits \subseteq DOMAIN flag.segments
  BY DEF Deciding
<1> HIDE DEF hits
<1>3. CASE hits = {}
  BY <1>1, <1>3 DEF FirstOf
<1>4. CASE hits # {}
  <2>1. \E i \in hits : \A j \in hits : i <= j
    BY <1>2, <1>4, LeastNatural
  <2>2. (CHOOSE i \in hits : \A j \in hits : i <= j) \in hits
    BY <2>1
  <2> QED
    BY <1>1, <1>2, <1>4, <2>2 DEF FirstOf
<1> QED
  BY <1>3, <1>4

\* Two maps of results that say the same of all a flag looks at give it the
\* same variant.
LEMMA EvaluationAgrees ==
  ASSUME NEW c, NEW rs, NEW ss, NEW flag, DOMAIN flag.segments \subseteq Nat,
         \A i \in DOMAIN flag.segments :
            SameForSegment(rs, ss, flag.segments[i])
  PROVE  EvaluateFlag(c, rs, flag) = EvaluateFlag(c, ss, flag)
<1>1. ASSUME NEW i \in DOMAIN flag.segments
      PROVE  /\ SegmentMatches(c, rs, flag.segments[i])
                    <=> SegmentMatches(c, ss, flag.segments[i])
             /\ Bucket(c, rs, flag.segments[i])
                    = Bucket(c, ss, flag.segments[i])
  BY SegmentAgrees, BucketAgrees
<1>2. Deciding(c, rs, flag) = Deciding(c, ss, flag)
  BY <1>1 DEF Deciding
<1>3. /\ DecidingSegment(c, rs, flag) = FirstOf(Deciding(c, rs, flag))
      /\ DecidingSegment(c, ss, flag) = FirstOf(Deciding(c, ss, flag))
  BY DEF DecidingSegment, FirstOf, Deciding
<1>4. DecidingSegment(c, rs, flag) = DecidingSegment(c, ss, flag)
  BY <1>2, <1>3
<1> DEFINE i == DecidingSegment(c, rs, flag)
<1>5. CASE i = 0
  BY <1>4, <1>5 DEF EvaluateFlag
<1>6. CASE i # 0
  <2>1. i \in DOMAIN flag.segments
    BY <1>6, FirstDecides
  <2> QED
    BY <1>1, <1>4, <1>6, <2>1 DEF EvaluateFlag
<1> QED
  BY <1>5, <1>6

\* A flag looks only at the results of the flags it depends on.
LEMMA LooksAtDependencies ==
  ASSUME dependencies \in Graphs, NEW k \in Stored,
         NEW r \in 0..MaxRollout, NEW c, NEW rs, NEW ss,
         DOMAIN rs \subseteq Stored, DOMAIN ss \subseteq Stored,
         \A j \in ParentsOf(k) : SameResult(rs, ss, j)
  PROVE  EvaluateFlag(c, rs, Definition(k, dependencies[k], r))
            = EvaluateFlag(c, ss, Definition(k, dependencies[k], r))
<1> DEFINE flag == Definition(k, dependencies[k], r)
<1>1. /\ DOMAIN flag.segments \subseteq Nat
      /\ \A i \in DOMAIN flag.segments :
            LET s == flag.segments[i]
            IN  /\ IsDeclared(s.bucket.selector, dependencies[k])
                /\ \A m \in DOMAIN s.conditions :
                    \A n \in DOMAIN s.conditions[m] :
                        IsDeclared(s.conditions[m][n].selector,
                                   dependencies[k])
  BY DefinitionAssumption DEF DefinitionAssumption, Stored, IsListed,
     SegmentIsSound
<1> HIDE DEF flag
<1>2. ASSUME NEW selector, IsDeclared(selector, dependencies[k])
      PROVE  SameSelected(rs, ss, selector)
  <2> SUFFICES ASSUME selector[1] # "context"
               PROVE  SameResult(rs, ss, selector[2])
    BY DEF SameSelected
  <2>1. selector[2] \in ToSet(dependencies[k])
    BY <1>2 DEF IsDeclared
  <2>2. CASE selector[2] \in Stored
    BY <2>1, <2>2 DEF ParentsOf
  <2>3. CASE selector[2] \notin Stored
    BY <2>3 DEF SameResult
  <2> QED
    BY <2>2, <2>3
<1>3. ASSUME NEW i \in DOMAIN flag.segments
      PROVE  SameForSegment(rs, ss, flag.segments[i])
  BY <1>1, <1>2 DEF SameForSegment
<1> QED
  BY <1>1, <1>3, EvaluationAgrees DEF flag

----------------------------------------------------------------------------
(* The evaluation of the sorted flags. *)

\* The flags evaluated so far.
Done == {result[j] : j \in 1..evaluated}

ParentResults(k) == [j \in ParentsOf(k) \cap DOMAIN results |-> results[j]]

\* A flag has the variant that the results of its dependencies give it.
IsReference(k) ==
    EvaluateFlag(context, ParentResults(k), flags[k])
        = IF k \in DOMAIN results THEN results[k] ELSE NoVariant

EvaluationInv ==
    /\ SortInv
    /\ rollout \in 0..MaxRollout /\ flags = FlagsAt(rollout)
    /\ outcome # "sorted" => user = NoUser
    /\ user = NoUser => evaluated = 0 /\ results = <<>>
    /\ evaluated \in 0..Len(result)
    /\ DOMAIN results \subseteq Done
    /\ \A k \in Done : IsReference(k)

\* The next state is one in which nothing has been evaluated.
LEMMA NothingEvaluated ==
  ASSUME evaluated' = 0, results' = <<>>, Len(result)' \in Nat
  PROVE  /\ evaluated' \in 0..Len(result)'
         /\ DOMAIN results' \subseteq Done'
         /\ \A k \in Done' : IsReference(k)'
<1>1. Done' = {} /\ DOMAIN results' = {}
  BY DEF Done
<1> QED
  BY <1>1

LEMMA EvaluationInvInit == EvaluationInit => EvaluationInv
<1> SUFFICES ASSUME EvaluationInit PROVE EvaluationInv
  OBVIOUS
<1>1. Done = {} /\ DOMAIN results = {} /\ Len(result) = 0
  BY DEF EvaluationInit, Init, Done
<1>2. 0 \in 0..MaxRollout
  BY DefinitionAssumption DEF DefinitionAssumption
<1> QED
  BY <1>1, <1>2, SortInit DEF EvaluationInv, EvaluationInit, Init

LEMMA SortStepEvaluation ==
  ASSUME EvaluationInv, SortStep
  PROVE  EvaluationInv'
<1>1. SortInv'
  BY SortKeeps DEF EvaluationInv, EvaluationNext
<1>2. outcome = "sorting" /\ user = NoUser
  BY DEF EvaluationInv, SortStep, Sort, Traverse, Visit, Visiting,
     FindCycle, Leave, Sorted
<1>3. evaluated' = 0 /\ results' = <<>>
  BY <1>2 DEF EvaluationInv, SortStep, evaluationVars
<1>4. Len(result)' \in Nat
  <2>1. CASE outcome' = "cycle"
    BY <1>1, <2>1 DEF SortInv
  <2>2. CASE outcome' # "cycle"
    BY <1>1, <2>2, LenProperties DEF SortInv, Progress, ResultIsSound
  <2> QED
    BY <2>1, <2>2
<1>5. FlagsAt(rollout)' = FlagsAt(rollout)
  BY DEF SortStep, Sort, Traverse, Visit, Visiting, FindCycle, Leave, Sorted,
     evaluationVars, FlagsAt, Stored
<1> QED
  BY <1>1, <1>2, <1>3, <1>4, <1>5, NothingEvaluated
  DEF EvaluationInv, SortStep, evaluationVars

LEMMA EnrichUserEvaluation ==
  ASSUME EvaluationInv, EnrichUser
  PROVE  EvaluationInv'
<1>1. SortInv'
  BY SortKeeps DEF EvaluationInv, EvaluationNext
<1>2. evaluated' = 0 /\ results' = <<>> /\ Len(result)' \in Nat
  BY LenProperties DEF EvaluationInv, EnrichUser, sortVars, SortInv, Progress,
     ResultIsSound
<1>3. FlagsAt(rollout)' = FlagsAt(rollout)
  BY DEF EnrichUser, sortVars, FlagsAt, Stored
<1> QED
  BY <1>1, <1>2, <1>3, NothingEvaluated DEF EvaluationInv, EnrichUser, sortVars

LEMMA RollOutEvaluation ==
  ASSUME EvaluationInv, RollOut
  PROVE  EvaluationInv'
<1>1. SortInv'
  BY SortKeeps DEF EvaluationInv, EvaluationNext
<1>2. outcome = "sorted"
  BY DEF EvaluationInv, RollOut, Evaluated
<1>3. evaluated' = 0 /\ results' = <<>> /\ Len(result)' \in Nat
  BY <1>2, LenProperties DEF EvaluationInv, RollOut, sortVars, SortInv,
     Progress, ResultIsSound
<1>4. rollout' \in 0..MaxRollout
  BY DefinitionAssumption DEF DefinitionAssumption, EvaluationInv, RollOut
<1>5. flags' = FlagsAt(rollout)'
  BY DEF RollOut, sortVars, FlagsAt, Stored
<1> QED
  BY <1>1, <1>2, <1>3, <1>4, <1>5, NothingEvaluated
  DEF EvaluationInv, RollOut, sortVars

\* The next flag is one that is not evaluated, of whose dependencies all are.
LEMMA NextFlag ==
  ASSUME EvaluationInv, Evaluate
  PROVE  LET k == result[evaluated + 1]
         IN  /\ k \in Stored /\ k \notin Done
             /\ \A j \in Done \cup {k} : ParentsOf(j) \subseteq Done
             /\ Done \subseteq Stored
             /\ Done' = Done \cup {k}
             /\ evaluated' \in 0..Len(result)
<1> DEFINE k == result[evaluated + 1]
           n == evaluated + 1
<1>1. ResultIsSound /\ outcome = "sorted"
  BY DEF EvaluationInv, Evaluate, SortInv, Progress
<1>2. /\ result \in Seq(Stored) /\ Len(result) \in Nat
      /\ DOMAIN result = 1..Len(result)
  BY <1>1, LenProperties DEF ResultIsSound
<1>3. evaluated \in Nat /\ n \in 1..Len(result) /\ n - 1 = evaluated
  BY <1>2 DEF EvaluationInv, Evaluate
<1>4. \A j \in 1..evaluated : j \in DOMAIN result /\ j # n
  BY <1>2, <1>3
<1>5. k \in Stored /\ Done \subseteq Stored
  BY <1>2, <1>3, <1>4, ElementOfSeq DEF Done
<1>6. k \notin Done
  BY <1>1, <1>2, <1>3, <1>4 DEF Done, ResultIsSound, DependenciesFirst
<1>7. ParentsOf(k) \subseteq Done
  BY <1>1, <1>2, <1>3 DEF Done, ResultIsSound, DependenciesFirst
<1>8. \A j \in Done : ParentsOf(j) \subseteq Done
  <2>1. n \in Nat /\ n <= Len(result) + 1 /\ Done = {result[j] : j \in 1..n-1}
    BY <1>2, <1>3 DEF Done
  <2> QED
    BY <1>1, <2>1, PrefixIsClosed
<1>9. Done' = Done \cup {k}
  <2>1. evaluated' = evaluated + 1 /\ result' = result
    BY DEF Evaluate, EvaluateNext, sortVars
  <2>2. 1..evaluated + 1 = (1..evaluated) \cup {evaluated + 1}
    BY <1>3
  <2>3. Done' = {result[j] : j \in 1..evaluated + 1}
    BY <2>1 DEF Done
  <2> QED
    BY <2>2, <2>3 DEF Done
<1>10. evaluated' \in 0..Len(result)
  BY <1>2, <1>3 DEF Evaluate, EvaluateNext
<1> QED
  BY <1>5, <1>6, <1>7, <1>8, <1>9, <1>10

LEMMA EvaluateEvaluation ==
  ASSUME EvaluationInv, Evaluate
  PROVE  EvaluationInv'
<1>1. PICK k : k = result[evaluated + 1]
  OBVIOUS
<1>2. PICK variant : variant = EvaluateFlag(context, results, flags[k])
  OBVIOUS
<1>3. /\ k \in Stored /\ k \notin Done
      /\ \A j \in Done \cup {k} : ParentsOf(j) \subseteq Done
      /\ Done \subseteq Stored
      /\ Done' = Done \cup {k}
      /\ evaluated' \in 0..Len(result)
  BY <1>1, NextFlag
<1>4. /\ results' = WithResult(results, k, variant)
      /\ UNCHANGED <<sortVars, flags, rollout, user, context>>
  BY <1>1, <1>2 DEF Evaluate, EvaluateNext
<1>5. /\ DOMAIN results \subseteq Done
      /\ dependencies \in Graphs /\ rollout \in 0..MaxRollout
      /\ flags = FlagsAt(rollout)
  BY DEF EvaluationInv, SortInv
<1>6. /\ user' # NoUser /\ outcome' = "sorted"
      /\ result' = result /\ dependencies' = dependencies
  BY <1>4 DEF EvaluationInv, Evaluate, sortVars
<1>7. /\ DOMAIN results' \subseteq Done \cup {k}
      /\ \A j \in Done : SameResult(results, results', j)
      /\ variant = IF k \in DOMAIN results' THEN results'[k] ELSE NoVariant
  <2>1. CASE variant = NoVariant
    BY <1>3, <1>4, <1>5, <2>1 DEF WithResult, SameResult
  <2>2. CASE variant # NoVariant
    <3>1. results' = [j \in DOMAIN results \cup {k} |->
                        IF j = k THEN variant ELSE results[j]]
      BY <1>4, <2>2 DEF WithResult
    <3> QED
      BY <1>3, <1>5, <3>1 DEF SameResult
  <2> QED
    BY <2>1, <2>2
<1>8. IsReference(k)'
  <2>1. \A j \in ParentsOf(k) : SameResult(results, ParentResults(k)', j)
    BY <1>3, <1>6, <1>7, GraphStays DEF SameResult, ParentResults, ParentsOf,
       Stored
  <2>2. /\ DOMAIN ParentResults(k)' \subseteq Stored
        /\ DOMAIN results \subseteq Stored
    BY <1>3, <1>5, <1>6 DEF ParentResults, ParentsOf, Stored
  <2>3. flags[k] = Definition(k, dependencies[k], rollout)
    BY <1>3, <1>5 DEF FlagsAt
  <2> HIDE DEF ParentResults
  <2>4. EvaluateFlag(context, ParentResults(k)', flags[k]) = variant
    BY <1>2, <1>3, <1>5, <2>1, <2>2, <2>3, LooksAtDependencies
  <2> QED
    BY <1>4, <1>7, <2>4 DEF IsReference
<1>9. ASSUME NEW j \in Done PROVE IsReference(j)'
  <2>1. ParentResults(j)' = ParentResults(j)
    BY <1>3, <1>6, <1>7 DEF ParentResults, SameResult, ParentsOf, Stored
  <2> QED
    BY <1>4, <1>7, <1>9, <2>1 DEF IsReference, SameResult, EvaluationInv
<1>10. SortInv'
  BY SortKeeps DEF EvaluationInv, EvaluationNext
<1>11. FlagsAt(rollout)' = FlagsAt(rollout)
  BY <1>4, <1>6 DEF FlagsAt, Stored
<1> QED
  BY <1>3, <1>4, <1>5, <1>6, <1>7, <1>8, <1>9, <1>10, <1>11 DEF EvaluationInv

LEMMA EvaluationInvNext ==
  ASSUME EvaluationInv, [EvaluationNext]_allVars
  PROVE  EvaluationInv'
<1>1. CASE EvaluationNext
  BY <1>1, SortStepEvaluation, EnrichUserEvaluation, EvaluateEvaluation,
     RollOutEvaluation DEF EvaluationNext
<1>2. CASE UNCHANGED allVars
  <2>1. SortInv'
    BY SortKeeps DEF EvaluationInv
  <2> QED
    BY <1>2, <2>1 DEF EvaluationInv, allVars, sortVars, evaluationVars,
       FlagsAt, Stored, Done, IsReference, ParentResults, ParentsOf
<1> QED
  BY <1>1, <1>2

LEMMA EvaluationInvIsEnough == EvaluationInv => EvaluationIsReference
<1> SUFFICES ASSUME EvaluationInv, Evaluated
             PROVE  /\ DOMAIN results \subseteq Required
                    /\ \A k \in Required : IsReference(k)
  BY DEF EvaluationIsReference, IsReference, ParentResults
<1>1. outcome = "sorted" /\ evaluated = Len(result)
  BY DEF EvaluationInv, Evaluated
<1>2. ToSet(result) = Required
  BY <1>1, SortedIsExact DEF EvaluationInv
<1>3. Done = ToSet(result)
  BY <1>1, LenProperties DEF Done, ToSet, EvaluationInv, SortInv, Progress,
     ResultIsSound
<1> QED
  BY <1>2, <1>3 DEF EvaluationInv

\* Whatever the flags, the user, the cohorts and the flags asked for: when
\* EvaluateV2 has evaluated the sorted flags, each has the variant that the
\* final variants of the flags it depends on give it, so that the order in
\* which Go visits a map of flags makes no difference.
THEOREM EvaluationIsReferenceAlways == EvaluationSpec => []EvaluationIsReference
<1>1. EvaluationInit => EvaluationInv
  BY EvaluationInvInit
<1>2. EvaluationInv /\ [EvaluationNext]_allVars => EvaluationInv'
  BY EvaluationInvNext
<1>3. EvaluationInv => EvaluationIsReference
  BY EvaluationInvIsEnough
<1> QED
  BY <1>1, <1>2, <1>3, PTL DEF EvaluationSpec

----------------------------------------------------------------------------
(* What the widening of a rollout leaves alone.  (Go's hash is a uint32;    *)
(* all that matters here is that its remainder modulo 100 is below 100.)    *)

HashesAreNumbers == \A salt, text : Hash(salt, text) \in Nat

\* The places that claim a value still do, and no other does.
LEMMA ClaimsStay ==
  ASSUME HashesAreNumbers, NEW old, NEW new, NEW value,
         BucketWidens(old, new), ClaimsOf(old, value) # {}
  PROVE  ClaimsOf(new, value) = ClaimsOf(old, value)
<1> DEFINE hash == Hash(old.salt, TextOf(value))
           n    == hash % 100
           Drawn(h) == InRange(hash \div 100,
                               old.allocations[h[1]].distributions[h[2]].range)
<1>1. Places(new) = Places(old)
  BY DEF Places, BucketWidens
<1>2. \A h \in Places(old) : h[1] \in DOMAIN old.allocations
  BY DEF Places
<1>3. n \in 0..99
  <2>1. hash \in Nat
    BY DEF HashesAreNumbers
  <2> HIDE DEF hash
  <2> QED
    BY <2>1
<1> HIDE DEF n
<1>4. PICK h \in Places(old) :
        /\ value.kind # "null" /\ TextOf(value) # ""
        /\ InRange(n, old.allocations[h[1]].range)
  BY DEF ClaimsOf, n
<1>5. InRange(n, new.allocations[h[1]].range)
  BY <1>2, <1>3, <1>4 DEF BucketWidens
<1>6. ASSUME NEW g \in Places(old)
      PROVE  /\ InRange(n, old.allocations[g[1]].range) <=> g[1] = h[1]
             /\ InRange(n, new.allocations[g[1]].range) <=> g[1] = h[1]
  <2>1. InRange(n, new.allocations[g[1]].range) => g[1] = h[1]
    BY <1>2, <1>3, <1>4, <1>5 DEF BucketWidens
  <2>2. InRange(n, old.allocations[g[1]].range)
            => InRange(n, new.allocations[g[1]].range)
    BY <1>2, <1>3 DEF BucketWidens
  <2> QED
    BY <2>1, <2>2, <1>4, <1>5
<1>7. ClaimsOf(old, value) = {g \in Places(old) : g[1] = h[1] /\ Drawn(g)}
  BY <1>4, <1>6 DEF ClaimsOf, n
<1>8. ClaimsOf(new, value) = {g \in Places(old) : g[1] = h[1] /\ Drawn(g)}
  <2>1. /\ new.salt = old.salt
        /\ \A g \in Places(old) : new.allocations[g[1]].distributions
                                    = old.allocations[g[1]].distributions
    BY <1>2 DEF BucketWidens
  <2> QED
    BY <1>1, <1>4, <1>6, <2>1 DEF ClaimsOf, n
<1> QED
  BY <1>7, <1>8

\* Of a set of places one is the first.
LEMMA FirstPlace ==
  ASSUME NEW S \in SUBSET (Nat \X Nat), S # {}
  PROVE  \E h \in S : \A g \in S : h[1] < g[1] \/ (h[1] = g[1] /\ h[2] <= g[2])
<1>1. PICK i \in {h[1] : h \in S} : \A j \in {h[1] : h \in S} : i <= j
  <2>1. {h[1] : h \in S} \in SUBSET Nat /\ {h[1] : h \in S} # {}
    OBVIOUS
  <2> QED
    BY <2>1, LeastNatural
<1> DEFINE T == {h \in S : h[1] = i}
<1>2. PICK m \in {h[2] : h \in T} : \A n \in {h[2] : h \in T} : m <= n
  <2>1. {h[2] : h \in T} \in SUBSET Nat /\ {h[2] : h \in T} # {}
    OBVIOUS
  <2> QED
    BY <2>1, LeastNatural
<1>3. PICK h \in S : h[1] = i /\ h[2] = m
  OBVIOUS
<1>4. ASSUME NEW g \in S PROVE h[1] < g[1] \/ (h[1] = g[1] /\ h[2] <= g[2])
  <2>1. /\ h[1] \in Nat /\ g[1] \in Nat /\ h[2] \in Nat /\ g[2] \in Nat
        /\ h[1] <= g[1]
    BY <1>1, <1>3
  <2>2. g[1] = i => h[2] <= g[2]
    BY <1>2, <1>3
  <2> QED
    BY <1>3, <2>1, <2>2
<1> QED
  BY <1>4

\* Allocations and distributions are lists.
BucketIsListed(b) ==
    /\ IsListed(b.allocations)
    /\ \A i \in DOMAIN b.allocations : IsListed(b.allocations[i].distributions)

\* A segment that claims the user, or has nothing to claim users with, gives
\* the same variant as before.
LEMMA BucketStays ==
  ASSUME HashesAreNumbers, NEW c, NEW rs, NEW old, NEW new,
         SegmentWidens(old, new), BucketIsListed(old.bucket),
         Hits(c, rs, old) # {} \/ Places(old.bucket) = {}
  PROVE  Bucket(c, rs, new) = Bucket(c, rs, old)
<1> DEFINE value == Select(c, rs, old.bucket.selector)
<1>1. /\ Hits(c, rs, old) = ClaimsOf(old.bucket, value)
      /\ Hits(c, rs, new) = ClaimsOf(new.bucket, value)
  BY DEF Hits, ClaimsOf, SegmentWidens, BucketWidens
<1> HIDE DEF value
<1>2. Hits(c, rs, new) = Hits(c, rs, old)
  <2>1. CASE Hits(c, rs, old) # {}
    BY <1>1, <2>1, ClaimsStay DEF SegmentWidens
  <2>2. CASE Places(old.bucket) = {}
    <3>1. Places(new.bucket) = {}
      BY <2>2 DEF Places, SegmentWidens, BucketWidens
    <3> QED
      BY <1>1, <2>2, <3>1 DEF ClaimsOf
  <2> QED
    BY <2>1, <2>2
<1> DEFINE first == CHOOSE h \in Hits(c, rs, old) : \A g \in Hits(c, rs, old) :
                        h[1] < g[1] \/ (h[1] = g[1] /\ h[2] <= g[2])
<1>3. Bucket(c, rs, old)
        = IF Hits(c, rs, old) = {} THEN old.variant
          ELSE old.bucket.allocations[first[1]]
                         .distributions[first[2]].variant
  BY DEF Bucket
<1>4. Bucket(c, rs, new)
        = IF Hits(c, rs, old) = {} THEN new.variant
          ELSE new.bucket.allocations[first[1]]
                         .distributions[first[2]].variant
  BY <1>2 DEF Bucket
<1>5. Hits(c, rs, old) # {} => first[1] \in DOMAIN old.bucket.allocations
  <2>1. \A h \in Hits(c, rs, old) : /\ h[1] \in DOMAIN old.bucket.allocations
                                    /\ h \in Nat \X Nat
    <3>1. \A h \in Hits(c, rs, old) : h \in Places(old.bucket)
      BY DEF Hits
    <3>2. ASSUME NEW b, BucketIsListed(b), NEW h \in Places(b)
          PROVE  h[1] \in DOMAIN b.allocations /\ h \in Nat \X Nat
      BY <3>2 DEF Places, BucketIsListed, IsListed
    <3> QED
      BY <3>1, <3>2
  <2>2. Hits(c, rs, old) \in SUBSET (Nat \X Nat)
    BY <2>1
  <2>3. Hits(c, rs, old) # {} => first \in Hits(c, rs, old)
    BY <2>2, FirstPlace
  <2> QED
    BY <2>1, <2>3
<1> HIDE DEF first
<1>6. Hits(c, rs, old) # {} =>
        new.bucket.allocations[first[1]].distributions
            = old.bucket.allocations[first[1]].distributions
  BY <1>5 DEF SegmentWidens, BucketWidens
<1> QED
  BY <1>3, <1>4, <1>6 DEF SegmentWidens

LEMMA EvaluationStays ==
  ASSUME HashesAreNumbers, NEW c, NEW rs, NEW old, NEW new, Widens(old, new),
         IsListed(old.segments),
         \A i \in DOMAIN old.segments : BucketIsListed(old.segments[i].bucket),
         DecidingSegment(c, rs, old) # 0,
         Hits(c, rs, old.segments[DecidingSegment(c, rs, old)]) # {}
  PROVE  /\ EvaluateFlag(c, rs, new) = EvaluateFlag(c, rs, old)
         /\ EvaluateFlag(c, rs, old) # NoVariant
<1> DEFINE i == DecidingSegment(c, rs, old)
<1>1. /\ DecidingSegment(c, rs, old) = FirstOf(Deciding(c, rs, old))
      /\ DecidingSegment(c, rs, new) = FirstOf(Deciding(c, rs, new))
  BY DEF DecidingSegment, FirstOf, Deciding
<1>2. i \in DOMAIN old.segments /\ i \in Deciding(c, rs, old)
  <2>1. Deciding(c, rs, old) \in SUBSET Nat
    BY DEF Deciding, IsListed
  <2>2. Deciding(c, rs, old) # {}
    BY <1>1 DEF FirstOf
  <2>3. \E j \in Deciding(c, rs, old) : \A m \in Deciding(c, rs, old) : j <= m
    BY <2>1, <2>2, LeastNatural
  <2>4. i \in Deciding(c, rs, old)
    BY <1>1, <2>2, <2>3 DEF FirstOf
  <2> QED
    BY <2>4 DEF Deciding
<1>3. Places(old.segments[i].bucket) # {}
  BY DEF Hits
<1>4. Hits(c, rs, old.segments[i]) # {}
  OBVIOUS
<1> HIDE DEF i
<1>5. ASSUME NEW j \in DOMAIN old.segments
      PROVE  /\ Bucket(c, rs, new.segments[j]) = Bucket(c, rs, old.segments[j])
             /\ SegmentMatches(c, rs, new.segments[j])
                    <=> SegmentMatches(c, rs, old.segments[j])
  <2>1. SegmentWidens(old.segments[j], new.segments[j])
    BY DEF Widens
  <2>2. j = i \/ Places(old.segments[j].bucket) = {}
    BY <1>2, <1>3 DEF Widens
  <2>3. Bucket(c, rs, new.segments[j]) = Bucket(c, rs, old.segments[j])
    BY <1>4, <2>1, <2>2, BucketStays
  <2>4. SegmentMatches(c, rs, new.segments[j])
            <=> SegmentMatches(c, rs, old.segments[j])
    BY <2>1 DEF SegmentMatches, SegmentWidens
  <2> QED
    BY <2>3, <2>4
<1>6. Deciding(c, rs, new) = Deciding(c, rs, old)
  BY <1>5 DEF Deciding, Widens
<1>7. DecidingSegment(c, rs, new) = i
  BY <1>1, <1>6 DEF i
<1>8. /\ EvaluateFlag(c, rs, new) = Bucket(c, rs, new.segments[i])
      /\ EvaluateFlag(c, rs, old) = Bucket(c, rs, old.segments[i])
  BY <1>7 DEF EvaluateFlag, i
<1>9. Bucket(c, rs, old.segments[i]) # NoVariant
  BY <1>2 DEF Deciding, Widens
<1> QED
  BY <1>2, <1>5, <1>8, <1>9

\* The cohorts that a user is given depend on the conditions of the flags.
SameConditions(f, g, K) ==
    \A k \in K :
        /\ DOMAIN f[k].segments = DOMAIN g[k].segments
        /\ \A i \in DOMAIN f[k].segments :
            f[k].segments[i].conditions = g[k].segments[i].conditions

LEMMA FiltersOfConditions ==
  ASSUME NEW s, NEW t, s.conditions = t.conditions, NEW type
  PROVE  Filters(s, type) = Filters(t, type)
BY DEF Filters, ConditionAt

LEMMA CohortsOfSegment ==
  ASSUME NEW s, NEW t, s.conditions = t.conditions, NEW type
  PROVE  SegmentCohorts(s, type) = SegmentCohorts(t, type)
<1>1. Filters(s, type) = Filters(t, type)
  BY FiltersOfConditions
<1>2. \A p : ConditionAt(s, p) = ConditionAt(t, p)
  BY DEF ConditionAt
<1> QED
  BY <1>1, <1>2 DEF SegmentCohorts

LEMMA SegmentsCorrespond ==
  ASSUME NEW f, NEW g, NEW K, SameConditions(f, g, K),
         NEW F, \A x \in F : \E k \in K : x = f[k],
         NEW G, \A k \in K : g[k] \in G,
         NEW s \in SegmentsOf(F)
  PROVE  \E t \in SegmentsOf(G) : s.conditions = t.conditions
<1>1. PICK k \in K : \E i \in DOMAIN f[k].segments : s = f[k].segments[i]
  BY DEF SegmentsOf
<1>2. PICK i \in DOMAIN f[k].segments : s = f[k].segments[i]
  BY <1>1
<1>3. /\ i \in DOMAIN g[k].segments
      /\ s.conditions = g[k].segments[i].conditions
  BY <1>2 DEF SameConditions
<1>4. g[k].segments[i] \in SegmentsOf(G)
  BY <1>3 DEF SegmentsOf
<1> QED
  BY <1>3, <1>4

LEMMA CohortsOfConditions ==
  ASSUME NEW F, NEW G, NEW type,
         \A s \in SegmentsOf(F) : \E t \in SegmentsOf(G) :
            s.conditions = t.conditions,
         \A s \in SegmentsOf(G) : \E t \in SegmentsOf(F) :
            s.conditions = t.conditions
  PROVE  /\ FlagCohorts(F, type) = FlagCohorts(G, type)
         /\ HasFilters(F, type) <=> HasFilters(G, type)
<1>1. \A s, t : s.conditions = t.conditions
                    => Filters(s, type) = Filters(t, type)
  BY FiltersOfConditions
<1>2. \A s, t : s.conditions = t.conditions
                    => SegmentCohorts(s, type) = SegmentCohorts(t, type)
  BY CohortsOfSegment
<1>3. FlagCohorts(F, type) = FlagCohorts(G, type)
  BY <1>2 DEF FlagCohorts
<1>4. HasFilters(F, type) <=> HasFilters(G, type)
  BY <1>1 DEF HasFilters
<1> QED
  BY <1>3, <1>4

\* UserToContext, of the cohorts of the user and of its groups.
GroupEntries(u, flagSet, storage) ==
    {<<<<"context", "groups", g, "cohort_ids">>,
       List("strings", GroupCohorts(u, g, flagSet, storage))>> :
        g \in {h \in DOMAIN u.groups :
                    u.groups[h] # "" /\ HasFilters(flagSet, h)}}

Entries(u, cohorts, groupEntries) ==
    {<<<<"context", "user", "user_id">>, Text(u.id)>> : x \in {u.id} \ {""}}
    \cup {<<<<"context", "user", p>>, Text(u.properties[p])>> :
            p \in {q \in DOMAIN u.properties : u.properties[q] # ""}}
    \cup {<<<<"context", "user", "cohort_ids">>, List("strings", x)>> :
            x \in {cohorts} \ {{}}}
    \cup {<<<<"context", "groups", g, "group_name">>, Text(u.groups[g])>> :
            g \in DOMAIN u.groups}
    \cup groupEntries

MapOf(entries) ==
    [path \in {e[1] : e \in entries} |->
        (CHOOSE e \in entries : e[1] = path)[2]]

LEMMA ContextIsMap ==
  ASSUME NEW u, NEW F, NEW storage
  PROVE  UserToContext(u, F, storage)
            = MapOf(Entries(u, UserCohorts(u, F, storage),
                            GroupEntries(u, F, storage)))
BY DEF UserToContext, GroupEntries, Entries, MapOf

LEMMA ContextOfConditions ==
  ASSUME NEW f, NEW g, NEW K, SameConditions(f, g, K), NEW u, NEW storage
  PROVE  UserToContext(u, {f[k] : k \in K}, storage)
            = UserToContext(u, {g[k] : k \in K}, storage)
<1>1. PICK F, G : F = {f[k] : k \in K} /\ G = {g[k] : k \in K}
  OBVIOUS
<1>2. SameConditions(g, f, K)
  BY DEF SameConditions
<1>3. \A type : /\ FlagCohorts(F, type) = FlagCohorts(G, type)
                /\ HasFilters(F, type) <=> HasFilters(G, type)
  <2>1. /\ \A s \in SegmentsOf(F) : \E t \in SegmentsOf(G) :
                s.conditions = t.conditions
        /\ \A s \in SegmentsOf(G) : \E t \in SegmentsOf(F) :
                s.conditions = t.conditions
    <3>1. /\ \A x \in F : \E k \in K : x = f[k]
          /\ \A k \in K : f[k] \in F
          /\ \A x \in G : \E k \in K : x = g[k]
          /\ \A k \in K : g[k] \in G
      BY <1>1
    <3>2. \A s \in SegmentsOf(F) : \E t \in SegmentsOf(G) :
                s.conditions = t.conditions
      BY <3>1, SegmentsCorrespond
    <3>3. \A s \in SegmentsOf(G) : \E t \in SegmentsOf(F) :
                s.conditions = t.conditions
      BY <1>2, <3>1, SegmentsCorrespond
    <3> QED
      BY <3>2, <3>3
  <2> QED
    BY <2>1, CohortsOfConditions
<1>4. UserCohorts(u, F, storage) = UserCohorts(u, G, storage)
  BY <1>3 DEF UserCohorts
<1>5. \A type : GroupCohorts(u, type, F, storage)
                    = GroupCohorts(u, type, G, storage)
  BY <1>3 DEF GroupCohorts
<1>6. GroupEntries(u, F, storage) = GroupEntries(u, G, storage)
  <2>1. {h \in DOMAIN u.groups : u.groups[h] # "" /\ HasFilters(F, h)}
            = {h \in DOMAIN u.groups : u.groups[h] # "" /\ HasFilters(G, h)}
    BY <1>3
  <2> QED
    BY <1>5, <2>1 DEF GroupEntries
<1> QED
  BY <1>1, <1>4, <1>6, ContextIsMap

----------------------------------------------------------------------------
(* The results of before the last widening.                                *)

VariantBefore(k) == IF k \in DOMAIN before THEN before[k] ELSE NoVariant

\* The context is what the stored flags and the user make it, and what was
\* decided for a flag without dependencies is still known.
WideningInv ==
    /\ EvaluationInv
    /\ rollout > 0 => user # NoUser
    /\ user # NoUser =>
        context = UserToContext(user, {flags[k] : k \in Stored}, Storage)
    /\ rollout > 0 =>
        \A k \in Required : dependencies[k] = <<>> =>
            EvaluateFlag(context, <<>>,
                         Definition(k, dependencies[k], rollout - 1))
                = VariantBefore(k)

LEMMA WideningInit == EvaluationInit => WideningInv
<1> SUFFICES ASSUME EvaluationInit PROVE WideningInv
  OBVIOUS
<1>1. EvaluationInv
  BY EvaluationInvInit
<1>2. user = NoUser /\ rollout = 0 /\ ~(rollout > 0)
  BY DEF EvaluationInit
<1> QED
  BY <1>1, <1>2 DEF WideningInv

\* Nothing that the facts about the last widening speak of changes.
LEMMA WideningUntouched ==
  ASSUME WideningInv, EvaluationInv',
         UNCHANGED <<dependencies, starting, user, rollout, flags, context,
                     before>>
  PROVE  WideningInv'
<1>1. Stored' = Stored /\ Required' = Required
  BY GraphStays DEF Stored
<1>2. {flags[k] : k \in Stored}' = {flags[k] : k \in Stored}
  BY <1>1
<1>3. \A k : VariantBefore(k)' = VariantBefore(k)
  BY DEF VariantBefore
<1> QED
  BY <1>1, <1>2, <1>3 DEF WideningInv

LEMMA EnrichUserWidening ==
  ASSUME WideningInv, EvaluationInv', EnrichUser
  PROVE  WideningInv'
<1>1. user = NoUser /\ ~(rollout > 0)
  BY DEF WideningInv, EnrichUser
<1>2. ~(rollout' > 0)
  BY <1>1 DEF EnrichUser
<1>3. {flags[k] : k \in Stored}' = {flags[k] : k \in Stored}
  BY DEF EnrichUser, sortVars, Stored
<1>4. context' = UserToContext(user, {flags[k] : k \in Stored}, Storage)'
  BY <1>3 DEF EnrichUser
<1> QED
  BY <1>2, <1>4 DEF WideningInv

\* A flag without dependencies has no results to look at.
LEMMA NoDependencies ==
  ASSUME NEW k \in Stored, dependencies[k] = <<>>
  PROVE  ParentResults(k) = <<>>
<1>1. ParentsOf(k) = {}
  BY NoParents
<1> QED
  BY <1>1 DEF ParentResults

LEMMA RollOutWidening ==
  ASSUME WideningInv, EvaluationInv', RollOut
  PROVE  WideningInv'
<1>1. /\ EvaluationInv /\ user # NoUser /\ Evaluated
      /\ rollout < MaxRollout /\ rollout' = rollout + 1
      /\ flags' = FlagsAt(rollout')
      /\ context' = UserToContext(user, {flags'[k] : k \in Stored}, Storage)
      /\ before' = results /\ user' = user
      /\ UNCHANGED sortVars
  BY DEF WideningInv, RollOut, Evaluated
<1>2. /\ Stored' = Stored /\ Required' = Required
      /\ dependencies' = dependencies
  BY <1>1, GraphStays DEF sortVars, Stored
<1>3. /\ rollout \in 0..MaxRollout /\ MaxRollout \in Nat
      /\ flags = FlagsAt(rollout) /\ dependencies \in Graphs
  BY <1>1, DefinitionAssumption
  DEF DefinitionAssumption, EvaluationInv, SortInv
<1>4. /\ rollout + 1 \in 1..MaxRollout /\ (rollout + 1) - 1 = rollout
      /\ rollout' - 1 = rollout
  BY <1>1, <1>3
<1>5. context' = context
  <2>1. ASSUME NEW k \in Stored
        PROVE  Widens(flags[k], flags'[k])
    <3>1. /\ flags[k] = Definition(k, dependencies[k], (rollout + 1) - 1)
          /\ flags'[k] = Definition(k, dependencies[k], rollout + 1)
      BY <1>1, <1>3, <1>4 DEF FlagsAt
    <3> QED
      BY <1>3, <1>4, <3>1, WideningAssumption DEF WideningAssumption, Stored
  <2>2. SameConditions(flags', flags, Stored)
    BY <2>1 DEF SameConditions, Widens, SegmentWidens
  <2>3. UserToContext(user, {flags'[k] : k \in Stored}, Storage)
            = UserToContext(user, {flags[k] : k \in Stored}, Storage)
    BY <2>2, ContextOfConditions
  <2> QED
    BY <1>1, <2>3 DEF WideningInv
<1>6. context' = UserToContext(user, {flags[k] : k \in Stored}, Storage)'
  BY <1>1, <1>2
<1>7. ASSUME NEW k \in Required, dependencies[k] = <<>>
      PROVE  EvaluateFlag(context, <<>>,
                          Definition(k, dependencies[k], rollout))
                = VariantBefore(k)'
  <2>1. k \in Stored
    BY ClosureIsStored DEF Required
  <2>2. ParentResults(k) = <<>>
    BY <1>7, <2>1, NoDependencies
  <2>3. IsReference(k)
    BY <1>1, EvaluationInvIsEnough
    DEF EvaluationIsReference, IsReference, ParentResults
  <2> QED
    BY <1>1, <1>3, <2>1, <2>2, <2>3
    DEF IsReference, VariantBefore, FlagsAt
<1> QED
  BY <1>1, <1>2, <1>4, <1>5, <1>6, <1>7 DEF WideningInv

LEMMA WideningNext ==
  ASSUME WideningInv, [EvaluationNext]_allVars
  PROVE  WideningInv'
<1>1. EvaluationInv'
  BY EvaluationInvNext DEF WideningInv
<1>2. CASE SortStep
  BY <1>1, <1>2, WideningUntouched
  DEF SortStep, Sort, Traverse, Visit, Visiting, FindCycle, Leave, Sorted,
      evaluationVars
<1>3. CASE EnrichUser
  BY <1>1, <1>3, EnrichUserWidening
<1>4. CASE Evaluate
  BY <1>1, <1>4, WideningUntouched DEF Evaluate, EvaluateNext, sortVars
<1>5. CASE RollOut
  BY <1>1, <1>5, RollOutWidening
<1>6. CASE UNCHANGED allVars
  BY <1>1, <1>6, WideningUntouched DEF allVars, sortVars, evaluationVars
<1> QED
  BY <1>2, <1>3, <1>4, <1>5, <1>6 DEF EvaluationNext

LEMMA WideningInvIsEnough ==
  ASSUME HashesAreNumbers, WideningInv
  PROVE  RolloutIsSticky
<1> SUFFICES ASSUME Evaluated, rollout > 0, NEW k \in Required,
                    NEW old, old = Definition(k, dependencies[k], rollout - 1),
                    NEW i, i = DecidingSegment(context, <<>>, old),
                    dependencies[k] = <<>>, i # 0,
                    Hits(context, <<>>, old.segments[i]) # {}
             PROVE  results[k] = before[k]
  BY DEF RolloutIsSticky
<1>1. /\ rollout \in 1..MaxRollout /\ rollout - 1 \in 0..MaxRollout
      /\ flags = FlagsAt(rollout) /\ dependencies \in Graphs
      /\ k \in Stored
  BY DefinitionAssumption, ClosureIsStored
  DEF DefinitionAssumption, WideningInv, EvaluationInv, SortInv, Required
<1>2. flags[k] = Definition(k, dependencies[k], rollout)
  BY <1>1 DEF FlagsAt
<1>3. Widens(old, flags[k])
  BY <1>1, <1>2, WideningAssumption DEF WideningAssumption, Stored
<1>4. /\ IsListed(old.segments)
      /\ \A j \in DOMAIN old.segments : BucketIsListed(old.segments[j].bucket)
  BY <1>1, DefinitionAssumption
  DEF DefinitionAssumption, Stored, SegmentIsSound, BucketIsListed
<1>5. /\ EvaluateFlag(context, <<>>, flags[k])
            = EvaluateFlag(context, <<>>, old)
      /\ EvaluateFlag(context, <<>>, old) # NoVariant
  BY <1>3, <1>4, EvaluationStays
<1>6. EvaluateFlag(context, <<>>, old) = VariantBefore(k)
  BY DEF WideningInv
<1>7. EvaluateFlag(context, <<>>, flags[k])
        = IF k \in DOMAIN results THEN results[k] ELSE NoVariant
  <2>1. ParentResults(k) = <<>>
    BY <1>1, NoDependencies
  <2>2. IsReference(k)
    BY EvaluationInvIsEnough
    DEF EvaluationIsReference, IsReference, ParentResults, WideningInv
  <2> QED
    BY <2>1, <2>2 DEF IsReference
<1> QED
  BY <1>5, <1>6, <1>7 DEF VariantBefore

\* Whatever the flags, conditions, hashes and users: a user whom an allocation
\* of a flag without dependencies claimed keeps the variant when the server
\* widens the allocations of the flag, and of all other flags, once more.
THEOREM RolloutIsStickyAlways ==
  ASSUME HashesAreNumbers
  PROVE  EvaluationSpec => []RolloutIsSticky
<1>1. EvaluationInit => WideningInv
  BY WideningInit
<1>2. WideningInv /\ [EvaluationNext]_allVars => WideningInv'
  BY WideningNext
<1>3. WideningInv => RolloutIsSticky
  BY WideningInvIsEnough
<1> QED
  BY <1>1, <1>2, <1>3, PTL DEF EvaluationSpec

----------------------------------------------------------------------------
(* Cohort filters and memberships.                                         *)

UserPath     == <<"context", "user", "cohort_ids">>
GroupPath(g) == <<"context", "groups", g, "cohort_ids">>

LEMMA PathsDiffer ==
    /\ \A g : GroupPath(g) # UserPath
    /\ \A g, h : GroupPath(g) = GroupPath(h) => g = h
    /\ \A p : <<"context", "user", p>> = UserPath => p = "cohort_ids"
    /\ \A p, g : <<"context", "user", p>> # GroupPath(g)
    /\ \A g : <<"context", "groups", g, "group_name">> # UserPath
    /\ \A g, h : <<"context", "groups", g, "group_name">> # GroupPath(h)
BY DEF UserPath, GroupPath

LEMMA Pairs == \A a, b : <<a, b>>[1] = a /\ <<a, b>>[2] = b
  OBVIOUS

\* The only entry on a path is the one that the map holds there.
LEMMA MapHolds ==
  ASSUME NEW entries, NEW path, NEW value,
         <<path, value>> \in entries,
         \A e \in entries : e[1] = path => e = <<path, value>>
  PROVE  path \in DOMAIN MapOf(entries) /\ MapOf(entries)[path] = value
<1>1. path \in {e[1] : e \in entries}
  OBVIOUS
<1>2. (CHOOSE e \in entries : e[1] = path) = <<path, value>>
  OBVIOUS
<1> QED
  BY <1>1, <1>2 DEF MapOf

LEMMA MapLacks ==
  ASSUME NEW entries, NEW path, \A e \in entries : e[1] # path
  PROVE  path \notin DOMAIN MapOf(entries)
BY DEF MapOf

\* Only the cohorts are filed under these paths.
LEMMA EntryPaths ==
  ASSUME NEW u, NEW cohorts, NEW groups, NEW e \in Entries(u, cohorts, groups)
  PROVE  \/ e[1] = <<"context", "user", "user_id">>
         \/ \E p \in DOMAIN u.properties : e[1] = <<"context", "user", p>>
         \/ cohorts # {} /\ e = <<UserPath, List("strings", cohorts)>>
         \/ \E g : e[1] = <<"context", "groups", g, "group_name">>
         \/ e \in groups
<1>1. CASE e \in {<<<<"context", "user", "user_id">>, Text(u.id)>> :
                    x \in {u.id} \ {""}}
  <2>1. e = <<<<"context", "user", "user_id">>, Text(u.id)>>
    BY <1>1
  <2> QED
    BY <2>1, Pairs
<1>2. CASE e \in {<<<<"context", "user", p>>, Text(u.properties[p])>> :
                    p \in {q \in DOMAIN u.properties : u.properties[q] # ""}}
  <2>1. PICK p \in DOMAIN u.properties :
            e = <<<<"context", "user", p>>, Text(u.properties[p])>>
    BY <1>2
  <2>2. e[1] = <<"context", "user", p>>
    BY <2>1, Pairs
  <2> QED
    BY <2>2
<1>3. CASE e \in {<<<<"context", "user", "cohort_ids">>, List("strings", x)>> :
                    x \in {cohorts} \ {{}}}
  BY <1>3 DEF UserPath
<1>4. CASE e \in {<<<<"context", "groups", g, "group_name">>,
                    Text(u.groups[g])>> : g \in DOMAIN u.groups}
  BY <1>4
<1> QED
  BY <1>1, <1>2, <1>3, <1>4 DEF Entries

GroupEntryOf(u, g, F, storage) ==
    <<GroupPath(g), List("strings", GroupCohorts(u, g, F, storage))>>

\* Is the entry there at all?
HasEntry(u, g, F) ==
    g \in DOMAIN u.groups /\ u.groups[g] # "" /\ HasFilters(F, g)

LEMMA GroupEntryPaths ==
  ASSUME NEW u, NEW F, NEW storage, NEW e
  PROVE  e \in GroupEntries(u, F, storage) <=>
            \E g : HasEntry(u, g, F) /\ e = GroupEntryOf(u, g, F, storage)
BY DEF GroupEntries, GroupPath, HasEntry, GroupEntryOf

LEMMA GroupEntryPath ==
  ASSUME NEW u, NEW F, NEW storage, NEW g
  PROVE  GroupEntryOf(u, g, F, storage)[1] = GroupPath(g)
BY DEF GroupEntryOf

\* What UserToContext makes of the cohorts of the user and of a group.
LEMMA UserEntry ==
  ASSUME NEW u, "cohort_ids" \notin DOMAIN u.properties, NEW F, NEW storage
  PROVE  LET held    == UserToContext(u, F, storage)
             cohorts == UserCohorts(u, F, storage)
         IN  /\ UserPath \in DOMAIN held <=> cohorts # {}
             /\ cohorts # {} => held[UserPath] = List("strings", cohorts)
<1>1. PICK cohorts, groups, entries :
        /\ cohorts = UserCohorts(u, F, storage)
        /\ groups = GroupEntries(u, F, storage)
        /\ entries = Entries(u, cohorts, groups)
  OBVIOUS
<1>2. UserToContext(u, F, storage) = MapOf(entries)
  BY <1>1, ContextIsMap
<1>3. ASSUME NEW e \in entries, e[1] = UserPath
      PROVE  cohorts # {} /\ e = <<UserPath, List("strings", cohorts)>>
  <2>1. e \notin groups
    <3>1. SUFFICES ASSUME e \in groups PROVE FALSE
      OBVIOUS
    <3>2. \E g : e = GroupEntryOf(u, g, F, storage)
      BY <1>1, <3>1, GroupEntryPaths
    <3>3. \E g : e[1] = GroupPath(g)
      BY <3>2, GroupEntryPath
    <3> QED
      BY <1>3, <3>3, PathsDiffer
  <2>2. /\ e[1] # <<"context", "user", "user_id">>
        /\ \A p \in DOMAIN u.properties : e[1] # <<"context", "user", p>>
        /\ \A g : e[1] # <<"context", "groups", g, "group_name">>
    BY <1>3, PathsDiffer
  <2> QED
    BY <1>1, <2>1, <2>2, EntryPaths
<1>4. CASE cohorts # {}
  <2>1. <<UserPath, List("strings", cohorts)>> \in entries
    BY <1>1, <1>4 DEF Entries, UserPath
  <2> QED
    BY <1>1, <1>2, <1>3, <1>4, <2>1, MapHolds
<1>5. CASE cohorts = {}
  BY <1>1, <1>2, <1>3, <1>5, MapLacks
<1> QED
  BY <1>4, <1>5

LEMMA GroupEntry ==
  ASSUME NEW u, NEW F, NEW storage, NEW type
  PROVE  LET held == UserToContext(u, F, storage)
         IN  /\ GroupPath(type) \in DOMAIN held <=> HasEntry(u, type, F)
             /\ HasEntry(u, type, F)
                    => held[GroupPath(type)]
                            = List("strings", GroupCohorts(u, type, F, storage))
<1>1. PICK value, groups, entries :
        /\ value = List("strings", GroupCohorts(u, type, F, storage))
        /\ groups = GroupEntries(u, F, storage)
        /\ entries = Entries(u, UserCohorts(u, F, storage), groups)
  OBVIOUS
<1>2. UserToContext(u, F, storage) = MapOf(entries)
  BY <1>1, ContextIsMap
<1>3. ASSUME NEW e \in entries, e[1] = GroupPath(type)
      PROVE  HasEntry(u, type, F) /\ e = <<GroupPath(type), value>>
  <2>1. /\ e[1] # <<"context", "user", "user_id">>
        /\ \A p : e[1] # <<"context", "user", p>>
        /\ \A g : e[1] # <<"context", "groups", g, "group_name">>
        /\ \A x : e # <<UserPath, x>>
    <3>1. \A x : <<UserPath, x>>[1] # GroupPath(type)
      BY PathsDiffer
    <3> QED
      BY <1>3, <3>1, PathsDiffer
  <2>2. e \in groups
    BY <1>1, <2>1, EntryPaths
  <2>3. PICK g : HasEntry(u, g, F) /\ e = GroupEntryOf(u, g, F, storage)
    BY <1>1, <2>2, GroupEntryPaths
  <2>4. g = type
    <3>1. e[1] = GroupPath(g)
      BY <2>3, GroupEntryPath
    <3> QED
      BY <1>3, <3>1, PathsDiffer
  <2> QED
    BY <1>1, <2>3, <2>4 DEF GroupEntryOf
<1>4. CASE HasEntry(u, type, F)
  <2>1. <<GroupPath(type), value>> = GroupEntryOf(u, type, F, storage)
    BY <1>1 DEF GroupEntryOf
  <2>2. <<GroupPath(type), value>> \in groups
    BY <1>1, <1>4, <2>1, GroupEntryPaths
  <2>3. <<GroupPath(type), value>> \in entries
    BY <1>1, <2>2 DEF Entries
  <2>4. /\ GroupPath(type) \in DOMAIN MapOf(entries)
        /\ MapOf(entries)[GroupPath(type)] = value
    BY <1>3, <2>3, MapHolds
  <2> QED
    BY <1>1, <1>2, <1>4, <2>4
<1>5. CASE ~HasEntry(u, type, F)
  <2>1. GroupPath(type) \notin DOMAIN MapOf(entries)
    BY <1>3, <1>5, MapLacks
  <2> QED
    BY <1>2, <1>5, <2>1
<1> QED
  BY <1>4, <1>5

\* The cohorts that an entry of the context tells of; none has no entry.
Tells(v, cohorts) ==
    v = List("strings", cohorts) \/ (v = Null /\ cohorts = {})

\* Do two sets of cohorts have one in common?
Meet(values, cohorts) == values \cap cohorts # {}

\* A condition on a list of cohorts, or on a missing one, looks for a common
\* cohort.
LEMMA MatchCohorts ==
  ASSUME NEW cohorts, cohorts \cap (Trues \cup Falses) = {},
         NEW values, None \notin values, NEW v, Tells(v, cohorts),
         NEW op \in {"set contains any", "set does not contain any"}
  PROVE  MatchCondition(v, op, values)
            <=> (Meet(values, cohorts) <=> op = "set contains any")
<1>1. CASE v = Null
  <2>1. MatchCondition(v, op, values) <=> MatchNull(op, values)
    BY <1>1 DEF MatchCondition, Null
  <2>2. MatchNull(op, values) <=> op = "set does not contain any"
    BY DEF MatchNull, NumberOps, VersionOps
  <2>3. cohorts = {}
    <3>1. Null.kind = "null" /\ List("strings", cohorts).kind = "list"
      BY DEF Null, List
    <3> QED
      BY <1>1, <3>1 DEF Tells
  <2> QED
    <3>1. ~Meet(values, cohorts)
      BY <2>3 DEF Meet
    <3>2. op = "set does not contain any" <=> ~(op = "set contains any")
      OBVIOUS
    <3> QED
      BY <2>1, <2>2, <3>1, <3>2
<1>2. CASE v = List("strings", cohorts)
  <2>1. v.kind = "list" /\ v.form = "strings" /\ v.elems = cohorts
    BY <1>2 DEF List
  <2>2. MatchCondition(v, op, values) <=> MatchSet(cohorts, op, values)
    BY <2>1 DEF MatchCondition, SetOps, IsList
  <2>3. MatchSet(cohorts, op, values)
            <=> (ContainsAny(cohorts, values) <=> op = "set contains any")
    BY DEF MatchSet
  <2>4. ContainsAny(cohorts, values) <=> values \cap cohorts # {}
    BY DEF ContainsAny, MatchesIs, SameBoolean
  <2> QED
    BY <2>2, <2>3, <2>4 DEF Meet
<1> QED
  BY <1>1, <1>2 DEF Tells

\* The cohorts that a sole filter names are looked up.
LEMMA SoleFilterCounts ==
  ASSUME NEW F, NEW s \in SegmentsOf(F), NEW c \in SoleFilters(s),
         \A i \in DOMAIN s.conditions : IsListed(s.conditions[i])
  PROVE  /\ IsCohortFilter(c) /\ GroupTypeOf(c) # None
         /\ HasFilters(F, GroupTypeOf(c))
         /\ c.values \subseteq FlagCohorts(F, GroupTypeOf(c))
         /\ \E i \in DOMAIN s.conditions : \E j \in DOMAIN s.conditions[i] :
                c = s.conditions[i][j]
<1>1. \E i \in DOMAIN s.conditions : \E j \in DOMAIN s.conditions[i] :
        LET g == GroupTypeOf(c)
        IN  /\ c = s.conditions[i][j] /\ g # None
            /\ Filters(s, g) = {<<i, j>>}
  <2>1. PICK q \in UNION {{i} \X DOMAIN s.conditions[i] :
                            i \in DOMAIN s.conditions} :
            LET g == GroupTypeOf(c)
            IN  c = ConditionAt(s, q) /\ g # None /\ Filters(s, g) = {q}
    BY DEF SoleFilters
  <2>2. PICK i \in DOMAIN s.conditions : q \in {i} \X DOMAIN s.conditions[i]
    BY <2>1
  <2>3. q = <<i, q[2]>> /\ q[2] \in DOMAIN s.conditions[i] /\ q[1] = i
    BY <2>2
  <2> QED
    BY <2>1, <2>3 DEF ConditionAt
<1>2. PICK i \in DOMAIN s.conditions : \E j \in DOMAIN s.conditions[i] :
        LET g == GroupTypeOf(c)
        IN  /\ c = s.conditions[i][j] /\ g # None
            /\ Filters(s, g) = {<<i, j>>}
  BY <1>1
<1>g. PICK g : g = GroupTypeOf(c)
  OBVIOUS
<1>3. PICK j \in DOMAIN s.conditions[i] :
        /\ c = s.conditions[i][j] /\ g = GroupTypeOf(c) /\ g # None
        /\ Filters(s, g) = {<<i, j>>}
  BY <1>2, <1>g
<1>4. ConditionAt(s, <<i, j>>) = c
  BY <1>3 DEF ConditionAt
<1>5. IsCohortFilter(c)
  <2>1. <<i, j>> \in Filters(s, g)
    BY <1>3
  <2> QED
    BY <1>4, <2>1 DEF Filters
<1>6. SegmentCohorts(s, g) = c.values
  <2>1. j \in Nat
    BY DEF IsListed
  <2>2. (CHOOSE p \in {<<i, j>>} : \A q \in {<<i, j>>} :
            q[1] < p[1] \/ (q[1] = p[1] /\ q[2] <= p[2])) = <<i, j>>
    BY <2>1
  <2> QED
    BY <1>3, <1>4, <2>2 DEF SegmentCohorts
<1>7. HasFilters(F, g) /\ c.values \subseteq FlagCohorts(F, g)
  BY <1>3, <1>6 DEF HasFilters, FlagCohorts
<1> QED
  BY <1>3, <1>5, <1>7

LEMMA FilterIsMembership ==
  ASSUME NEW u, "cohort_ids" \notin DOMAIN u.properties, NEW F,
         NEW storage, DOMAIN storage \cap (Trues \cup Falses) = {},
         NEW s \in SegmentsOf(F), NEW c \in SoleFilters(s),
         \A i \in DOMAIN s.conditions : IsListed(s.conditions[i]),
         CohortFilterIsSound(c), NEW rs
  PROVE  MatchCondition(Select(UserToContext(u, F, storage), rs, c.selector),
                        c.op, c.values)
            <=> (IsMember(u, c, storage) <=> c.op = "set contains any")
<1>1. PICK g : g = GroupTypeOf(c)
  OBVIOUS
<1>2. /\ IsCohortFilter(c) /\ g # None /\ HasFilters(F, g)
      /\ c.values \subseteq FlagCohorts(F, g)
  BY <1>1, SoleFilterCounts
<1>3. c.op \in {"set contains any", "set does not contain any"}
  BY <1>2 DEF IsCohortFilter
<1>4. PICK cohorts : cohorts = IF Subject(u, g) = "" THEN {}
                               ELSE CohortsForGroup(storage, g, Subject(u, g),
                                                    FlagCohorts(F, g))
  OBVIOUS
<1>5. PICK v : v = Select(UserToContext(u, F, storage), rs, c.selector)
  OBVIOUS
<1>6. Tells(v, cohorts)
  <2>1. CASE c.selector = UserPath
    <3>1. g = UserType /\ c.selector[1] = "context"
      BY <1>1, <2>1 DEF GroupTypeOf, UserPath
    <3>2. cohorts = UserCohorts(u, F, storage)
      BY <1>4, <3>1 DEF Subject, UserCohorts
    <3> QED
      BY <1>5, <2>1, <3>1, <3>2, UserEntry DEF Select, Tells
  <2>2. CASE c.selector # UserPath
    <3>1. PICK t : t \notin {UserType, None} /\ c.selector = GroupPath(t)
      BY <2>2 DEF CohortFilterIsSound, UserPath, GroupPath
    <3>2. g = t /\ c.selector[1] = "context"
      BY <1>1, <3>1 DEF GroupTypeOf, GroupPath
    <3>3. CASE HasEntry(u, t, F)
      <4>1. cohorts = GroupCohorts(u, t, F, storage)
        BY <1>4, <3>1, <3>2, <3>3 DEF Subject, HasEntry, GroupCohorts
      <4> QED
        BY <1>5, <3>1, <3>2, <3>3, <4>1, GroupEntry DEF Select, Tells
    <3>4. CASE ~HasEntry(u, t, F)
      <4>1. cohorts = {}
        BY <1>2, <1>4, <3>1, <3>2, <3>4 DEF Subject, HasEntry
      <4> QED
        BY <1>5, <3>1, <3>2, <3>4, <4>1, GroupEntry DEF Select, Tells
    <3> QED
      BY <3>3, <3>4
  <2> QED
    BY <2>1, <2>2
<1>7. IsMember(u, c, storage) <=> Meet(c.values, cohorts)
  BY <1>1, <1>2, <1>4 DEF IsMember, CohortsForGroup, Meet
<1>8. cohorts \cap (Trues \cup Falses) = {} /\ None \notin c.values
  BY <1>4 DEF CohortsForGroup, CohortFilterIsSound
<1>9. MatchCondition(v, c.op, c.values)
        <=> (Meet(c.values, cohorts) <=> c.op = "set contains any")
  <2>1. PICK values, op : values = c.values /\ op = c.op
    OBVIOUS
  <2>2. op \in {"set contains any", "set does not contain any"}
    BY <1>3, <2>1
  <2>3. None \notin values
    BY <1>8, <2>1
  <2>4. MatchCondition(v, op, values)
            <=> (Meet(values, cohorts) <=> op = "set contains any")
    BY <1>6, <1>8, <2>2, <2>3, MatchCohorts
  <2> QED
    BY <2>1, <2>4
<1> QED
  BY <1>5, <1>7, <1>9

\* The user is one of those that are evaluated.
UserIsKnown == user # NoUser => user \in Users

TargetingInv == WideningInv /\ UserIsKnown

LEMMA UserStaysKnown ==
  ASSUME UserIsKnown, [EvaluationNext]_allVars
  PROVE  UserIsKnown'
BY DEF UserIsKnown, EvaluationNext, SortStep, EnrichUser, Evaluate,
       EvaluateNext, RollOut, allVars, evaluationVars

LEMMA TargetingInvIsEnough == TargetingInv => TargetingIsMembership
<1> SUFFICES ASSUME TargetingInv, user # NoUser,
                    NEW F, F = {flags[k] : k \in Stored},
                    NEW s \in SegmentsOf(F), NEW c \in SoleFilters(s)
             PROVE  MatchCondition(Select(context, results, c.selector), c.op,
                                   c.values)
                        <=> (IsMember(user, c, Storage)
                                <=> c.op = "set contains any")
  BY DEF TargetingIsMembership
<1>1. /\ context = UserToContext(user, F, Storage) /\ user \in Users
      /\ rollout \in 0..MaxRollout /\ flags = FlagsAt(rollout)
      /\ dependencies \in Graphs
  BY DEF TargetingInv, WideningInv, UserIsKnown, EvaluationInv, SortInv
<1>2. /\ "cohort_ids" \notin DOMAIN user.properties
      /\ DOMAIN Storage \cap (Trues \cup Falses) = {}
  BY <1>1, TargetingAssumption DEF TargetingAssumption
<1>3. PICK k \in Stored : \E i \in DOMAIN flags[k].segments :
        s = flags[k].segments[i]
  BY DEF SegmentsOf
<1>4. SegmentIsSound(s, dependencies[k])
  BY <1>1, <1>3, DefinitionAssumption
  DEF DefinitionAssumption, FlagsAt, Stored
<1>5. \A i \in DOMAIN s.conditions : IsListed(s.conditions[i])
  BY <1>4 DEF SegmentIsSound
<1>6. CohortFilterIsSound(c)
  BY <1>4, <1>5, SoleFilterCounts DEF SegmentIsSound
<1> QED
  BY <1>1, <1>2, <1>5, <1>6, FilterIsMembership

\* Whatever the flags, cohorts and users: a condition on the cohorts of the
\* user or of one of its groups holds of exactly those who are members of a
\* stored cohort it names that is filed under the type it asks for.
THEOREM TargetingIsMembershipAlways ==
  EvaluationSpec => []TargetingIsMembership
<1>1. EvaluationInit => TargetingInv
  BY WideningInit DEF TargetingInv, UserIsKnown, EvaluationInit
<1>2. TargetingInv /\ [EvaluationNext]_allVars => TargetingInv'
  BY WideningNext, UserStaysKnown DEF TargetingInv
<1>3. TargetingInv => TargetingIsMembership
  BY TargetingInvIsEnough
<1> QED
  BY <1>1, <1>2, <1>3, PTL DEF EvaluationSpec

----------------------------------------------------------------------------
(* Thresholds.                                                             *)

Versions == [major : Nat, minor : Nat, patch : Nat, preRelease : Texts]

\* How two texts compare: as numbers if both are, and else as texts.
Below(s, t) ==
    IF IsNumber(s) /\ IsNumber(t) THEN NumberLess(Number[s], Number[t])
                                  ELSE Less(s, t)
Same(s, t) ==
    IF IsNumber(s) /\ IsNumber(t) THEN NumberSame(Number[s], Number[t])
                                  ELSE s = t

LEMMA MatchText ==
  ASSUME NEW v, v.kind = "text", NEW values
  PROVE  \A op \in NumberOps \cup VersionOps :
            MatchCondition(v, op, values) <=> MatchString(v.text, op, values)
<1>1. \A op \in NumberOps \cup VersionOps : op \notin SetOps
  BY DEF SetOps, NumberOps, VersionOps
<1> QED
  BY <1>1 DEF MatchCondition, IsList, TextOf

LEMMA ConditionByNumber ==
  ASSUME NEW v, v.kind = "text", NEW t, NEW op \in NumberOps
  PROVE  MatchCondition(v, op, {t})
            <=> Holds(op, Below(v.text, t), Same(v.text, t), Below(t, v.text))
<1>1. MatchCondition(v, op, {t}) <=> Compare(v.text, op, {t})
  BY MatchText DEF MatchString, NumberOps, VersionOps
<1>2. CASE IsNumber(v.text) /\ IsNumber(t)
  <2>1. {Number[r] : r \in {t} \cap DOMAIN Number} = {Number[t]}
    BY <1>2 DEF IsNumber
  <2>2. Compare(v.text, op, {t})
            <=> CompareNumber(Number[v.text], op, {Number[t]})
    BY <1>2, <2>1 DEF Compare, IsNumber
  <2> QED
    BY <1>1, <1>2, <2>2 DEF CompareNumber, Below, Same
<1>3. CASE ~(IsNumber(v.text) /\ IsNumber(t))
  <2>1. Compare(v.text, op, {t}) <=> CompareString(v.text, op, {t})
    BY <1>3 DEF Compare, IsNumber
  <2> QED
    BY <1>1, <1>3, <2>1 DEF CompareString, Below, Same
<1> QED
  BY <1>2, <1>3

LEMMA ConditionByVersion ==
  ASSUME NEW v, v.kind = "text", NEW t, {v.text, t} \subseteq DOMAIN Version,
         NEW op \in VersionOps
  PROVE  MatchCondition(v, op, {t})
            <=> Holds(Unversioned(op), VersionLess(Version[v.text], Version[t]),
                      Version[v.text] = Version[t],
                      VersionLess(Version[t], Version[v.text]))
<1>1. MatchCondition(v, op, {t}) <=> CompareVersion(v.text, op, {t})
  BY MatchText DEF MatchString, NumberOps, VersionOps
<1>2. {Version[r] : r \in {t} \cap DOMAIN Version} = {Version[t]}
  OBVIOUS
<1> QED
  BY <1>1, <1>2 DEF CompareVersion

\* Go's order of texts: of two exactly one is below the other or they are the
\* same, and what is below a lower one is below.
LEMMA TextOrder ==
  ASSUME NEW s \in Texts, NEW t \in Texts
  PROVE  /\ Less(s, t) => s # t /\ ~Less(t, s)
         /\ Less(s, t) \/ s = t \/ Less(t, s)
         /\ \A u \in Texts : Less(s, t) /\ Less(t, u) => Less(s, u)
BY ComparisonAssumption DEF ComparisonAssumption

LEMMA NumberOrder ==
  ASSUME NEW s \in Texts, NEW t \in Texts,
         ~(Alike({s, t}) /\ HasNaN({s, t}))
  PROVE  /\ Below(s, t) => ~Same(s, t) /\ ~Below(t, s)
         /\ Same(s, t) => ~Below(t, s)
         /\ Below(s, t) \/ Same(s, t) \/ Below(t, s)
<1>1. CASE IsNumber(s) /\ IsNumber(t)
  <2>1. Number[s] # NaN /\ Number[t] # NaN
    BY <1>1 DEF Alike, HasNaN
  <2>2. Number[s] \in Int /\ Number[t] \in Int
    BY <1>1, <2>1, ComparisonAssumption DEF ComparisonAssumption, IsNumber
  <2> QED
    BY <1>1, <2>1, <2>2 DEF Below, Same, NumberLess, NumberSame
<1>2. CASE ~(IsNumber(s) /\ IsNumber(t))
  BY <1>2, TextOrder DEF Below, Same
<1> QED
  BY <1>1, <1>2

LEMMA NumbersNest ==
  ASSUME NEW s \in Texts, NEW t \in Texts, NEW u \in Texts,
         Alike({s, t, u}), ~HasNaN({s, t, u}),
         Below(t, u), Below(u, s) \/ Same(s, u)
  PROVE  Below(t, s)
<1>1. CASE \A r \in {s, t, u} : IsNumber(r)
  <2>1. \A r \in {s, t, u} : Number[r] # NaN
    BY <1>1 DEF HasNaN
  <2>2. \A r \in {s, t, u} : Number[r] \in Int
    BY <1>1, <2>1, ComparisonAssumption DEF ComparisonAssumption, IsNumber
  <2> QED
    BY <1>1, <2>1, <2>2 DEF Below, Same, NumberLess, NumberSame
<1>2. CASE \A r \in {s, t, u} : ~IsNumber(r)
  BY <1>2, TextOrder DEF Below, Same
<1> QED
  BY <1>1, <1>2 DEF Alike

\* A preRelease orders versions that are equal otherwise.
LEMMA PreReleaseOrder ==
  ASSUME NEW p \in Texts, NEW q \in Texts
  PROVE  /\ PreReleaseLess(p, q) => p # q /\ ~PreReleaseLess(q, p)
         /\ PreReleaseLess(p, q) \/ p = q \/ PreReleaseLess(q, p)
         /\ \A r \in Texts :
                PreReleaseLess(p, q) /\ PreReleaseLess(q, r)
                    => PreReleaseLess(p, r)
BY TextOrder DEF PreReleaseLess

LEMMA VersionOrder ==
  ASSUME NEW v \in Versions, NEW w \in Versions
  PROVE  /\ VersionLess(v, w) => v # w /\ ~VersionLess(w, v)
         /\ VersionLess(v, w) \/ v = w \/ VersionLess(w, v)
         /\ \A x \in Versions :
                VersionLess(v, w) /\ VersionLess(w, x) => VersionLess(v, x)
<1>1. /\ v.preRelease \in Texts /\ w.preRelease \in Texts
      /\ v.major \in Nat /\ v.minor \in Nat /\ v.patch \in Nat
      /\ w.major \in Nat /\ w.minor \in Nat /\ w.patch \in Nat
  BY DEF Versions
<1>2. /\ v.major = w.major /\ v.minor = w.minor /\ v.patch = w.patch
      /\ v.preRelease = w.preRelease
      => v = w
  BY DEF Versions
<1>3. VersionLess(v, w) => v # w /\ ~VersionLess(w, v)
  BY <1>1, PreReleaseOrder DEF VersionLess
<1>4. VersionLess(v, w) \/ v = w \/ VersionLess(w, v)
  BY <1>1, <1>2, PreReleaseOrder DEF VersionLess
<1>5. ASSUME NEW x \in Versions, VersionLess(v, w), VersionLess(w, x)
      PROVE  VersionLess(v, x)
  <2>1. /\ x.major \in Nat /\ x.minor \in Nat /\ x.patch \in Nat
        /\ x.preRelease \in Texts
    BY DEF Versions
  <2>2. PreReleaseLess(v.preRelease, w.preRelease)
            /\ PreReleaseLess(w.preRelease, x.preRelease)
            => PreReleaseLess(v.preRelease, x.preRelease)
    BY <1>1, <2>1, PreReleaseOrder
  <2> QED
    BY <1>1, <1>5, <2>1, <2>2 DEF VersionLess
<1> QED
  BY <1>3, <1>4, <1>5

\* The operators at a threshold, for any text of the context.
LEMMA OrderedByNumber ==
  ASSUME NEW v, v.kind = "text", v.text \in Texts,
         NEW t \in Texts, NEW u \in Texts
  PROVE  /\ IF Alike({v.text, t}) /\ HasNaN({v.text, t})
            THEN \A op \in NumberOps : ~MatchCondition(v, op, {t})
            ELSE Parts(v, t, ByNumber)
         /\ Alike({v.text, t, u}) /\ ~HasNaN({v.text, t, u})
                => Nests(v, t, u, ByNumber)
<1> DEFINE s == v.text
<1>1. /\ ByNumber.below = "less" /\ ByNumber.atMost = "less or equal"
      /\ ByNumber.above = "greater" /\ ByNumber.atLeast = "greater or equal"
      /\ {"less", "less or equal", "greater", "greater or equal"} = NumberOps
  BY DEF ByNumber, NumberOps
<1>2. \A op \in NumberOps :
        MatchCondition(v, op, {t})
            <=> Holds(op, Below(s, t), Same(s, t), Below(t, s))
  BY ConditionByNumber
<1>3. ASSUME Alike({s, t}), HasNaN({s, t}), NEW op \in NumberOps
      PROVE  ~MatchCondition(v, op, {t})
  <2>1. IsNumber(s) /\ IsNumber(t)
    BY <1>3 DEF Alike, HasNaN
  <2>2. ~Below(s, t) /\ ~Same(s, t) /\ ~Below(t, s)
    BY <1>3, <2>1 DEF HasNaN, Below, Same, NumberLess, NumberSame
  <2> QED
    BY <1>2, <2>2 DEF Holds
<1>4. ASSUME ~(Alike({s, t}) /\ HasNaN({s, t}))
      PROVE  Parts(v, t, ByNumber)
  <2>1. /\ Below(s, t) => ~Same(s, t) /\ ~Below(t, s)
        /\ Same(s, t) => ~Below(t, s)
        /\ Below(s, t) \/ Same(s, t) \/ Below(t, s)
    BY <1>4, NumberOrder
  <2>2. /\ MatchCondition(v, "less", {t}) <=> Below(s, t)
        /\ MatchCondition(v, "less or equal", {t})
                <=> Below(s, t) \/ Same(s, t)
        /\ MatchCondition(v, "greater", {t}) <=> Below(t, s)
        /\ MatchCondition(v, "greater or equal", {t})
                <=> Below(t, s) \/ Same(s, t)
    BY <1>1, <1>2 DEF Holds
  <2> QED
    BY <1>1, <2>1, <2>2 DEF Parts
<1>5. ASSUME Alike({s, t, u}), ~HasNaN({s, t, u})
      PROVE  Nests(v, t, u, ByNumber)
  <2>1. /\ Text(u).kind = "text" /\ Text(u).text = u
    BY DEF Text
  <2>2. MatchCondition(Text(u), "greater", {t}) <=> Below(t, u)
    BY <1>1, <2>1, ConditionByNumber DEF Holds
  <2>3. MatchCondition(v, "greater or equal", {u})
            <=> Below(u, s) \/ Same(s, u)
    BY <1>1, ConditionByNumber DEF Holds
  <2>4. MatchCondition(v, "greater", {t}) <=> Below(t, s)
    BY <1>1, <1>2 DEF Holds
  <2>5. Below(t, u) /\ (Below(u, s) \/ Same(s, u)) => Below(t, s)
    BY <1>5, NumbersNest
  <2> QED
    BY <1>1, <2>2, <2>3, <2>4, <2>5 DEF Nests
<1> QED
  BY <1>3, <1>4, <1>5

LEMMA OrderedByVersion ==
  ASSUME NEW v, v.kind = "text", NEW t, NEW u,
         {v.text, t, u} \subseteq DOMAIN Version
  PROVE  Parts(v, t, ByVersion) /\ Nests(v, t, u, ByVersion)
<1> DEFINE w(s) == Version[s]
<1>1. /\ ByVersion.below = "version less"
      /\ ByVersion.atMost = "version less or equal"
      /\ ByVersion.above = "version greater"
      /\ ByVersion.atLeast = "version greater or equal"
      /\ {"version less", "version less or equal", "version greater",
          "version greater or equal"} = VersionOps
  BY DEF ByVersion, VersionOps
<1>2. /\ Unversioned("version less") = "less"
      /\ Unversioned("version less or equal") = "less or equal"
      /\ Unversioned("version greater") = "greater"
      /\ Unversioned("version greater or equal") = "greater or equal"
  BY DEF Unversioned
<1>3. w(v.text) \in Versions /\ w(t) \in Versions /\ w(u) \in Versions
  BY ComparisonAssumption DEF ComparisonAssumption, Versions
<1>4. ASSUME NEW x, x.kind = "text", NEW r, {x.text, r} \subseteq DOMAIN Version
      PROVE  /\ MatchCondition(x, "version less", {r})
                    <=> VersionLess(w(x.text), w(r))
             /\ MatchCondition(x, "version less or equal", {r})
                    <=> VersionLess(w(x.text), w(r)) \/ w(x.text) = w(r)
             /\ MatchCondition(x, "version greater", {r})
                    <=> VersionLess(w(r), w(x.text))
             /\ MatchCondition(x, "version greater or equal", {r})
                    <=> VersionLess(w(r), w(x.text)) \/ w(x.text) = w(r)
  BY <1>1, <1>2, <1>4, ConditionByVersion DEF Holds
<1>5. Text(u).kind = "text" /\ Text(u).text = u
  BY DEF Text
<1> HIDE DEF w
<1>6. Parts(v, t, ByVersion)
  <2>1. /\ VersionLess(w(v.text), w(t))
                => w(v.text) # w(t) /\ ~VersionLess(w(t), w(v.text))
        /\ VersionLess(w(t), w(v.text)) => w(v.text) # w(t)
        /\ \/ VersionLess(w(v.text), w(t)) \/ w(v.text) = w(t)
           \/ VersionLess(w(t), w(v.text))
    BY <1>3, VersionOrder
  <2>2. /\ MatchCondition(v, "version less", {t})
                <=> VersionLess(w(v.text), w(t))
        /\ MatchCondition(v, "version less or equal", {t})
                <=> VersionLess(w(v.text), w(t)) \/ w(v.text) = w(t)
        /\ MatchCondition(v, "version greater", {t})
                <=> VersionLess(w(t), w(v.text))
        /\ MatchCondition(v, "version greater or equal", {t})
                <=> VersionLess(w(t), w(v.text)) \/ w(v.text) = w(t)
    BY <1>4
  <2> QED
    BY <1>1, <2>1, <2>2 DEF Parts
<1>7. Nests(v, t, u, ByVersion)
  <2>1. VersionLess(w(t), w(u))
            /\ (VersionLess(w(u), w(v.text)) \/ w(v.text) = w(u))
            => VersionLess(w(t), w(v.text))
    BY <1>3, VersionOrder
  <2> QED
    BY <1>1, <1>4, <1>5, <2>1 DEF Nests
<1> QED
  BY <1>6, <1>7

\* What UserToContext puts into the context is the user's texts and lists.
LEMMA ContextTexts ==
  ASSUME NEW u \in Users, NEW F, NEW storage,
         NEW p \in DOMAIN UserToContext(u, F, storage),
         UserToContext(u, F, storage)[p].kind = "text"
  PROVE  UserToContext(u, F, storage)[p].text \in Texts
<1>1. PICK groups, entries :
        /\ groups = GroupEntries(u, F, storage)
        /\ entries = Entries(u, UserCohorts(u, F, storage), groups)
  OBVIOUS
<1>2. UserToContext(u, F, storage) = MapOf(entries)
  BY <1>1, ContextIsMap
<1>3. PICK e \in entries : UserToContext(u, F, storage)[p] = e[2]
  BY <1>2 DEF MapOf
<1>4. \A x : Text(x).text = x
  BY DEF Text
<1>5. \A form, elems : List(form, elems).kind # "text"
  BY DEF List
<1>6. /\ u.id \in Texts
      /\ \A q \in DOMAIN u.properties : u.properties[q] \in Texts
      /\ \A g \in DOMAIN u.groups : u.groups[g] \in Texts
  BY ComparisonAssumption DEF ComparisonAssumption
<1>7. \/ \E x \in Texts : e[2] = Text(x)
      \/ \E elems : e[2] = List("strings", elems)
  <2>1. CASE e \in groups
    BY <1>1, <2>1, GroupEntryPaths, Pairs DEF GroupEntryOf
  <2>2. CASE e \in {<<<<"context", "user", "user_id">>, Text(u.id)>> :
                        x \in {u.id} \ {""}}
    <3>1. e = <<<<"context", "user", "user_id">>, Text(u.id)>>
      BY <2>2
    <3> QED
      BY <1>6, <3>1, Pairs
  <2>3. CASE e \in {<<<<"context", "user", q>>, Text(u.properties[q])>> :
                q \in {r \in DOMAIN u.properties : u.properties[r] # ""}}
    <3>1. PICK q \in DOMAIN u.properties :
            e = <<<<"context", "user", q>>, Text(u.properties[q])>>
      BY <2>3
    <3>2. e[2] = Text(u.properties[q])
      BY <3>1, Pairs
    <3> QED
      BY <1>6, <3>2
  <2>4. CASE e \in {<<UserPath, List("strings", x)>> :
                        x \in {UserCohorts(u, F, storage)} \ {{}}}
    <3>1. PICK x : e = <<UserPath, List("strings", x)>>
      BY <2>4
    <3> QED
      BY <3>1, Pairs
  <2>5. CASE e \in {<<<<"context", "groups", g, "group_name">>,
                        Text(u.groups[g])>> : g \in DOMAIN u.groups}
    <3>1. PICK g \in DOMAIN u.groups :
            e = <<<<"context", "groups", g, "group_name">>, Text(u.groups[g])>>
      BY <2>5
    <3>2. e[2] = Text(u.groups[g])
      BY <3>1, Pairs
    <3> QED
      BY <1>6, <3>2
  <2> QED
    BY <1>1, <2>1, <2>2, <2>3, <2>4, <2>5 DEF Entries, UserPath
<1> QED
  BY <1>3, <1>4, <1>5, <1>7

LEMMA TargetingInvOrders == TargetingInv => ThresholdsAreOrdered
<1> SUFFICES ASSUME TargetingInv, user # NoUser,
                    NEW p \in DOMAIN context, context[p].kind = "text",
                    NEW t \in Thresholds, NEW u \in Thresholds,
                    NEW v, v = context[p]
             PROVE  /\ IF Alike({v.text, t}) /\ HasNaN({v.text, t})
                       THEN \A op \in NumberOps : ~MatchCondition(v, op, {t})
                       ELSE Parts(v, t, ByNumber)
                    /\ Alike({v.text, t, u}) /\ ~HasNaN({v.text, t, u})
                           => Nests(v, t, u, ByNumber)
                    /\ {v.text, t, u} \subseteq DOMAIN Version
                           => Parts(v, t, ByVersion) /\ Nests(v, t, u, ByVersion)
  BY DEF ThresholdsAreOrdered
<1>1. /\ context = UserToContext(user, {flags[k] : k \in Stored}, Storage)
      /\ user \in Users
  BY DEF TargetingInv, WideningInv, UserIsKnown, EvaluationInv
<1>2. v.text \in Texts
  BY <1>1, ContextTexts
<1>3. t \in Texts /\ u \in Texts
  BY ComparisonAssumption DEF ComparisonAssumption
<1> QED
  BY <1>2, <1>3, OrderedByNumber, OrderedByVersion

\* Whatever the users, flags and thresholds, numbers and versions: thresholds
\* divide the users like points of a line, as long as Go's order of texts is
\* one and numbers other than NaN are ordered.
THEOREM ThresholdsAreOrderedAlways == EvaluationSpec => []ThresholdsAreOrdered
<1>1. EvaluationInit => TargetingInv
  BY WideningInit DEF TargetingInv, UserIsKnown, EvaluationInit
<1>2. TargetingInv /\ [EvaluationNext]_allVars => TargetingInv'
  BY WideningNext, UserStaysKnown DEF TargetingInv
<1>3. TargetingInv => ThresholdsAreOrdered
  BY TargetingInvOrders
<1> QED
  BY <1>1, <1>2, <1>3, PTL DEF EvaluationSpec

============================================================================
