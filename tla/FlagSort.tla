------------------------------ MODULE FlagSort ------------------------------
(***************************************************************************)
(* topologicalSort and parentTraversal of sort.go: the flags to evaluate,  *)
(* each after the flags it depends on.                                     *)
(*                                                                         *)
(* The recursion of parentTraversal is a stack of frames, one per call     *)
(* that has dependencies to visit; `path` is the keys on the stack.  The   *)
(* slices the calls return are concatenated in the order in which the      *)
(* flags are added to them, so they are one sequence here.                 *)
(***************************************************************************)
EXTENDS Naturals, Sequences, FiniteSets

CONSTANTS
    Keys,       \* flag keys, of flags that are stored or not
    Graphs,     \* flag dependencies to sort: functions into Seq(Keys)
    Requests    \* flagKeys arguments: sequences of keys

ASSUME FlagSortAssumption ==
    /\ \A g \in Graphs : DOMAIN g \subseteq Keys
                            /\ \A k \in DOMAIN g : g[k] \in Seq(Keys)
    /\ Requests \subseteq Seq(Keys)
    /\ IsFiniteSet(Keys)

VARIABLES
    dependencies,   \* the dependencies of every stored flag
    starting,       \* startingKeys
    todo,           \* the starting keys not yet traversed
    available,      \* flags not yet added to the result
    stack,          \* calls in progress: key, and number of parents visited
    result,         \* the keys of the sorted flags
    outcome         \* "sorting", "sorted" or "cycle"

sortVars == <<dependencies, starting, todo, available, stack, result, outcome>>

Stored == DOMAIN dependencies

ToSet(s) == {s[i] : i \in DOMAIN s}

TypeOK ==
    /\ Stored \subseteq Keys
    /\ available \subseteq Stored
    /\ todo \in Seq(Keys)
    /\ result \in Seq(Stored)
    /\ \A i \in DOMAIN stack :
        /\ stack[i].key \in available
        /\ stack[i].visited \in 0..Len(dependencies[stack[i].key])
    /\ outcome \in {"sorting", "sorted", "cycle"}

\* Go visits the keys of a map in any order.
Orders(S) ==
    {s \in [1..Cardinality(S) -> S] : ToSet(s) = S}

Init ==
    /\ dependencies \in Graphs
    /\ \E r \in Requests :
        IF r = <<>> THEN starting \in Orders(Stored) ELSE starting = r
    /\ todo = starting
    /\ available = Stored
    /\ stack = <<>>
    /\ result = <<>>
    /\ outcome = "sorting"

----------------------------------------------------------------------------
Path == {stack[i].key : i \in DOMAIN stack}

Add(k) ==
    /\ result' = Append(result, k)
    /\ available' = available \ {k}

\* The call parentTraversal(k), made from the last of `frames`.
Call(k, frames) ==
    IF k \notin available
    THEN stack' = frames /\ UNCHANGED <<available, result>>
    ELSE IF dependencies[k] = <<>>
         THEN Add(k) /\ stack' = frames
         ELSE stack' = Append(frames, [key |-> k, visited |-> 0])
                /\ UNCHANGED <<available, result>>

\* The next starting key.
Traverse ==
    /\ outcome = "sorting"
    /\ stack = <<>> /\ todo # <<>>
    /\ Call(Head(todo), <<>>)
    /\ todo' = Tail(todo)
    /\ UNCHANGED <<dependencies, starting, outcome>>

Top     == stack[Len(stack)]
Parents == dependencies[Top.key]
Parent  == Parents[Top.visited + 1]

Visiting == outcome = "sorting" /\ stack # <<>> /\ Top.visited < Len(Parents)

\* Mutant: the loop over the parents does not advance.
VisitStays ==
    /\ Visiting
    /\ Parent \notin Path
    /\ Call(Parent, stack)
    /\ UNCHANGED <<dependencies, starting, todo, outcome>>

Visit ==
    /\ Visiting
    /\ Parent \notin Path
    /\ Call(Parent, [stack EXCEPT ![Len(stack)].visited = @ + 1])
    /\ UNCHANGED <<dependencies, starting, todo, outcome>>

\* Mutant: a parent on the path is passed over.
SkipCycle ==
    /\ Visiting
    /\ Parent \in Path
    /\ stack' = [stack EXCEPT ![Len(stack)].visited = @ + 1]
    /\ UNCHANGED <<dependencies, starting, todo, available, result, outcome>>

FindCycle ==
    /\ Visiting
    /\ Parent \in Path
    /\ outcome' = "cycle"
    /\ result' = <<>>
    /\ UNCHANGED <<dependencies, starting, todo, available, stack>>

\* Mutant: a flag is added before its dependencies have been visited.
LeaveEarly ==
    /\ outcome = "sorting" /\ stack # <<>>
    /\ Add(Top.key)
    /\ stack' = SubSeq(stack, 1, Len(stack) - 1)
    /\ UNCHANGED <<dependencies, starting, todo, outcome>>

\* All dependencies of the flag are in the result: add the flag.
Leave ==
    /\ outcome = "sorting" /\ stack # <<>>
    /\ Top.visited = Len(Parents)
    /\ Add(Top.key)
    /\ stack' = SubSeq(stack, 1, Len(stack) - 1)
    /\ UNCHANGED <<dependencies, starting, todo, outcome>>

Sorted ==
    /\ outcome = "sorting"
    /\ stack = <<>> /\ todo = <<>>
    /\ outcome' = "sorted"
    /\ UNCHANGED <<dependencies, starting, todo, available, stack, result>>

Sort == Traverse \/ Visit \/ FindCycle \/ Leave \/ Sorted

----------------------------------------------------------------------------
(* Properties. *)

ParentsOf(k) == ToSet(dependencies[k]) \cap Stored

\* Everything that A reaches along dependencies, A included.
Closure(A) ==
    {k \in Stored :
        \A S \in SUBSET Stored :
            (A \cap Stored) \subseteq S /\ (\A j \in S : ParentsOf(j) \subseteq S)
                => k \in S}

Required == Closure(ToSet(starting))

\* The flags sorted are each there once, after all flags they depend on.
DependenciesFirst ==
    \A i \in DOMAIN result :
        /\ \A j \in DOMAIN result : result[i] = result[j] => i = j
        /\ ParentsOf(result[i]) \subseteq {result[j] : j \in 1..i-1}

\* At any time dependencies are first; the sort yields the requested flags
\* with all they depend on, no others; it fails exactly if a cycle is among
\* them, whatever the order of keys.
SortIsExact ==
    LET cyclic == \E k \in Required : k \in Closure(ParentsOf(k))
    IN  /\ DependenciesFirst
        /\ outcome = "sorted" => ToSet(result) = Required /\ ~cyclic
        /\ outcome = "cycle" => cyclic

\* The traversal ends, whatever cycles there are.
SortEnds == <>(outcome # "sorting")

============================================================================
