------------------------------ MODULE Pipeline ------------------------------
(***************************************************************************)
(* The registry of streamwright/pipeline.py: steps and merges are declared *)
(* by name, and run() puts them in a topological order with Kahn's         *)
(* algorithm and keeps that order until another step is registered.        *)
(*                                                                         *)
(* A declaration is abstracted to what it depends on. _build_dag never     *)
(* awaits: nothing is registered while it sorts.                           *)
(***************************************************************************)
EXTENDS Integers, Sequences, FiniteSets

CONSTANTS
  Names,      \* the names a step function may have
  Refs,       \* the names fan_out_from and the merge sources may refer to
  Rank,       \* the lexicographic order of the names, as numbers
  Declared    \* Declared[n]: the sets of names a step n may depend on

ASSUME NamesAssumption ==
  /\ IsFiniteSet(Refs) /\ Names \subseteq Refs
  /\ Rank \in [Names -> Nat]
  /\ Declared \in [Names -> SUBSET SUBSET Refs]

VARIABLES
  registered, \* the names in _steps, in the order of their registration
  deps,       \* deps[n]: the fan_out_from or the merge_sources of step n
  dagOrder,   \* _dag_order, <<>> standing for None
  sorting,    \* whether _build_dag is in its loop
  inDegree,   \* its in_degree
  ready,      \* its deque `ready`
  ordered,    \* its ordered_names
  result      \* what the last call of step(), merge() or run() came to

sortVars == <<inDegree, ready, ordered>>
vars == <<registered, deps, dagOrder, sorting, sortVars, result>>

SetOf(seq) == {seq[i] : i \in DOMAIN seq}

Known == SetOf(registered)
Dependents(n) == {d \in Known : n \in deps[d]}
Entries == {n \in Known : deps[n] = {}}

(* The sequences that hold each element of S once, in the order of place.   *)
Arranged(S, place) ==
  {seq \in [1 .. Cardinality(S) -> S] :
     /\ SetOf(seq) = S
     /\ \A i, j \in DOMAIN seq : i < j => place[seq[i]] < place[seq[j]]}

Init ==
  /\ registered = <<>>
  /\ deps = [n \in Names |-> {}]
  /\ dagOrder = <<>>
  /\ sorting = FALSE
  /\ inDegree = [n \in Names |-> 0]
  /\ ready = <<>>
  /\ ordered = <<>>
  /\ result = "none"

-----------------------------------------------------------------------------
\* Mutant: a new registration leaves the cached order in place.
InvalidateNever == dagOrder' = dagOrder

Invalidate == dagOrder' = <<>>

Register(n, needs) ==
  /\ ~sorting /\ n \notin Known
  /\ registered' = Append(registered, n)
  /\ deps' = [deps EXCEPT ![n] = needs]
  /\ Invalidate
  /\ result' = "registered"
  /\ UNCHANGED <<sorting, sortVars>>

RegisterTaken(n) ==
  /\ ~sorting /\ n \in Known
  /\ result' = "taken"
  /\ UNCHANGED <<registered, deps, dagOrder, sorting, sortVars>>

-----------------------------------------------------------------------------
(* run(): the order is at hand.                                            *)
RunCached ==
  /\ ~sorting /\ dagOrder # <<>>
  /\ result' = "order"
  /\ UNCHANGED <<registered, deps, dagOrder, sorting, sortVars>>

(* run(): a declaration refers to a step that is not registered.           *)
RunUnknown ==
  /\ ~sorting /\ dagOrder = <<>>
  /\ \E n \in Known : ~(deps[n] \subseteq Known)
  /\ result' = "unknown"
  /\ UNCHANGED <<registered, deps, dagOrder, sorting, sortVars>>

(* run(): the degrees are counted, the steps without dependencies ready.   *)
RunSort ==
  /\ ~sorting /\ dagOrder = <<>>
  /\ \A n \in Known : deps[n] \subseteq Known
  /\ sorting' = TRUE
  /\ inDegree' = [n \in Names |-> Cardinality(deps[n])]
  /\ ready' \in Arranged(Entries, [n \in Known |-> CHOOSE i \in DOMAIN registered :
                                                       registered[i] = n])
  /\ ordered' = <<>>
  /\ result' = "sorting"
  /\ UNCHANGED <<registered, deps, dagOrder>>

\* Mutant: the degree is compared before it is decremented.
FreedLate(n) == {d \in Dependents(n) : inDegree[d] = 0}

(* The dependents whose last open dependency is n.                          *)
Freed(n) == {d \in Dependents(n) : inDegree[d] = 1}

\* Mutant: the deque keeps the step that was popped.
RestWithHead == ready

Rest == Tail(ready)

(* One turn of the loop: the step at the left of `ready` is ordered.        *)
Pop ==
  /\ sorting /\ ready # <<>>
  /\ LET n == Head(ready) IN
     /\ ordered' = Append(ordered, n)
     /\ inDegree' = [d \in Names |-> IF d \in Dependents(n) THEN inDegree[d] - 1
                                                            ELSE inDegree[d]]
     /\ \E seq \in Arranged(Freed(n), Rank) : ready' = Rest \o seq
  /\ UNCHANGED <<registered, deps, dagOrder, sorting, result>>

\* Mutant: the entry check precedes the one for cycles.
VerdictEntryFirst ==
  IF Entries = {} THEN "noentry"
  ELSE IF Len(ordered) # Len(registered) THEN "cycle" ELSE "order"

Verdict ==
  IF Len(ordered) # Len(registered) THEN "cycle"
  ELSE IF Entries = {} THEN "noentry" ELSE "order"

(* The loop ends: an error, or the order is kept and returned. What the     *)
(* call kept in its locals is gone.                                         *)
Finish ==
  /\ sorting /\ ready = <<>>
  /\ sorting' = FALSE
  /\ result' = Verdict
  /\ dagOrder' = IF Verdict = "order" THEN ordered ELSE dagOrder
  /\ inDegree' = [n \in Names |-> 0]
  /\ ordered' = <<>>
  /\ UNCHANGED <<registered, deps, ready>>

-----------------------------------------------------------------------------
Next ==
  \/ \E n \in Names : RegisterTaken(n) \/ \E needs \in Declared[n] : Register(n, needs)
  \/ RunCached \/ RunUnknown \/ RunSort
  \/ Pop \/ Finish

Spec == Init /\ [][Next]_vars

-----------------------------------------------------------------------------
(* Every variable has its type.                                             *)
TypeOK ==
  /\ registered \in Seq(Names)
  /\ deps \in [Names -> SUBSET Refs]
  /\ dagOrder \in Seq(Names)
  /\ sorting \in BOOLEAN
  /\ inDegree \in [Names -> Nat]
  /\ ready \in Seq(Names)
  /\ ordered \in Seq(Names)
  /\ result \in {"none", "registered", "taken", "unknown", "sorting", "cycle",
                 "noentry", "order"}

(* seq lists each registered step once, after everything it depends on.     *)
Topological(seq) ==
  /\ SetOf(seq) = Known
  /\ \A i, j \in DOMAIN seq : seq[i] = seq[j] => i = j
  /\ \A i \in DOMAIN seq : \A d \in deps[seq[i]] : \E j \in DOMAIN seq : j < i /\ seq[j] = d

(* The order run() hands to the Scheduler is a topological order of the     *)
(* steps registered now, also when it was kept from an earlier run() and    *)
(* steps were registered since.                                             *)
OrderIsFresh == dagOrder # <<>> => Topological(dagOrder)

(* A pipeline is rejected as cyclic only if it is: some steps all wait for  *)
(* one another. (A cycle is never accepted: no topological order has one.)  *)
CycleIsReal ==
  result = "cycle" =>
    \E S \in SUBSET Known : S # {} /\ \A n \in S : deps[n] \cap S # {}

(* run() asks for an entry only of the empty pipeline: any other without an *)
(* entry has a cycle, and the check for cycles comes first.                 *)
NoEntryMeansEmpty == result = "noentry" => registered = <<>>

(* The loop of run() ends, whatever was declared: a turn orders one step,   *)
(* and no step is ordered, or made ready, a second time.                    *)
LoopEnds == Len(ordered) + Len(ready) <= Len(registered)
=============================================================================
