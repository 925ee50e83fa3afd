------------------------------ MODULE Registry ------------------------------
(***************************************************************************)
(* The provider registry of streamwright/providers/__init__.py: a cache of *)
(* one provider instance per provider name, each with an HTTP client of    *)
(* its own, filled by get_provider and emptied by aclose.                  *)
(*                                                                         *)
(* get_provider does not await. aclose awaits the closing of each client,  *)
(* and other tasks run meanwhile: they may get providers, or call aclose   *)
(* as well. An httpx client counts as closed from the moment its aclose()  *)
(* is called; closing a closed one returns without suspending.             *)
(***************************************************************************)
EXTENDS Integers, Sequences

CONSTANTS
  Providers,    \* the names in _PROVIDER_CLASSES
  Tasks,        \* the calls of aclose()
  MaxCreated    \* bound: how many instances of one provider are ever created

ASSUME BoundAssumption == MaxCreated \in Nat

Instances == [of : Providers, nr : 1 .. MaxCreated]

VARIABLES
  cache,        \* _provider_instances, a dict by name: its values in order
  client,       \* the HTTP client of each instance
  closer,       \* what each aclose() call is doing
  todo,         \* what is left of its list(_provider_instances.values())
  seen,         \* history: the whole of that list, as a set
  late          \* history: the instances created while an aclose() awaited

vars == <<cache, client, closer, todo, seen, late>>

SetOf(seq) == {seq[i] : i \in DOMAIN seq}

Cached == SetOf(cache)
Awaiting == {t \in Tasks : closer[t] = "awaiting"}

Init ==
  /\ cache = <<>>
  /\ client = [i \in Instances |-> "none"]
  /\ closer = [t \in Tasks |-> "idle"]
  /\ todo = [t \in Tasks |-> <<>>]
  /\ seen = [t \in Tasks |-> {}]
  /\ late = {}

-----------------------------------------------------------------------------
NotCached(p) == \A i \in Cached : i.of # p

(* get_provider, for a provider that is not cached: an instance is created  *)
(* and kept. (For a cached one it returns the instance and changes nothing; *)
(* for an unknown name or without an API key it raises and keeps nothing.)  *)
GetProvider(i) ==
  /\ NotCached(i.of)
  /\ client[i] = "none"
  /\ \A n \in 1 .. i.nr - 1 : client[[i EXCEPT !.nr = n]] # "none"
  /\ cache' = Append(cache, i)
  /\ client' = [client EXCEPT ![i] = "open"]
  /\ late' = IF Awaiting = {} THEN late ELSE late \cup {i}
  /\ UNCHANGED <<closer, todo, seen>>

-----------------------------------------------------------------------------
(* The first instance of `list` whose client is still open.                 *)
NextOpen(list, j) ==
  /\ j \in DOMAIN list /\ client[list[j]] = "open"
  /\ \A k \in 1 .. j - 1 : client[list[k]] # "open"

\* Mutant: the cache is cleared before the clients are closed.
ClearedEarly(t) == <<>>

(* The cache while the loop still has an instance to close.                 *)
Kept(t) == cache

\* Mutant: _provider_instances.clear() is missing.
NotCleared(t) == cache

Cleared(t) == <<>>

\* Mutant: the loop leaves out the last instance of the list.
NoneOpenButLast(list) == \A j \in DOMAIN list : j < Len(list) => client[list[j]] # "open"

NoneOpen(list) == \A j \in DOMAIN list : client[list[j]] # "open"

(* aclose() runs on to its next suspension: instances that are closed       *)
(* already do not suspend it; one that is open is closed and awaited; after *)
(* the last of the list the cache is cleared and aclose() returns.          *)
GoOn(t, list) ==
  \/ /\ NoneOpen(list)
     /\ closer' = [closer EXCEPT ![t] = "returned"]
     /\ todo' = [todo EXCEPT ![t] = <<>>]
     /\ cache' = Cleared(t)
     /\ UNCHANGED client
  \/ /\ ~NoneOpen(list)
     /\ \E j \in DOMAIN list :
          /\ NextOpen(list, j)
          /\ closer' = [closer EXCEPT ![t] = "awaiting"]
          /\ todo' = [todo EXCEPT ![t] = SubSeq(list, j + 1, Len(list))]
          /\ client' = [client EXCEPT ![list[j]] = "closed"]
          /\ cache' = Kept(t)

Begin(t) ==
  /\ closer[t] = "idle"
  /\ GoOn(t, cache)
  /\ seen' = [seen EXCEPT ![t] = Cached]
  /\ UNCHANGED late

Continue(t) ==
  /\ closer[t] = "awaiting"
  /\ GoOn(t, todo[t])
  /\ UNCHANGED <<seen, late>>

(* The await raises, for an error of the transport or because the task is   *)
(* cancelled: the rest of the list and the cache stay as they are.          *)
Fail(t) ==
  /\ closer[t] = "awaiting"
  /\ closer' = [closer EXCEPT ![t] = "failed"]
  /\ todo' = [todo EXCEPT ![t] = <<>>]
  /\ UNCHANGED <<cache, client, seen, late>>

Next ==
  \/ \E i \in Instances : GetProvider(i)
  \/ \E t \in Tasks : Begin(t) \/ Continue(t) \/ Fail(t)

Spec == Init /\ [][Next]_vars

-----------------------------------------------------------------------------
(* Every variable has its type.                                             *)
TypeOK ==
  /\ cache \in Seq(Instances)
  /\ client \in [Instances -> {"none", "open", "closed"}]
  /\ closer \in [Tasks -> {"idle", "awaiting", "returned", "failed"}]
  /\ todo \in [Tasks -> Seq(Instances)]
  /\ seen \in [Tasks -> SUBSET Instances]
  /\ late \subseteq Instances

(* An aclose() that returned has closed every client that was cached when   *)
(* it was called, whatever other tasks did to the cache in the meantime.    *)
ReturnedHasClosed ==
  \A t \in Tasks : closer[t] = "returned" => \A i \in seen[t] : client[i] = "closed"

(* get_provider hands out a closed provider only while an aclose() is under *)
(* way, or after one that failed.                                           *)
ClosedOnlyBecauseOfAclose ==
  (\E i \in Cached : client[i] = "closed") =>
    \E t \in Tasks : closer[t] \in {"awaiting", "failed"}

(* The only clients that can be lost, open but no longer cached, are those  *)
(* of instances created while an aclose() awaited.                          *)
LeaksOnlyLate ==
  \A i \in Instances : client[i] = "open" /\ i \notin Cached => i \in late
=============================================================================
