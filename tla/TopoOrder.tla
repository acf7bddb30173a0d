----------------------------- MODULE TopoOrder -----------------------------
(***************************************************************************)
(* topo_order_() of src/supervisor.cpp, on every configuration that        *)
(* add_process accepts: a dependency list may repeat a name, contain the   *)
(* process itself, close a cycle, or name a process that is not there.     *)
(* The loops are over unordered_maps: names come in any order.             *)
(***************************************************************************)
EXTENDS Integers, Sequences, FiniteSets

CONSTANTS
  Names,          \* the keys of specs_
  DepLists        \* the values ProcessSpec::deps may have

ASSUME NamesAssumption == IsFiniteSet(Names)
ASSUME DepListsAssumption == \A l \in DepLists : Len(l) \in Nat

VARIABLES
  deps,           \* deps[n] is ProcessSpec::deps of n
  indeg,
  q,              \* the work list; order is what has been taken from it
  visited,        \* how much has been taken
  relaxing,       \* what is left of out[u], for the name u taken last
  result

vars == <<deps, indeg, q, visited, relaxing, result>>

Results == {"called", "counted", "sorting", "returned", "unknown dependency",
            "dependency cycle"}

Elements(s) == {s[k] : k \in 1..Len(s)}

\* The places at which n names u.  out[u] lists n once for each of them.
Places(n, u) == {k \in 1..Len(deps[n]) : deps[n][k] = u}
Out(u) == [n \in Names |-> Places(n, u)]

Init ==
  /\ deps \in [Names -> DepLists]
  /\ indeg = [n \in Names |-> 0]
  /\ q = <<>>
  /\ visited = 0
  /\ relaxing = [n \in Names |-> {}]
  /\ result = "called"

--------------------------------------------------------------------------
UnknownDependency ==
  /\ result = "called"
  /\ \E n \in Names : ~(Elements(deps[n]) \subseteq Names)
  /\ result' = "unknown dependency"
  /\ UNCHANGED <<deps, indeg, q, visited, relaxing>>

\* (Mutation of Mentions: a name that is listed twice counts once.)
MentionsOnce(n) == Cardinality(Elements(deps[n]))

\* What indeg[name]++ adds up to.
Mentions(n) == Len(deps[n])

Count ==
  /\ result = "called"
  /\ \A n \in Names : Elements(deps[n]) \subseteq Names
  /\ indeg' = [n \in Names |-> Mentions(n)]
  /\ result' = "counted"
  /\ UNCHANGED <<deps, q, visited, relaxing>>

\* The listings of a finite set: each element once.
Listings(S) ==
  {s \in [1..Cardinality(S) -> S] :
     /\ \A j, k \in DOMAIN s : s[j] = s[k] => j = k
     /\ \A x \in S : \E k \in DOMAIN s : s[k] = x}

Seed ==
  /\ result = "counted"
  /\ q' \in Listings({n \in Names : indeg[n] = 0})
  /\ result' = "sorting"
  /\ UNCHANGED <<deps, indeg, visited, relaxing>>

Relaxed == \A n \in Names : relaxing[n] = {}

Visit ==
  /\ result = "sorting" /\ Relaxed
  /\ visited < Len(q)
  /\ visited' = visited + 1
  /\ relaxing' = Out(q[visited + 1])
  /\ UNCHANGED <<deps, indeg, q, result>>

\* (Mutation of Relax: only the first mention of a name is in out[u].)
RelaxOncePerName(n, k) ==
  /\ result = "sorting"
  /\ k \in relaxing[n]
  /\ relaxing' = [relaxing EXCEPT ![n] = {}]
  /\ indeg' = [indeg EXCEPT ![n] = @ - 1]
  /\ q' = IF indeg[n] - 1 = 0 THEN Append(q, n) ELSE q
  /\ UNCHANGED <<deps, visited, result>>

Relax(n, k) ==
  /\ result = "sorting"
  /\ k \in relaxing[n]
  /\ relaxing' = [relaxing EXCEPT ![n] = @ \ {k}]
  /\ indeg' = [indeg EXCEPT ![n] = @ - 1]
  /\ q' = IF indeg[n] - 1 = 0 THEN Append(q, n) ELSE q
  /\ UNCHANGED <<deps, visited, result>>

\* (Mutation of Finish: it waits for an order that is complete.)
FinishComplete ==
  /\ result = "sorting" /\ Relaxed
  /\ visited = Len(q) /\ Len(q) = Cardinality(Names)
  /\ result' = "returned"
  /\ UNCHANGED <<deps, indeg, q, visited, relaxing>>

Finish ==
  /\ result = "sorting" /\ Relaxed
  /\ visited = Len(q)
  /\ result' = IF Len(q) = Cardinality(Names) THEN "returned"
               ELSE "dependency cycle"
  /\ UNCHANGED <<deps, indeg, q, visited, relaxing>>

Ended == result \in {"returned", "unknown dependency", "dependency cycle"}

Done == Ended /\ UNCHANGED vars

Next ==
  \/ UnknownDependency \/ Count \/ Seed \/ Visit
  \/ \E n \in Names : \E k \in relaxing[n] : Relax(n, k)
  \/ Finish \/ Done

Spec == Init /\ [][Next]_vars

FairSpec == Spec /\ WF_vars(Next)

--------------------------------------------------------------------------
TypeOK ==
  /\ deps \in [Names -> DepLists]
  /\ indeg \in [Names -> Int]
  /\ q \in Seq(Names)
  /\ visited \in 0..Len(q)
  /\ relaxing \in [Names -> SUBSET Nat]
  /\ result \in Results

\* s starts every process once, each after all it depends on: what
\* SupervisorTypes!OrderAssumption says of Order.
StartsInOrder(s) ==
  /\ \A n \in Names : \E k \in 1..Len(s) : s[k] = n
  /\ \A j, k \in 1..Len(s) :
        /\ s[j] = s[k] => j = k
        /\ s[j] \in Elements(deps[s[k]]) => j < k

\* What topo_order_() returns is an order in which start_all() can start the
\* processes, for every iteration order of the maps and with names that are
\* listed twice.
ReturnsOrder == result = "returned" => StartsInOrder(q)

\* It refuses a configuration only for a reason: a dependency that is not
\* configured, or there is no such order.
RefusesRightly ==
  /\ result = "unknown dependency" =>
       \E n \in Names : \E d \in Elements(deps[n]) : d \notin Names
  /\ result = "dependency cycle" => ~\E s \in Listings(Names) : StartsInOrder(s)

\* It ends on every configuration, also on a cyclic one.
Ends == <>Ended
==========================================================================
