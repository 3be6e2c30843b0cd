------------------------------ MODULE NodeGraph ------------------------------
(***************************************************************************)
(* NodeStore::init of the strategy contract: the validation a proposed     *)
(* list of nodes goes through before it becomes the strategy, and the      *)
(* storage map the accepted nodes are written to.                          *)
(*                                                                         *)
(* The validation runs inside one transaction.  The scan over the nodes is *)
(* one step, because any error in it aborts the transaction; Kahn's        *)
(* algorithm is one step per node it pops.  A node is written to storage   *)
(* while it is scanned, but the write survives only when the transaction   *)
(* commits, so `stored' changes when the graph is accepted.                *)
(***************************************************************************)
EXTENDS Integers, FiniteSets, Functions

CONSTANTS
  Graphs,           \* the node lists that may be proposed, numbered from 0
  MaxStrategySize,  \* MAX_STRATEGY_SIZE
  NONE              \* an absent edge

Slots == {"next", "on_success", "on_failure"}

Kinds == {"action", "condition", "schedule"}

\* `initialises' says whether the node's own Operation::init succeeds; a
\* schedule is the one condition that may have no branch at all.
Node == [kind        : Kinds,
         index       : Nat,
         exits       : [Slots -> Nat \cup {NONE}],
         size        : Nat,
         initialises : BOOLEAN]

Count(g) == Cardinality(DOMAIN g)

IsNodeList(g) ==
  /\ IsFiniteSet(DOMAIN g)
  /\ DOMAIN g = 0 .. (Count(g) - 1)
  /\ g \in [DOMAIN g -> Node]

ASSUME GraphsAssumption ==
  /\ NONE \notin Nat
  /\ MaxStrategySize \in Nat
  /\ \A g \in Graphs : IsNodeList(g)

VARIABLES
  stored,           \* NODES: index -> node, what the contract executes
  current,          \* history: the node list accepted last
  graph,            \* the node list under validation
  verdict,          \* what became of `graph'
  in_degrees,       \* Kahn: edges into a node from nodes not yet processed
  queue,            \* Kahn: nodes ready to be processed
  processed_count,  \* Kahn: nodes popped so far
  done              \* history: the nodes popped so far

vars == <<stored, current, graph, verdict, in_degrees, queue,
          processed_count, done>>

Verdicts == {"none", "pending", "accepted", "invalid", "too_large", "cyclic"}

EmptyGraph == [i \in {} |-> NONE]

-----------------------------------------------------------------------------
(* The scan over the proposed nodes *)

IndexMatches(g, i) == g[i].index = i

\* Slip: a branch compared with the number of nodes, not with the last index.
TargetsExistOffByOne(g, i) ==
  \A s \in Slots : g[i].exits[s] \in (0 .. Count(g)) \cup {NONE}

TargetsExist(g, i) ==
  \A s \in Slots : g[i].exits[s] \in (0 .. Count(g) - 1) \cup {NONE}

HasBranch(g, i) ==
  g[i].kind = "condition" =>
    {g[i].exits["on_success"], g[i].exits["on_failure"]} # {NONE}

WellFormed(g) ==
  \A i \in DOMAIN g : /\ IndexMatches(g, i)
                      /\ HasBranch(g, i)
                      /\ TargetsExist(g, i)
                      /\ g[i].initialises

StrategySize(g) ==
  FoldFunction(LAMBDA a, b : a + b, 0, [i \in DOMAIN g |-> g[i].size])

\* adj_list: one edge per branch taken, so that the two branches of a condition
\* to one node are two edges.  An edge is the node and the slot it leaves from.
Target(g, e) == g[e[1]].exits[e[2]]

\* Slip: the failure branches are not entered in the adjacency list.
EdgesWithoutFailure(g) ==
  {e \in (DOMAIN g) \X (Slots \ {"on_failure"}) : Target(g, e) \in DOMAIN g}

Edges(g) == {e \in (DOMAIN g) \X Slots : Target(g, e) \in DOMAIN g}

InEdges(g, v) == {e \in Edges(g) : Target(g, e) = v}

EdgesBetween(g, u, v) == {e \in InEdges(g, v) : e[1] = u}

-----------------------------------------------------------------------------

Init ==
  /\ stored = EmptyGraph
  /\ current = EmptyGraph
  /\ graph = EmptyGraph
  /\ verdict = "none"
  /\ in_degrees = EmptyGraph
  /\ queue = {}
  /\ processed_count = 0
  /\ done = {}

\* The transaction fails during the scan or at the size check.
RejectEarly(g, why) ==
  /\ graph' = g
  /\ verdict' = why
  /\ in_degrees' = EmptyGraph
  /\ queue' = {}
  /\ processed_count' = 0
  /\ done' = {}
  /\ UNCHANGED <<stored, current>>

RejectMalformed(g) ==
  /\ verdict # "pending"
  /\ ~WellFormed(g)
  /\ RejectEarly(g, "invalid")

RejectOversized(g) ==
  /\ verdict # "pending"
  /\ WellFormed(g)
  /\ StrategySize(g) > MaxStrategySize
  /\ RejectEarly(g, "too_large")

\* Slip: a node's degree counts the nodes that lead to it, not the branches.
StartSortByNode(g) ==
  /\ verdict # "pending"
  /\ WellFormed(g)
  /\ StrategySize(g) <= MaxStrategySize
  /\ graph' = g
  /\ verdict' = "pending"
  /\ in_degrees' = [v \in DOMAIN g |-> Cardinality({e[1] : e \in InEdges(g, v)})]
  /\ queue' = {v \in DOMAIN g : InEdges(g, v) = {}}
  /\ processed_count' = 0
  /\ done' = {}
  /\ UNCHANGED <<stored, current>>

StartSort(g) ==
  /\ verdict # "pending"
  /\ WellFormed(g)
  /\ StrategySize(g) <= MaxStrategySize
  /\ graph' = g
  /\ verdict' = "pending"
  /\ in_degrees' = [v \in DOMAIN g |-> Cardinality(InEdges(g, v))]
  /\ queue' = {v \in DOMAIN g : Cardinality(InEdges(g, v)) = 0}
  /\ processed_count' = 0
  /\ done' = {}
  /\ UNCHANGED <<stored, current>>

\* One iteration of the outer loop.  The code's queue is a stack; nothing
\* depends on the order, so any queued node may be popped.
LeftAfter(u) ==
  [v \in DOMAIN graph |->
     in_degrees[v] - Cardinality(EdgesBetween(graph, u, v))]

Freed(u) ==
  {v \in DOMAIN graph : /\ EdgesBetween(graph, u, v) # {}
                        /\ LeftAfter(u)[v] = 0}

\* Slip: the node popped stays in the queue, and no node is processed twice.
PopWithoutRemoving(u) ==
  /\ verdict = "pending"
  /\ u \in queue \ done
  /\ processed_count' = processed_count + 1
  /\ done' = done \cup {u}
  /\ in_degrees' = LeftAfter(u)
  /\ queue' = queue \cup Freed(u)
  /\ UNCHANGED <<stored, current, graph, verdict>>

Pop(u) ==
  /\ verdict = "pending"
  /\ u \in queue
  /\ processed_count' = processed_count + 1
  /\ done' = done \cup {u}
  /\ in_degrees' = LeftAfter(u)
  /\ queue' = (queue \ {u}) \cup Freed(u)
  /\ UNCHANGED <<stored, current, graph, verdict>>

Accept ==
  /\ verdict = "pending"
  /\ queue = {}
  /\ processed_count = Count(graph)
  /\ verdict' = "accepted"
  /\ stored' = [i \in DOMAIN stored \cup DOMAIN graph |->
                  IF i \in DOMAIN graph THEN graph[i] ELSE stored[i]]
  /\ current' = graph
  /\ UNCHANGED <<graph, in_degrees, queue, processed_count, done>>

RejectCyclic ==
  /\ verdict = "pending"
  /\ queue = {}
  /\ processed_count # Count(graph)
  /\ verdict' = "cyclic"
  /\ UNCHANGED <<stored, current, graph, in_degrees, queue,
                 processed_count, done>>

Propose == \E g \in Graphs : \/ RejectMalformed(g)
                             \/ RejectOversized(g)
                             \/ StartSort(g)

Sort == (\E u \in queue : Pop(u)) \/ Accept \/ RejectCyclic

Next == Propose \/ Sort

\* A transaction that has begun runs to its end; nobody has to propose.
Spec == Init /\ [][Next]_vars /\ WF_vars(Sort)

-----------------------------------------------------------------------------
(* Properties *)

\* What executing the graph can do: walk from u to v.
Follows(g, u, v) == \E s \in Slots : g[u].exits[s] = v

\* A set of nodes each of which is entered from the set: it holds a cycle.
IsCore(g, S) ==
  /\ S \subseteq DOMAIN g
  /\ \A v \in S : \E u \in S : Follows(g, u, v)

Acyclic(g) == \A S \in SUBSET DOMAIN g : IsCore(g, S) => S = {}

Shapes ==
  /\ verdict \in Verdicts
  /\ graph \in Graphs \cup {EmptyGraph}
  /\ current \in Graphs \cup {EmptyGraph}
  /\ stored \in [DOMAIN stored -> Node]
  /\ DOMAIN stored \subseteq Nat
  /\ DOMAIN in_degrees \subseteq DOMAIN graph
  /\ in_degrees \in [DOMAIN in_degrees -> Int]
  /\ queue \subseteq DOMAIN graph
  /\ done \subseteq DOMAIN graph
  /\ processed_count \in Nat

\* in_degrees[neighbor] -= 1 never goes below zero: overflow checks are on in
\* the release profile, so an underflow would abort the transaction.
DegreesNeverUnderflow == \A v \in DOMAIN in_degrees : in_degrees[v] >= 0

\* Every variable has its type, the counts of the sort among them, which are
\* unsigned in the code.
TypeOK == Shapes /\ DegreesNeverUnderflow

\* An accepted strategy has no cycle, whichever branches its conditions take:
\* the guarantee that one run of the process loop ends (state.rs, Kahn's sort).
AcceptedIsAcyclic == verdict = "accepted" => Acyclic(graph)

\* The sort never turns away a strategy that has no cycle, even when branches
\* converge on one node or both branches of a condition lead to it.
RefusedIsCyclic == verdict = "cyclic" => ~Acyclic(graph)

\* The verdict of the sort is right both ways, for convergent branches, double
\* edges and separate parts alike: it is the one check of a list's shape.
SortIsExact == AcceptedIsAcyclic /\ RefusedIsCyclic

\* The order of the queue may be abstracted because no node is queued twice:
\* what a pop pushes is neither waiting nor already processed.
PushedAtMostOnce ==
  [][\A u \in queue : Pop(u) => Freed(u) \cap (queue \cup done) = {}]_vars

\* Updates leave the nodes of longer, older strategies in the map.  A walk
\* from a node of the current, non-empty strategy never enters one of them.
StaleNodesUnreachable ==
  \A i \in DOMAIN current :
    /\ i \in DOMAIN stored
    /\ stored[i] = current[i]
    /\ \A s \in Slots : stored[i].exits[s] \in DOMAIN current \cup {NONE}

\* Every validation that begins comes to a verdict.
SortTerminates == (verdict = "pending") ~> (verdict # "pending")

=============================================================================
