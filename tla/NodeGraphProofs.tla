--------------------------- MODULE NodeGraphProofs ---------------------------
(***************************************************************************)
(* The sort of NodeStore::init is correct for every set of node lists.     *)
(***************************************************************************)
EXTENDS NodeGraph, FiniteSetTheorems, TLAPS

Sorting == verdict \in {"pending", "accepted", "cyclic"}

\* The edges into v from nodes the sort has not processed.
Waiting(v) == {e \in InEdges(graph, v) : e[1] \notin done}

Bookkeeping ==
  /\ graph \in Graphs
  /\ done \subseteq DOMAIN graph
  /\ queue \subseteq DOMAIN graph
  /\ queue \cap done = {}
  /\ processed_count = Cardinality(done)
  /\ in_degrees \in [DOMAIN graph -> Int]

DegreesCount ==
  \A v \in DOMAIN graph : in_degrees[v] = Cardinality(Waiting(v))

ReadyIsQueuedOrDone ==
  \A v \in DOMAIN graph : in_degrees[v] = 0 <=> v \in queue \cup done

CoresUntouched == \A S : IsCore(graph, S) => S \cap done = {}

Outcome ==
  /\ verdict = "accepted" => processed_count = Count(graph)
  /\ verdict = "cyclic" => queue = {} /\ processed_count # Count(graph)

SortInv ==
  IF Sorting
    THEN /\ Bookkeeping
         /\ DegreesCount
         /\ ReadyIsQueuedOrDone
         /\ CoresUntouched
         /\ Outcome
    ELSE in_degrees = EmptyGraph

-----------------------------------------------------------------------------
(* Facts about the edges *)

LEMMA EdgesFinite ==
  ASSUME NEW g \in Graphs
  PROVE  /\ IsFiniteSet(DOMAIN g)
         /\ IsFiniteSet(Edges(g))
         /\ \A v : IsFiniteSet(InEdges(g, v))
<1>1. IsFiniteSet(DOMAIN g)
  BY GraphsAssumption DEF IsNodeList
<1>2. IsFiniteSet(Slots)
  <2>1. IsFiniteSet({}) /\ IsFiniteSet({"next"})
    BY FS_EmptySet, FS_Singleton
  <2>2. IsFiniteSet({"next"} \cup {"on_success"})
    BY <2>1, FS_AddElement
  <2>3. IsFiniteSet({"next"} \cup {"on_success"} \cup {"on_failure"})
    BY <2>2, FS_AddElement
  <2>4. Slots = {"next"} \cup {"on_success"} \cup {"on_failure"}
    BY DEF Slots
  <2> QED BY <2>3, <2>4
<1>3. IsFiniteSet((DOMAIN g) \X Slots)
  BY <1>1, <1>2, FS_Product
<1>4. IsFiniteSet(Edges(g))
  BY <1>3, FS_Subset DEF Edges
<1>5. \A v : IsFiniteSet(InEdges(g, v))
  BY <1>4, FS_Subset DEF InEdges
<1> QED BY <1>1, <1>4, <1>5

LEMMA WaitingFinite ==
  ASSUME graph \in Graphs
  PROVE  \A v : IsFiniteSet(Waiting(v)) /\ Cardinality(Waiting(v)) \in Nat
<1> TAKE v
<1>1. IsFiniteSet(InEdges(graph, v))
  BY EdgesFinite
<1>2. IsFiniteSet(Waiting(v))
  BY <1>1, FS_Subset DEF Waiting
<1> QED BY <1>2, FS_CardinalityType

\* What one node leads to, said once over branches and once over edges.
LEMMA FollowsIsEdge ==
  ASSUME NEW u \in DOMAIN graph, NEW v \in DOMAIN graph
  PROVE  Follows(graph, u, v) <=> EdgesBetween(graph, u, v) # {}
<1>1. ASSUME Follows(graph, u, v)
      PROVE  EdgesBetween(graph, u, v) # {}
  <2>1. PICK s \in Slots : graph[u].exits[s] = v
    BY <1>1 DEF Follows
  <2>2. <<u, s>> \in EdgesBetween(graph, u, v)
    BY <2>1 DEF EdgesBetween, InEdges, Edges, Target
  <2> QED BY <2>2
<1>2. ASSUME EdgesBetween(graph, u, v) # {}
      PROVE  Follows(graph, u, v)
  <2>1. PICK e \in (DOMAIN graph) \X Slots : e[1] = u /\ Target(graph, e) = v
    BY <1>2 DEF EdgesBetween, InEdges, Edges
  <2> QED BY <2>1 DEF Follows, Target
<1> QED BY <1>1, <1>2

\* Popping u takes exactly u's edges out of the edges v waits for.
LEMMA WaitingAfterPop ==
  ASSUME graph \in Graphs, NEW u \in DOMAIN graph, u \notin done,
         NEW v \in DOMAIN graph,
         graph' = graph, done' = done \cup {u}
  PROVE  /\ Waiting(v)' = Waiting(v) \ EdgesBetween(graph, u, v)
         /\ EdgesBetween(graph, u, v) \subseteq Waiting(v)
         /\ Cardinality(Waiting(v)') =
              Cardinality(Waiting(v)) - Cardinality(EdgesBetween(graph, u, v))
<1>1. EdgesBetween(graph, u, v) \subseteq Waiting(v)
  BY DEF EdgesBetween, Waiting
<1>2. Waiting(v)' = Waiting(v) \ EdgesBetween(graph, u, v)
  BY DEF EdgesBetween, Waiting
<1>3. IsFiniteSet(Waiting(v)) /\ IsFiniteSet(EdgesBetween(graph, u, v))
  BY <1>1, WaitingFinite, FS_Subset
<1>4. Cardinality(Waiting(v) \ EdgesBetween(graph, u, v)) =
        Cardinality(Waiting(v))
          - Cardinality(Waiting(v) \cap EdgesBetween(graph, u, v))
  BY <1>3, FS_Difference
<1>5. Waiting(v) \cap EdgesBetween(graph, u, v) = EdgesBetween(graph, u, v)
  BY <1>1
<1> QED BY <1>1, <1>2, <1>4, <1>5

-----------------------------------------------------------------------------
(* The invariant is inductive *)

LEMMA StartSortEstablishes ==
  ASSUME NEW g \in Graphs, StartSort(g)
  PROVE  SortInv'
<1> USE DEF StartSort
<1>1. graph' = g /\ verdict' = "pending" /\ done' = {} /\ processed_count' = 0
  OBVIOUS
<1>2. \A v \in DOMAIN g : /\ IsFiniteSet(InEdges(g, v))
                          /\ Cardinality(InEdges(g, v)) \in Nat
  BY EdgesFinite, FS_CardinalityType
<1>3. Bookkeeping'
  BY <1>2, FS_EmptySet DEF Bookkeeping
<1>4. DegreesCount'
  <2>1. \A v \in DOMAIN g : Waiting(v)' = InEdges(g, v)
    BY DEF Waiting
  <2> QED BY <2>1 DEF DegreesCount
<1>5. ReadyIsQueuedOrDone'
  BY DEF ReadyIsQueuedOrDone
<1>6. CoresUntouched' /\ Outcome'
  BY DEF CoresUntouched, Outcome
<1> QED BY <1>1, <1>3, <1>4, <1>5, <1>6 DEF SortInv, Sorting

\* Nodes that are waiting or processed have no edge left, so a pop frees none
\* of them.
LEMMA FreedIsNew ==
  ASSUME SortInv, Sorting, NEW u \in queue
  PROVE  Freed(u) \cap (queue \cup done) = {}
<1> USE DEF SortInv, Bookkeeping
<1> SUFFICES ASSUME NEW v \in Freed(u), v \in queue \cup done
             PROVE  FALSE
  OBVIOUS
<1>1. v \in DOMAIN graph /\ EdgesBetween(graph, u, v) # {}
  BY DEF Freed
<1>2. Cardinality(Waiting(v)) = 0
  BY <1>1 DEF ReadyIsQueuedOrDone, DegreesCount
<1>3. Waiting(v) = {}
  BY <1>2, WaitingFinite, FS_EmptySet
<1>4. EdgesBetween(graph, u, v) \subseteq Waiting(v)
  BY DEF EdgesBetween, Waiting
<1> QED BY <1>1, <1>3, <1>4

LEMMA PopPreserves ==
  ASSUME SortInv, NEW u \in queue, Pop(u)
  PROVE  SortInv'
<1> USE DEF Pop
<1>0. Sorting /\ Sorting' /\ verdict' = "pending"
  BY DEF Sorting
<1>1. /\ Bookkeeping /\ DegreesCount /\ ReadyIsQueuedOrDone /\ CoresUntouched
      /\ u \in DOMAIN graph /\ u \notin done /\ graph' = graph
      /\ graph \in Graphs
  BY <1>0 DEF SortInv, Bookkeeping
<1>2. Freed(u) \cap (queue \cup done) = {}
  BY <1>0, FreedIsNew
<1>3. \A v \in DOMAIN graph :
        /\ Waiting(v)' = Waiting(v) \ EdgesBetween(graph, u, v)
        /\ Cardinality(Waiting(v)') =
             Cardinality(Waiting(v)) - Cardinality(EdgesBetween(graph, u, v))
  BY <1>1, WaitingAfterPop
<1>4. DegreesCount'
  BY <1>1, <1>3 DEF DegreesCount, LeftAfter
<1>5. \A v : Cardinality(Waiting(v)) \in Nat /\ IsFiniteSet(Waiting(v))
  BY <1>1, WaitingFinite
<1>6. \A v : IsFiniteSet(Waiting(v)')
  <2>1. graph' \in Graphs
    BY <1>1
  <2>2. \A v : IsFiniteSet(InEdges(graph', v))
    BY <2>1, EdgesFinite
  <2> QED BY <2>2, FS_Subset DEF Waiting
<1>7. Bookkeeping'
  <2>1. IsFiniteSet(done)
    BY <1>1, EdgesFinite, FS_Subset DEF Bookkeeping
  <2>2. Cardinality(done \cup {u}) = Cardinality(done) + 1
    BY <1>1, <2>1, FS_AddElement
  <2>3. in_degrees' \in [DOMAIN graph -> Int]
    <3>1. \A v \in DOMAIN graph : Cardinality(EdgesBetween(graph, u, v)) \in Nat
      BY <1>1, EdgesFinite, FS_Subset, FS_CardinalityType DEF EdgesBetween
    <3> QED BY <1>1, <3>1 DEF Bookkeeping, LeftAfter
  <2>4. Freed(u) \subseteq DOMAIN graph
    BY DEF Freed
  <2>5. queue' \subseteq DOMAIN graph /\ done' \subseteq DOMAIN graph
    BY <1>1, <2>4 DEF Bookkeeping
  <2>6. queue' \cap done' = {}
    BY <1>1, <1>2 DEF Bookkeeping
  <2> QED BY <1>1, <2>2, <2>3, <2>5, <2>6 DEF Bookkeeping
<1>8. ReadyIsQueuedOrDone'
  <2> SUFFICES ASSUME NEW v \in DOMAIN graph
               PROVE  in_degrees'[v] = 0 <=> v \in (queue \cup done)'
    BY <1>1 DEF ReadyIsQueuedOrDone
  <2>1. in_degrees[v] = 0 <=> v \in queue \cup done
    BY <1>1 DEF ReadyIsQueuedOrDone
  <2>2. (queue \cup done)' = queue \cup done \cup Freed(u)
    OBVIOUS
  <2>3. in_degrees'[v] = LeftAfter(u)[v]
    OBVIOUS
  <2>4. in_degrees'[v] = 0 <=> Waiting(v)' = {}
    <3>1. in_degrees'[v] = Cardinality(Waiting(v)')
      BY <1>1, <1>4 DEF DegreesCount
    <3> QED BY <1>6, <3>1, FS_EmptySet
  <2>5. in_degrees[v] = 0 <=> Waiting(v) = {}
    BY <1>1, <1>5, FS_EmptySet DEF DegreesCount
  <2>6. CASE EdgesBetween(graph, u, v) = {}
    <3>1. Waiting(v)' = Waiting(v) /\ v \notin Freed(u)
      BY <1>3, <2>6 DEF Freed
    <3> QED BY <2>1, <2>2, <2>4, <2>5, <3>1
  <2>7. CASE EdgesBetween(graph, u, v) # {}
    <3>1. v \in Freed(u) <=> in_degrees'[v] = 0
      BY <2>3, <2>7 DEF Freed
    <3>2. EdgesBetween(graph, u, v) \subseteq Waiting(v)
      BY <1>1, WaitingAfterPop
    <3>3. v \notin queue \cup done
      BY <2>1, <2>5, <2>7, <3>2
    <3> QED BY <2>2, <3>1, <3>3
  <2> QED BY <2>6, <2>7
<1>9. CoresUntouched'
  <2> SUFFICES ASSUME NEW S, IsCore(graph, S), u \in S
               PROVE  FALSE
    BY <1>1 DEF CoresUntouched
  <2>1. PICK w \in S : Follows(graph, w, u)
    BY DEF IsCore
  <2>2. w \in DOMAIN graph /\ w \notin done
    BY <1>1 DEF IsCore, CoresUntouched
  <2>3. EdgesBetween(graph, w, u) # {}
    BY <1>1, <2>1, <2>2, FollowsIsEdge
  <2>4. Waiting(u) # {}
    BY <2>2, <2>3 DEF Waiting, EdgesBetween
  <2>5. in_degrees[u] = 0
    BY <1>1 DEF ReadyIsQueuedOrDone
  <2> QED BY <1>1, <1>5, <2>4, <2>5, FS_EmptySet DEF DegreesCount
<1>10. Outcome'
  BY <1>0 DEF Outcome
<1> QED BY <1>0, <1>4, <1>7, <1>8, <1>9, <1>10 DEF SortInv

\* What survives between validations: the nodes accepted last are in the map,
\* and their branches stay among them.
StoreInv ==
  /\ verdict = "pending" => WellFormed(graph)
  /\ StaleNodesUnreachable

IInv == Shapes /\ SortInv /\ StoreInv

LEMMA InitIInv == Init => IInv
<1> SUFFICES ASSUME Init PROVE IInv
  OBVIOUS
<1> USE DEF Init, EmptyGraph
<1>1. Shapes
  BY DEF Shapes, Verdicts
<1>2. SortInv
  BY DEF SortInv, Sorting
<1>3. StoreInv
  BY DEF StoreInv, StaleNodesUnreachable
<1> QED BY <1>1, <1>2, <1>3 DEF IInv

LEMMA RejectEarlyPreserves ==
  ASSUME IInv, NEW g \in Graphs, NEW why \in {"invalid", "too_large"},
         RejectEarly(g, why)
  PROVE  IInv'
<1> USE DEF RejectEarly, EmptyGraph
<1>1. Shapes'
  BY DEF IInv, Shapes, Verdicts
<1>2. SortInv'
  BY DEF SortInv, Sorting
<1>3. StoreInv'
  BY DEF IInv, StoreInv, StaleNodesUnreachable
<1> QED BY <1>1, <1>2, <1>3 DEF IInv

LEMMA StartSortPreserves ==
  ASSUME IInv, NEW g \in Graphs, StartSort(g)
  PROVE  IInv'
<1> USE DEF StartSort
<1>1. SortInv'
  BY StartSortEstablishes
<1>2. Shapes'
  <2>1. Bookkeeping'
    BY <1>1 DEF SortInv, Sorting
  <2> QED BY <2>1 DEF IInv, Shapes, Verdicts, Bookkeeping
<1>3. StoreInv'
  BY DEF IInv, StoreInv, StaleNodesUnreachable
<1> QED BY <1>1, <1>2, <1>3 DEF IInv

LEMMA PopKeepsInv ==
  ASSUME IInv, NEW u \in queue, Pop(u)
  PROVE  IInv'
<1> USE DEF Pop
<1>1. SortInv'
  BY PopPreserves DEF IInv
<1>2. Shapes'
  <2>1. Bookkeeping'
    BY <1>1 DEF SortInv, Sorting
  <2> QED BY <2>1 DEF IInv, Shapes, Bookkeeping
<1>3. StoreInv'
  BY DEF IInv, StoreInv, StaleNodesUnreachable
<1> QED BY <1>1, <1>2, <1>3 DEF IInv

LEMMA AcceptPreserves ==
  ASSUME IInv, Accept
  PROVE  IInv'
<1> USE DEF Accept
<1>0. /\ graph \in Graphs /\ graph \in [DOMAIN graph -> Node]
      /\ DOMAIN graph = 0 .. (Count(graph) - 1)
  BY GraphsAssumption DEF IInv, SortInv, Sorting, Bookkeeping, IsNodeList
<1>1. SortInv'
  BY DEF IInv, SortInv, Sorting, Bookkeeping, DegreesCount, Waiting,
         ReadyIsQueuedOrDone, CoresUntouched, Outcome
<1>2. Shapes'
  <2>1. stored \in [DOMAIN stored -> Node] /\ DOMAIN stored \subseteq Nat
    BY DEF IInv, Shapes
  <2>2. DOMAIN graph \subseteq Nat
    <3>1. IsFiniteSet(DOMAIN graph)
      BY <1>0, EdgesFinite
    <3>2. Count(graph) \in Nat
      BY <3>1, FS_CardinalityType DEF Count
    <3> QED BY <1>0, <3>2
  <2>3. stored' \in [DOMAIN stored' -> Node] /\ DOMAIN stored' \subseteq Nat
    BY <1>0, <2>1, <2>2
  <2> QED BY <1>0, <2>3 DEF IInv, Shapes, Verdicts
<1>3. StoreInv'
  <2>1. WellFormed(graph)
    BY DEF IInv, StoreInv
  <2>2. \A i \in DOMAIN graph : \A s \in Slots :
          graph[i].exits[s] \in DOMAIN graph \cup {NONE}
    BY <1>0, <2>1 DEF WellFormed, TargetsExist
  <2> QED BY <2>2 DEF StoreInv, StaleNodesUnreachable
<1> QED BY <1>1, <1>2, <1>3 DEF IInv

LEMMA RejectCyclicPreserves ==
  ASSUME IInv, RejectCyclic
  PROVE  IInv'
<1> USE DEF RejectCyclic
<1>1. SortInv'
  BY DEF IInv, SortInv, Sorting, Bookkeeping, DegreesCount, Waiting,
         ReadyIsQueuedOrDone, CoresUntouched, Outcome
<1>2. Shapes'
  BY DEF IInv, Shapes, Verdicts
<1>3. StoreInv'
  BY DEF IInv, StoreInv, StaleNodesUnreachable
<1> QED BY <1>1, <1>2, <1>3 DEF IInv

LEMMA NextIInv == IInv /\ [Next]_vars => IInv'
<1> SUFFICES ASSUME IInv, [Next]_vars PROVE IInv'
  OBVIOUS
<1>1. ASSUME NEW g \in Graphs, RejectMalformed(g) PROVE IInv'
  BY <1>1, RejectEarlyPreserves DEF RejectMalformed
<1>2. ASSUME NEW g \in Graphs, RejectOversized(g) PROVE IInv'
  BY <1>2, RejectEarlyPreserves DEF RejectOversized
<1>3. ASSUME NEW g \in Graphs, StartSort(g) PROVE IInv'
  BY <1>3, StartSortPreserves
<1>4. ASSUME NEW u \in queue, Pop(u) PROVE IInv'
  BY <1>4, PopKeepsInv
<1>5. CASE Accept
  BY <1>5, AcceptPreserves
<1>6. CASE RejectCyclic
  BY <1>6, RejectCyclicPreserves
<1>7. CASE UNCHANGED vars
  BY <1>7 DEF vars, IInv, Shapes, SortInv, Sorting, Bookkeeping, DegreesCount,
              Waiting, ReadyIsQueuedOrDone, CoresUntouched, Outcome, StoreInv,
              StaleNodesUnreachable
<1> QED BY <1>1, <1>2, <1>3, <1>4, <1>5, <1>6, <1>7 DEF Next, Propose, Sort

\* The bookkeeping of the sort and the type invariant hold throughout.
THEOREM InvariantHolds == Spec => []IInv
BY InitIInv, NextIInv, PTL DEF Spec

-----------------------------------------------------------------------------
(* What the invariant gives *)

LEMMA IInvAcyclic == IInv => AcceptedIsAcyclic
<1> SUFFICES ASSUME IInv, verdict = "accepted",
                    NEW S \in SUBSET DOMAIN graph, IsCore(graph, S)
             PROVE  S = {}
  BY DEF AcceptedIsAcyclic, Acyclic
<1>1. /\ graph \in Graphs /\ done \subseteq DOMAIN graph
      /\ Cardinality(done) = Cardinality(DOMAIN graph) /\ CoresUntouched
  BY DEF IInv, SortInv, Sorting, Bookkeeping, Outcome, Count
<1>2. done = DOMAIN graph
  BY <1>1, EdgesFinite, FS_Subset
<1> QED BY <1>1, <1>2 DEF CoresUntouched

LEMMA IInvCyclic == IInv => RefusedIsCyclic
<1> SUFFICES ASSUME IInv, verdict = "cyclic"
             PROVE  ~Acyclic(graph)
  BY DEF RefusedIsCyclic
<1>1. /\ graph \in Graphs /\ done \subseteq DOMAIN graph /\ queue = {}
      /\ Cardinality(done) # Cardinality(DOMAIN graph)
      /\ DegreesCount /\ ReadyIsQueuedOrDone
  BY DEF IInv, SortInv, Sorting, Bookkeeping, Outcome, Count
<1> DEFINE S == DOMAIN graph \ done
<1>2. S # {}
  BY <1>1
<1>3. ASSUME NEW v \in S PROVE \E u \in S : Follows(graph, u, v)
  <2>1. in_degrees[v] # 0
    BY <1>1 DEF ReadyIsQueuedOrDone
  <2>2. Waiting(v) # {}
    BY <1>1, <2>1, FS_EmptySet DEF DegreesCount
  <2>3. PICK e \in (DOMAIN graph) \X Slots :
          Target(graph, e) = v /\ e[1] \notin done
    BY <2>2 DEF Waiting, InEdges, Edges
  <2> QED BY <2>3 DEF Follows, Target
<1>4. IsCore(graph, S)
  BY <1>3 DEF IsCore
<1> QED BY <1>2, <1>4 DEF Acyclic

LEMMA IInvDegrees == IInv => DegreesNeverUnderflow
<1> SUFFICES ASSUME IInv, NEW v \in DOMAIN in_degrees PROVE in_degrees[v] >= 0
  BY DEF DegreesNeverUnderflow
<1>1. Sorting
  BY DEF IInv, SortInv, EmptyGraph
<1>2. graph \in Graphs /\ v \in DOMAIN graph /\ DegreesCount
  BY <1>1 DEF IInv, SortInv, Bookkeeping
<1> QED BY <1>2, WaitingFinite DEF DegreesCount

\* No accepted strategy has a cycle, for node lists of any length.
THEOREM AcceptedAcyclic == Spec => []AcceptedIsAcyclic
BY InvariantHolds, IInvAcyclic, PTL

\* No strategy is refused as cyclic unless it is.
THEOREM RefusedCyclic == Spec => []RefusedIsCyclic
BY InvariantHolds, IInvCyclic, PTL

\* The sort's verdict is right, both ways, for node lists of any length.
THEOREM SortExact == Spec => []SortIsExact
<1>1. AcceptedIsAcyclic /\ RefusedIsCyclic => SortIsExact
  BY DEF SortIsExact
<1> QED BY <1>1, AcceptedAcyclic, RefusedCyclic, PTL

\* The decrement of a neighbour's degree never underflows.
THEOREM NoUnderflow == Spec => []DegreesNeverUnderflow
BY InvariantHolds, IInvDegrees, PTL

\* Nodes left behind by longer strategies are never entered from the current.
THEOREM StaleUnreachable == Spec => []StaleNodesUnreachable
<1>1. IInv => StaleNodesUnreachable
  BY DEF IInv, StoreInv
<1> QED BY <1>1, InvariantHolds, PTL

\* Every variable keeps its type.
THEOREM TypeCorrect == Spec => []TypeOK
<1>1. IInv => TypeOK
  BY IInvDegrees DEF IInv, TypeOK
<1> QED BY <1>1, InvariantHolds, PTL

\* No node enters the queue twice, so the order of the queue does not matter.
THEOREM QueuedOnce == Spec => PushedAtMostOnce
<1>1. ASSUME IInv, NEW u \in queue, Pop(u)
      PROVE  Freed(u) \cap (queue \cup done) = {}
  BY <1>1, FreedIsNew DEF IInv, Pop, Sorting
<1>2. IInv /\ [Next]_vars =>
        [\A u \in queue : Pop(u) => Freed(u) \cap (queue \cup done) = {}]_vars
  BY <1>1
<1> QED BY <1>2, InvariantHolds, PTL DEF Spec, PushedAtMostOnce

=============================================================================
