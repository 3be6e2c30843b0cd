----------------------------- MODULE MCNodeGraph -----------------------------
(***************************************************************************)
(* TLC instances of NodeGraph: every graph of up to three nodes validated  *)
(* once, and sequences of updates over a few graphs of different lengths.  *)
(***************************************************************************)
EXTENDS NodeGraph

CONSTANT MaxNodes  \* bound: the longest node list proposed

Action(i, target) ==
  [kind |-> "action", index |-> i, size |-> 1, initialises |-> TRUE,
   exits |-> [next |-> target, on_success |-> NONE, on_failure |-> NONE]]

Branching(k, i, succ, fail) ==
  [kind |-> k, index |-> i, size |-> 1, initialises |-> TRUE,
   exits |-> [next |-> NONE, on_success |-> succ, on_failure |-> fail]]

Targets(n) == (0 .. n - 1) \cup {NONE}

NodesAt(i, n) ==
  {Action(i, t) : t \in Targets(n)}
    \cup {Branching("condition", i, s, f) : s, f \in Targets(n)}

\* Every list of n nodes whose branches stay inside the list.
ListsOf(n) == {g \in [0 .. n - 1 -> UNION {NodesAt(i, n) : i \in 0 .. n - 1}] :
                 \A i \in 0 .. n - 1 : g[i].index = i}

AllGraphs == UNION {ListsOf(n) : n \in 0 .. MaxNodes}

\* A handful of lists of each length, and one list for each way to be refused.
Chain(n) == [i \in 0 .. n - 1 |->
               Action(i, IF i = n - 1 THEN NONE ELSE i + 1)]

Alone == [i \in {0} |-> Branching("schedule", 0, NONE, NONE)]

Diamond == [i \in 0 .. 2 |->
              CASE i = 0 -> Branching("condition", 0, 1, 2)
                [] i = 1 -> Action(1, 2)
                [] i = 2 -> Action(2, NONE)]

Backwards == [i \in 0 .. 1 |-> IF i = 0 THEN Action(0, NONE) ELSE Action(1, 0)]

Loop == [i \in 0 .. 1 |-> Action(i, 1 - i)]

OutOfRange == [i \in 0 .. 1 |-> Action(i, i + 1)]

Misnumbered == [i \in 0 .. 1 |-> Action(1 - i, NONE)]

Branchless == [i \in {0} |-> Branching("condition", 0, NONE, NONE)]

Uninitialised == [i \in {0} |-> [Action(0, NONE) EXCEPT !.initialises = FALSE]]

Oversized == [i \in 0 .. 1 |-> [Chain(2)[i] EXCEPT !.size = MaxStrategySize]]

UpdateGraphs ==
  {Chain(n) : n \in 0 .. MaxNodes}
    \cup {Alone, Diamond, Backwards, Loop, OutOfRange, Misnumbered,
          Branchless, Uninitialised, Oversized}

AnyGraph == AllGraphs \cup UpdateGraphs

\* Any graph in an empty store, and then a sequence of the handful above.
AnyThenUpdates ==
  /\ Init
  /\ [][\/ verdict = "none" /\ Propose
        \/ \E g \in UpdateGraphs :
             RejectMalformed(g) \/ RejectOversized(g) \/ StartSort(g)
        \/ Sort]_vars
  /\ WF_vars(Sort)

=============================================================================
