----------------------------- MODULE MCStrategy -----------------------------
(* Instances of Strategy for TLC. *)
EXTENDS Strategy

\* The two exits of a node; an action leads the same way by both.
To(a, b) == [e \in Branches |-> IF e = "on_success" THEN a ELSE b]

List(exits) == [i \in 0 .. (Len(exits) - 1) |-> exits[i + 1]]

\* A condition that leads to another node or to the end; a list whose order is
\* not that of its edges; one shorter than these, which leaves their last node
\* behind; one that leaves all of them behind; and two that are refused, one with
\* an edge beyond its end, one with a cycle.
Fork == List(<<To(1, NONE), To(NONE, NONE)>>)
Backwards == List(<<To(NONE, NONE), To(0, 0)>>)
Single == List(<<To(NONE, NONE)>>)
Empty == [i \in {} |-> NONE]
Beyond == List(<<To(1, 1)>>)
Cycle == List(<<To(1, NONE), To(0, 0)>>)

NestedGraphs == {Fork, Backwards, Single, Beyond}

ShortGraphs == {Backwards, Empty, Cycle}

=============================================================================
