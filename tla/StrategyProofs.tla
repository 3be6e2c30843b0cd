--------------------------- MODULE StrategyProofs ---------------------------
(***************************************************************************)
(* The nodes a strategy stores never form a cycle, and its process loop    *)
(* never works on an outdated copy of a node, whatever the lists proposed, *)
(* the calls made in the middle of a run, and the failures undone.  A run  *)
(* visits no node twice, comes back to the node it visited last, commits   *)
(* every node whose messages were sent, and replaces no node that it has   *)
(* not cancelled, but those of a list stored while it went on.             *)
(***************************************************************************)
EXTENDS Strategy, SequenceTheorems, TLAPS

Stores == {store \in UNION {[D -> Nodes] : D \in SUBSET Nat} :
             StoreOK(store) /\ AcyclicStore(store)}

Worlds == [nodes  : Stores,
           path   : Seq(Nat),
           status : Statuses \cup {"none"},
           lists  : 0 .. MaxLists]

Items ==
  [kind : {"process"}, operation : Operations, previous : Nat \cup {NONE}]
    \cup [kind : {"visit"}, operation : Operations, node : Nodes, path : Seq(Nat)]
    \cup [kind : {"init"}, graph : Graphs]
    \cup [kind : {"message"}]

Trails == [operation : Operations \cup {"none"},
           visits    : Seq((1 .. MaxLists) \X Nat),
           alone     : BOOLEAN,
           since     : 0 .. MaxLists]

Activations == [actor  : Accounts,
                work   : Seq(Items),
                before : Worlds,
                saved  : Worlds,
                trail  : Trails]

NoVisits(work) == \A k \in 1 .. Len(work) : work[k].kind # "visit"

OnlyFirst(work) == \A k \in 2 .. Len(work) : work[k].kind # "visit"

\* A node has been loaded only for the turn of the loop that comes next.
VisitsAreNext(cs) ==
  \A l \in 1 .. Len(cs) : /\ OnlyFirst(cs[l].work)
                          /\ l < Len(cs) => NoVisits(cs[l].work)

\* What a call will visit first, if it is a visit, is a node as it is stored.
Current(work, store) ==
  work # <<>> /\ Head(work).kind = "visit" =>
    /\ Head(work).node.index \in DOMAIN store
    /\ Head(work).node = store[Head(work).node.index]

StackOK(cs, store) ==
  /\ cs \in Seq(Activations)
  /\ Len(cs) <= MaxDepth
  /\ VisitsAreNext(cs)
  /\ cs # <<>> => Current(cs[Len(cs)].work, store)

IInv ==
  /\ World \in Worlds
  /\ left \in 0 .. MaxCalls
  /\ StackOK(calls, nodes)

-----------------------------------------------------------------------------
(* Stores *)

LEMMA StoreMember ==
  ASSUME NEW store
  PROVE  store \in Stores <=> StoreOK(store) /\ AcyclicStore(store)
<1>1. ASSUME StoreOK(store), AcyclicStore(store) PROVE store \in Stores
  <2>1. DOMAIN store \in SUBSET Nat /\ store \in [DOMAIN store -> Nodes]
    BY <1>1 DEF StoreOK, Gapless
  <2>2. store \in UNION {[D -> Nodes] : D \in SUBSET Nat}
    BY <2>1
  <2> QED BY <1>1, <2>2 DEF Stores
<1> QED BY <1>1 DEF Stores

LEMMA StoreFacts ==
  ASSUME NEW store \in Stores, NEW i \in DOMAIN store
  PROVE  /\ i \in Nat
         /\ store[i] \in Nodes
         /\ store[i].index = i
         /\ \A b \in Branches : store[i].exits[b] \in Nat \cup {NONE}
         /\ \A b \in Branches : store[i].exits[b] # i
<1>1. StoreOK(store) /\ AcyclicStore(store)
  BY StoreMember
<1>2. i \in Nat /\ store[i] \in Nodes /\ store[i].index = i
  BY <1>1 DEF StoreOK, Gapless
<1>3. store[i].exits \in Exits
  BY <1>2 DEF Nodes
<1>4. \A b \in Branches : store[i].exits[b] # i
  <2>1. {i} \in SUBSET DOMAIN store /\ {i} # {}
    OBVIOUS
  <2>2. \E j \in {i} : \A b \in Branches : store[j].exits[b] \notin {i}
    BY <1>1, <2>1, Zenon DEF AcyclicStore
  <2> QED BY <2>2
<1> QED BY <1>2, <1>3, <1>4 DEF Exits

\* Committing a node, or saving what its messages wait for, moves no edge.
LEMMA SaveStage ==
  ASSUME NEW store \in Stores, NEW i \in DOMAIN store,
         NEW stage \in {"ready", "sent"}
  PROVE  [store EXCEPT ![i] = [store[i] EXCEPT !.stage = stage]] \in Stores
<1> DEFINE node == [store[i] EXCEPT !.stage = stage]
           new == [store EXCEPT ![i] = node]
<1>1. StoreOK(store) /\ AcyclicStore(store) /\ store[i] \in Nodes
  BY StoreMember, StoreFacts
<1>2. node \in Nodes /\ node.index = store[i].index /\ node.exits = store[i].exits
  BY <1>1 DEF Nodes
<1>3. DOMAIN new = DOMAIN store /\ new \in [DOMAIN new -> Nodes]
  BY <1>1, <1>2 DEF StoreOK
<1>4. \A j \in DOMAIN store : /\ new[j].index = store[j].index
                              /\ new[j].exits = store[j].exits
  BY <1>2
<1> HIDE DEF new
<1>5. StoreOK(new)
  BY <1>1, <1>3, <1>4 DEF StoreOK, Gapless
<1>6. AcyclicStore(new)
  BY <1>1, <1>3, <1>4 DEF AcyclicStore
<1> QED BY <1>5, <1>6, StoreMember DEF new

\* A node list that passes the sort may replace the nodes of any other: every
\* edge of the new nodes stays among them, so a cycle would lie either wholly
\* among the new nodes or wholly among the old.
LEMMA ReplaceNodes ==
  ASSUME nodes \in Stores, NEW g \in Graphs, StaysInside(g), Acyclic(g),
         lists + 1 \in 1 .. MaxLists
  PROVE  Replaced(g) \in Stores
<1> DEFINE new == Replaced(g)
<1>1. StoreOK(nodes) /\ AcyclicStore(nodes) /\ IsNodeList(g)
  BY StoreMember, StrategyAssumption
<1>2. DOMAIN new = DOMAIN nodes \cup DOMAIN g
  BY DEF Replaced
<1>3. \A i \in DOMAIN g : new[i] = FreshNode(g, i)
  BY DEF Replaced
<1>4. \A i \in DOMAIN nodes \ DOMAIN g : new[i] = nodes[i]
  BY DEF Replaced
<1>5. new = [i \in DOMAIN new |-> new[i]]
  BY DEF Replaced
<1> HIDE DEF new
<1>6. \A i \in DOMAIN g : FreshNode(g, i) \in Nodes
  BY <1>1 DEF FreshNode, Nodes, IsNodeList, Gapless
<1>7. StoreOK(new)
  <2>1. Gapless(new)
    BY <1>1, <1>2 DEF StoreOK, IsNodeList, Gapless
  <2>2. \A i \in DOMAIN new : new[i] \in Nodes
    BY <1>1, <1>2, <1>3, <1>4, <1>6 DEF StoreOK
  <2>3. new \in [DOMAIN new -> Nodes]
    BY <2>2, <1>5
  <2>4. \A i \in DOMAIN new : new[i].index = i
    BY <1>1, <1>2, <1>3, <1>4 DEF StoreOK, FreshNode
  <2> QED BY <2>1, <2>3, <2>4 DEF StoreOK
<1>8. AcyclicStore(new)
  <2> SUFFICES ASSUME NEW S \in SUBSET DOMAIN new, S # {}
               PROVE  \E i \in S : \A b \in Branches : new[i].exits[b] \notin S
    BY DEF AcyclicStore
  <2>1. CASE S \cap DOMAIN g = {}
    <3>1. S \in SUBSET DOMAIN nodes /\ \A i \in S : new[i] = nodes[i]
      BY <2>1, <1>2, <1>4
    <3>2. PICK i \in S : \A b \in Branches : nodes[i].exits[b] \notin S
      BY <3>1, <1>1 DEF AcyclicStore
    <3> QED BY <3>1, <3>2
  <2>2. CASE S \cap DOMAIN g # {}
    <3>1. PICK i \in S \cap DOMAIN g :
            \A j \in S \cap DOMAIN g : ~Leads(g, i, j)
      BY <2>2 DEF Acyclic
    <3>2. new[i].exits = g[i]
      <4>1. new[i] = FreshNode(g, i)
        BY <3>1, <1>3
      <4> QED BY <4>1 DEF FreshNode
    <3>3. \A b \in Branches : g[i][b] \in DOMAIN g \cup {NONE}
      BY <3>1 DEF StaysInside
    <3>4. NONE \notin S
      BY <1>1, <1>2, StrategyAssumption DEF StoreOK, IsNodeList, Gapless
    <3>5. \A b \in Branches : g[i][b] \notin S
      BY <3>1, <3>3, <3>4 DEF Leads
    <3> QED BY <3>1, <3>2, <3>5
  <2> QED BY <2>1, <2>2
<1> QED BY <1>7, <1>8, StoreMember DEF new

-----------------------------------------------------------------------------
(* The work of an activation, and the stack *)

\* What a handler answers with goes before the work that was left.
LEMMA AnswerIsWork ==
  ASSUME NEW work \in Seq(Items), work # <<>>, OnlyFirst(work),
         NEW response \in Seq(Items), OnlyFirst(response),
         NEW store, Current(response, store)
  PROVE  /\ response \o Tail(work) \in Seq(Items)
         /\ OnlyFirst(response \o Tail(work))
         /\ Current(response \o Tail(work), store)
<1> DEFINE rest == Tail(work)
           all == response \o rest
<1>1. Len(work) \in Nat \ {0}
  BY EmptySeq
<1>2. /\ rest \in Seq(Items)
      /\ Len(rest) = Len(work) - 1
      /\ \A k \in 1 .. Len(rest) : rest[k] = work[k + 1]
  BY HeadTailProperties
<1>3. \A k \in 1 .. Len(rest) : rest[k].kind # "visit"
  BY <1>1, <1>2 DEF OnlyFirst
<1> HIDE DEF rest
<1>4. /\ all \in Seq(Items)
      /\ Len(all) = Len(response) + Len(rest)
      /\ \A k \in 1 .. Len(response) + Len(rest) :
           all[k] = IF k <= Len(response) THEN response[k]
                                          ELSE rest[k - Len(response)]
  BY <1>2, ConcatProperties
<1>5. Len(response) \in Nat /\ Len(rest) \in Nat
  BY <1>2, LenProperties
<1> HIDE DEF all
<1>6. OnlyFirst(all)
  <2> SUFFICES ASSUME NEW k \in 2 .. Len(all) PROVE all[k].kind # "visit"
    BY DEF OnlyFirst
  <2>1. CASE k <= Len(response)
    BY <2>1, <1>4, <1>5 DEF OnlyFirst
  <2>2. CASE k > Len(response)
    <3>1. k - Len(response) \in 1 .. Len(rest)
      BY <2>2, <1>4, <1>5
    <3>2. all[k] = rest[k - Len(response)]
      BY <2>2, <1>4, <1>5
    <3> QED BY <3>1, <3>2, <1>3
  <2> QED BY <2>1, <2>2, <1>4, <1>5
<1>7. Current(all, store)
  <2> SUFFICES ASSUME all # <<>>, Head(all).kind = "visit"
               PROVE  response # <<>> /\ Head(response) = Head(all)
    BY DEF Current
  <2>1. Len(all) >= 1 /\ Head(all) = all[1]
    BY <1>4, EmptySeq
  <2>2. CASE Len(response) = 0
    <3>1. 1 \in 1 .. Len(rest) /\ all[1] = rest[1]
      BY <2>1, <2>2, <1>4, <1>5
    <3> QED BY <3>1, <2>1, <1>3
  <2>3. CASE Len(response) > 0
    <3>1. response # <<>>
      BY <2>3, EmptySeq
    <3>2. all[1] = response[1]
      BY <2>1, <2>3, <1>4, <1>5
    <3>3. Head(response) = response[1]
      BY <3>1
    <3> QED BY <3>1, <3>2, <3>3, <2>1
  <2> QED BY <2>2, <2>3, <1>5
<1> QED BY <1>4, <1>6, <1>7 DEF all, rest

\* The loop goes on with a node as it is stored, or ends.
LEMMA NextIsVisit ==
  ASSUME NEW operation \in Operations, NEW so_far \in Seq(Nat),
         NEW store \in Stores, NEW next,
         next = <<>> \/ \E i \in DOMAIN store : next = <<store[i]>>
  PROVE  /\ VisitNext(operation, next, so_far) \in Seq(Items)
         /\ OnlyFirst(VisitNext(operation, next, so_far))
         /\ Current(VisitNext(operation, next, so_far), store)
<1>1. CASE next = <<>>
  <2>1. VisitNext(operation, next, so_far) = <<>>
    BY <1>1 DEF VisitNext
  <2>2. <<>> \in Seq(Items) /\ Len(<<>>) = 0
    BY EmptySeq
  <2>3. OnlyFirst(<<>>)
    BY <2>2 DEF OnlyFirst
  <2> QED BY <2>1, <2>2, <2>3 DEF Current
<1>2. ASSUME NEW i \in DOMAIN store, next = <<store[i]>>
      PROVE  /\ VisitNext(operation, next, so_far) \in Seq(Items)
             /\ OnlyFirst(VisitNext(operation, next, so_far))
             /\ Current(VisitNext(operation, next, so_far), store)
  <2> DEFINE visit == Visit(operation, store[i], so_far)
  <2>1. VisitNext(operation, next, so_far) = <<visit>>
    BY <1>2 DEF VisitNext
  <2>2. store[i] \in Nodes /\ store[i].index = i
    BY StoreFacts
  <2>3. /\ visit \in Items
        /\ visit.node = store[i]
    BY <2>2 DEF Visit, Items
  <2> HIDE DEF visit
  <2>4. <<visit>> \in Seq(Items) /\ Len(<<visit>>) = 1 /\ Head(<<visit>>) = visit
    BY <2>3
  <2>5. OnlyFirst(<<visit>>)
    BY <2>4 DEF OnlyFirst
  <2>6. Current(<<visit>>, store)
    BY <2>2, <2>3, <2>4 DEF Current
  <2> QED BY <2>1, <2>4, <2>5, <2>6
<1> QED BY <1>1, <1>2

\* Only the activation on top changes.
LEMMA TopChanges ==
  ASSUME NEW cs, NEW old, StackOK(cs, old), cs # <<>>,
         NEW t \in Activations, OnlyFirst(t.work),
         NEW store, Current(t.work, store)
  PROVE  StackOK([cs EXCEPT ![Len(cs)] = t], store)
<1> DEFINE new == [cs EXCEPT ![Len(cs)] = t]
<1>1. cs \in Seq(Activations) /\ Len(cs) \in Nat \ {0} /\ Len(cs) \in 1 .. Len(cs)
  BY EmptySeq DEF StackOK
<1>2. /\ new \in Seq(Activations)
      /\ Len(new) = Len(cs)
      /\ \A j \in 1 .. Len(cs) : new[j] = IF j = Len(cs) THEN t ELSE cs[j]
  BY <1>1, ExceptSeq
<1> HIDE DEF new
<1>3. VisitsAreNext(new)
  <2> SUFFICES ASSUME NEW l \in 1 .. Len(cs)
               PROVE  /\ OnlyFirst(new[l].work)
                      /\ l < Len(cs) => NoVisits(new[l].work)
    BY <1>2 DEF VisitsAreNext
  <2> QED BY <1>1, <1>2 DEF StackOK, VisitsAreNext
<1>4. Current(new[Len(new)].work, store)
  BY <1>1, <1>2
<1> QED BY <1>2, <1>3, <1>4 DEF StackOK, new

LEMMA StackTop ==
  ASSUME NEW cs, NEW store, StackOK(cs, store), cs # <<>>
  PROVE  /\ cs \in Seq(Activations)
         /\ Len(cs) \in 1 .. MaxDepth
         /\ cs[Len(cs)] \in Activations
         /\ OnlyFirst(cs[Len(cs)].work)
         /\ Current(cs[Len(cs)].work, store)
<1>1. cs \in Seq(Activations) /\ Len(cs) \in Nat \ {0} /\ Len(cs) \in 1 .. Len(cs)
  BY EmptySeq DEF StackOK
<1>2. cs[Len(cs)] \in Activations
  BY <1>1, ElementOfSeq
<1> QED BY <1>1, <1>2, StrategyAssumption DEF StackOK, VisitsAreNext

\* Replacing the work of the activation on top.
LEMMA WorkChanges ==
  ASSUME StackOK(calls, nodes), calls # <<>>,
         NEW work \in Seq(Items), OnlyFirst(work),
         NEW store, Current(work, store)
  PROVE  StackOK([calls EXCEPT ![Depth].work = work], store)
<1> DEFINE t == [top EXCEPT !.work = work]
<1>1. calls \in Seq(Activations) /\ top \in Activations /\ Depth \in 1 .. Depth
  BY StackTop DEF Depth, top
<1>2. t \in Activations /\ t.work = work
  BY <1>1 DEF Activations
<1>3. [calls EXCEPT ![Depth].work = work] = [calls EXCEPT ![Depth] = t]
  BY DEF top
<1> HIDE DEF t
<1> QED BY <1>2, <1>3, TopChanges DEF Depth

LEMMA PlainWork ==
  ASSUME NEW work \in Seq(Items), NoVisits(work), NEW store
  PROVE  OnlyFirst(work) /\ Current(work, store)
<1>1. Len(work) \in Nat /\ (work # <<>> => Len(work) \in Nat \ {0})
  BY EmptySeq, LenProperties
<1>2. OnlyFirst(work)
  BY <1>1 DEF NoVisits, OnlyFirst
<1>3. work # <<>> => Head(work) = work[1] /\ 1 \in 1 .. Len(work)
  BY <1>1
<1>4. work # <<>> => Head(work).kind # "visit"
  BY <1>3 DEF NoVisits
<1> QED BY <1>2, <1>4 DEF Current

LEMMA NoWork ==
  ASSUME NEW store
  PROVE  /\ <<>> \in Seq(Items)
         /\ NoVisits(<<>>) /\ OnlyFirst(<<>>) /\ Current(<<>>, store)
<1>1. <<>> \in Seq(Items) /\ Len(<<>>) = 0
  BY EmptySeq
<1>2. NoVisits(<<>>)
  BY <1>1 DEF NoVisits
<1> QED BY <1>1, <1>2, PlainWork

\* Popping an activation: those below it have no visit among their work.
LEMMA PopStack ==
  ASSUME StackOK(calls, nodes), calls # <<>>, NEW store
  PROVE  StackOK(Front(calls), store)
<1> DEFINE new == Front(calls)
           n == Len(calls)
<1>1. calls \in Seq(Activations) /\ n \in 1 .. MaxDepth /\ n \in Nat /\ MaxDepth \in Nat
  BY StackTop, StrategyAssumption
<1>2. \A i \in 1 .. (n - 1) : calls[i] \in Activations
  BY <1>1, ElementOfSeq
<1>3. new = SubSeq(calls, 1, n - 1)
  BY DEF Front
<1>4. 1 \in Int /\ n - 1 \in Int
  BY <1>1
<1>5. /\ SubSeq(calls, 1, n - 1) \in Seq(Activations)
      /\ Len(SubSeq(calls, 1, n - 1)) = IF 1 <= n - 1 THEN n - 1 - 1 + 1 ELSE 0
      /\ \A i \in 1 .. n - 1 - 1 + 1 : SubSeq(calls, 1, n - 1)[i] = calls[1 + i - 1]
  BY <1>2, <1>4, SubSeqProperties
<1> HIDE DEF new
<1>6. /\ new \in Seq(Activations)
      /\ Len(new) = n - 1
      /\ \A i \in 1 .. n - 1 : new[i] = calls[i]
  <2>1. /\ new \in Seq(Activations)
        /\ Len(new) = IF 1 <= n - 1 THEN n - 1 - 1 + 1 ELSE 0
        /\ \A i \in 1 .. n - 1 - 1 + 1 : new[i] = calls[1 + i - 1]
    BY <1>3, <1>5, Zenon
  <2> HIDE DEF n
  <2>2. Len(new) = n - 1 /\ n - 1 - 1 + 1 = n - 1
    BY <2>1, <1>1
  <2>3. \A i \in 1 .. n - 1 : 1 + i - 1 = i
    BY <1>1
  <2> QED BY <2>1, <2>2, <2>3
<1>7. \A i \in 1 .. n - 1 : OnlyFirst(calls[i].work) /\ NoVisits(calls[i].work)
  BY <1>1 DEF StackOK, VisitsAreNext
<1>8. VisitsAreNext(new)
  BY <1>1, <1>6, <1>7 DEF VisitsAreNext
<1>9. ASSUME new # <<>> PROVE Current(new[Len(new)].work, store)
  <2>1. Len(new) \in 1 .. n - 1
    BY <1>6, <1>9, EmptySeq
  <2>2. /\ new[Len(new)] \in Activations
        /\ NoVisits(new[Len(new)].work)
    BY <2>1, <1>2, <1>6, <1>7
  <2>3. new[Len(new)].work \in Seq(Items)
    BY <2>2 DEF Activations
  <2> QED BY <2>2, <2>3, PlainWork
<1> QED BY <1>1, <1>6, <1>8, <1>9 DEF StackOK, new

\* Pushing one that has no work yet.
LEMMA PushStack ==
  ASSUME NEW cs, NEW old, StackOK(cs, old), Len(cs) < MaxDepth,
         cs # <<>> => NoVisits(cs[Len(cs)].work),
         NEW t \in Activations, t.work = <<>>, NEW store
  PROVE  StackOK(Append(cs, t), store)
<1> DEFINE new == Append(cs, t)
           n == Len(cs)
<1>1. cs \in Seq(Activations) /\ n \in Nat /\ MaxDepth \in Nat /\ (cs = <<>> => n = 0)
  BY LenProperties, EmptySeq, StrategyAssumption DEF StackOK
<1>2. /\ new \in Seq(Activations)
      /\ Len(new) = n + 1
      /\ \A i \in 1 .. n : new[i] = cs[i]
      /\ new[n + 1] = t
  BY <1>1, AppendProperties
<1> HIDE DEF new
<1>3. \A i \in 1 .. n : OnlyFirst(cs[i].work) /\ NoVisits(cs[i].work)
  BY <1>1 DEF StackOK, VisitsAreNext
<1>4. OnlyFirst(t.work) /\ Current(t.work, store)
  BY NoWork
<1>5. VisitsAreNext(new)
  <2> SUFFICES ASSUME NEW l \in 1 .. (n + 1)
               PROVE  /\ OnlyFirst(new[l].work)
                      /\ l < n + 1 => NoVisits(new[l].work)
    BY <1>2 DEF VisitsAreNext
  <2>1. CASE l = n + 1
    BY <2>1, <1>2, <1>4
  <2>2. CASE l # n + 1
    BY <2>2, <1>1, <1>2, <1>3
  <2> QED BY <2>1, <2>2
<1>6. Current(new[Len(new)].work, store)
  BY <1>2, <1>4
<1> QED BY <1>1, <1>2, <1>5, <1>6 DEF StackOK, new

LEMMA ItemType ==
  ASSUME StackOK(calls, nodes), NEW kind, Working(kind)
  PROVE  /\ calls # <<>>
         /\ top \in Activations
         /\ top.work \in Seq(Items) /\ top.work # <<>> /\ OnlyFirst(top.work)
         /\ Current(top.work, nodes)
         /\ item \in Items /\ item.kind = kind
<1>1. calls # <<>> /\ top.work # <<>> /\ item.kind = kind
  BY DEF Working, item
<1>2. top \in Activations /\ OnlyFirst(top.work) /\ Current(top.work, nodes)
  BY <1>1, StackTop DEF top, Depth
<1>3. top.work \in Seq(Items)
  BY <1>2 DEF Activations
<1>4. item \in Items
  BY <1>1, <1>3, HeadTailProperties DEF item
<1> QED BY <1>1, <1>2, <1>3, <1>4

\* What follows a node is a node of the store, and never the node itself: a run
\* that cancels takes the next index, and no edge leads back to its own node.
LEMMA NextIsAnother ==
  ASSUME nodes \in Stores, NEW operation, NEW i \in DOMAIN nodes,
         NEW next \in NextNodes(operation, nodes[i])
  PROVE  next = <<>> \/ \E j \in DOMAIN nodes : j # i /\ next = <<nodes[j]>>
<1>1. /\ i \in Nat /\ nodes[i].index = i
      /\ \A b \in Branches : nodes[i].exits[b] # i
  BY StoreFacts
<1>2. \E j : next = Load(j) /\ j # i
  <2>1. CASE operation = "cancel"
    BY <2>1, <1>1 DEF NextNodes
  <2>2. CASE operation # "cancel"
    BY <2>2, <1>1 DEF NextNodes
  <2> QED BY <2>1, <2>2
<1>3. PICK j : next = Load(j) /\ j # i
  BY <1>2
<1> QED BY <1>3 DEF Load

-----------------------------------------------------------------------------
(* The steps *)

LEMMA InitStep == Init => IInv
<1> SUFFICES ASSUME Init PROVE IInv
  OBVIOUS
<1> USE DEF Init
<1>1. nodes \in Stores
  <2>1. StoreOK(nodes)
    BY DEF StoreOK, Gapless
  <2>2. AcyclicStore(nodes)
    BY DEF AcyclicStore
  <2> QED BY <2>1, <2>2, StoreMember
<1>2. World \in Worlds
  BY <1>1, StrategyAssumption DEF World, Worlds
<1>3. calls \in Seq(Activations) /\ Len(calls) = 0
  BY EmptySeq
<1>4. StackOK(calls, nodes)
  BY <1>3, StrategyAssumption DEF StackOK, VisitsAreNext
<1> QED BY <1>2, <1>4, StrategyAssumption DEF IInv

LEMMA FreshActivation ==
  ASSUME World \in Worlds, NEW a \in Accounts
  PROVE  Activation(a) \in Activations /\ Activation(a).work = <<>>
<1>1. <<>> \in Seq(Items) /\ <<>> \in Seq((1 .. MaxLists) \X Nat)
  BY EmptySeq
<1> QED BY <1>1, StrategyAssumption DEF Activation, NoTrail, Activations, Trails

LEMMA BeginStep ==
  ASSUME IInv, NEW a \in Accounts, Begin(a)
  PROVE  IInv'
<1>1. World' \in Worlds
  BY DEF IInv, World, Begin
<1>2. calls' = Append(calls, Activation(a))
  BY DEF Begin
<1>3. Len(calls) < MaxDepth
  BY StrategyAssumption, EmptySeq DEF Begin
<1>4. StackOK(Append(calls, Activation(a)), nodes)
  BY <1>3, PushStack, FreshActivation DEF IInv, Begin
<1> QED BY <1>1, <1>2, <1>4, StrategyAssumption DEF IInv, Begin

\* A call to the manager gives the contracts plain work to do.
LEMMA CallStep ==
  ASSUME IInv, NEW work \in Seq(Items), NoVisits(work), Calls(work),
         status' \in Statuses \cup {"none"}
  PROVE  IInv'
<1> DEFINE t == [top EXCEPT !.work = work, !.before = World]
<1>1. calls # <<>> /\ StackOK(calls, nodes) /\ World \in Worlds
  BY DEF IInv, Calls, Running
<1>2. top \in Activations /\ calls \in Seq(Activations) /\ Depth \in 1 .. MaxDepth
  BY <1>1, StackTop DEF Depth, top
<1>3. t \in Activations /\ t.work = work
  BY <1>1, <1>2 DEF Activations
<1>4. calls' = [calls EXCEPT ![Depth] = t]
  BY <1>1, <1>2 DEF Calls, top
<1> HIDE DEF t
<1>5. StackOK(calls', nodes)
  BY <1>1, <1>3, <1>4, PlainWork, TopChanges DEF Depth
<1>6. World' \in Worlds /\ nodes' = nodes
  BY <1>1 DEF World, Worlds, Calls
<1>7. left' \in 0 .. MaxCalls
  BY StrategyAssumption DEF IInv, Calls
<1> QED BY <1>5, <1>6, <1>7 DEF IInv

LEMMA ProcessWork ==
  ASSUME NEW operation \in Operations
  PROVE  /\ <<Process(operation, NONE)>> \in Seq(Items)
         /\ NoVisits(<<Process(operation, NONE)>>)
<1> DEFINE p == Process(operation, NONE)
<1>1. p \in Items /\ p.kind # "visit"
  BY DEF Process, Items
<1> HIDE DEF p
<1>2. NoVisits(<<p>>)
  BY <1>1 DEF NoVisits
<1> QED BY <1>1, <1>2 DEF p

LEMMA InitWork ==
  ASSUME NEW g \in Graphs
  PROVE  /\ <<InitNodes(g)>> \in Seq(Items)
         /\ NoVisits(<<InitNodes(g)>>)
         /\ <<Process("cancel", NONE), InitNodes(g)>> \in Seq(Items)
         /\ NoVisits(<<Process("cancel", NONE), InitNodes(g)>>)
<1> DEFINE i == InitNodes(g)
           p == Process("cancel", NONE)
<1>1. i \in Items /\ p \in Items /\ i.kind # "visit" /\ p.kind # "visit"
  BY DEF InitNodes, Process, Items, Operations
<1> HIDE DEF i, p
<1>2. NoVisits(<<i>>) /\ NoVisits(<<p, i>>)
  BY <1>1 DEF NoVisits
<1> QED BY <1>1, <1>2 DEF i, p

\* A handler replaces the item at the head of the work by its answer.
LEMMA AnswerStep ==
  ASSUME StackOK(calls, nodes), NEW kind, Working(kind),
         NEW response \in Seq(Items), OnlyFirst(response),
         NEW store, Current(response, store)
  PROVE  StackOK([calls EXCEPT ![Depth].work = AnswersWith(response)], store)
<1>1. /\ calls # <<>>
      /\ top.work \in Seq(Items) /\ top.work # <<>> /\ OnlyFirst(top.work)
  BY ItemType
<1>2. /\ AnswersWith(response) \in Seq(Items)
      /\ OnlyFirst(AnswersWith(response))
      /\ Current(AnswersWith(response), store)
  BY <1>1, AnswerIsWork DEF AnswersWith
<1> QED BY <1>1, <1>2, WorkChanges

LEMMA StoreListStep ==
  ASSUME IInv, StoreList
  PROVE  IInv'
<1> DEFINE g == item.graph
<1>1. StackOK(calls, nodes) /\ World \in Worlds /\ Working("init")
  BY DEF IInv, StoreList
<1>2. item \in Items /\ item.kind = "init"
  BY <1>1, ItemType
<1>3. g \in Graphs
  BY <1>2 DEF Items
<1>4. nodes \in Stores /\ lists \in 0 .. MaxLists /\ lists < MaxLists
  BY <1>1 DEF World, Worlds, StoreList
<1>5. lists + 1 \in 0 .. MaxLists /\ lists + 1 \in 1 .. MaxLists
  BY <1>4, StrategyAssumption
<1> HIDE DEF g
<1>6. nodes' \in Stores
  BY <1>3, <1>4, <1>5, ReplaceNodes DEF StoreList, g
<1>7. World' \in Worlds
  BY <1>1, <1>5, <1>6 DEF World, Worlds, StoreList
<1>8. /\ <<Process("execute", NONE)>> \in Seq(Items)
      /\ NoVisits(<<Process("execute", NONE)>>)
  BY ProcessWork DEF Operations
<1>9. StackOK(calls', nodes')
  BY <1>1, <1>8, PlainWork, AnswerStep DEF StoreList
<1> QED BY <1>7, <1>9 DEF IInv, StoreList

LEMMA StartRunStep ==
  ASSUME IInv, StartRun
  PROVE  IInv'
<1> DEFINE trail == [operation |-> item.operation, visits |-> <<>>, alone |-> TRUE,
                     since |-> lists]
           visits == VisitNext(item.operation, Load(0), <<>>)
           t == [top EXCEPT !.trail = trail, !.work = AnswersWith(visits)]
           Joined(l) == [calls[l] EXCEPT !.trail.alone = FALSE]
           below == [l \in DOMAIN calls |->
                       IF l < Depth THEN Joined(l) ELSE calls[l]]
<1>1. /\ StackOK(calls, nodes) /\ World \in Worlds /\ Working("process")
      /\ nodes \in Stores
  BY DEF IInv, StartRun, World, Worlds
<1>2. /\ calls # <<>> /\ top \in Activations /\ item \in Items
      /\ item.kind = "process"
      /\ top.work \in Seq(Items) /\ top.work # <<>> /\ OnlyFirst(top.work)
  BY <1>1, ItemType
<1>3. item.operation \in Operations
  BY <1>2 DEF Items
<1>4. /\ calls \in Seq(Activations) /\ Depth \in 1 .. MaxDepth
      /\ DOMAIN calls = 1 .. Depth /\ Depth \in 1 .. Depth
      /\ \A l \in 1 .. Depth : calls[l] \in Activations
  BY <1>1, <1>2, StackTop, LenProperties, ElementOfSeq DEF Depth
<1>5. Load(0) = <<>> \/ \E i \in DOMAIN nodes : Load(0) = <<nodes[i]>>
  BY DEF Load
<1>6. visits \in Seq(Items) /\ OnlyFirst(visits) /\ Current(visits, nodes)
  BY <1>1, <1>3, <1>5, NextIsVisit, EmptySeq
<1>7. /\ AnswersWith(visits) \in Seq(Items)
      /\ OnlyFirst(AnswersWith(visits))
      /\ Current(AnswersWith(visits), nodes)
  BY <1>2, <1>6, AnswerIsWork DEF AnswersWith
<1>8. trail \in Trails
  BY <1>1, <1>3, EmptySeq DEF Trails, World, Worlds
<1> HIDE DEF trail, visits
<1>9. t \in Activations /\ t.work = AnswersWith(visits)
  BY <1>2, <1>7, <1>8 DEF Activations
<1>10. \A l \in 1 .. Depth : below[l] \in Activations /\ below[l].work = calls[l].work
  <2>1. \A r \in Trails : [r EXCEPT !.alone = FALSE] \in Trails
    BY DEF Trails
  <2>2. \A c \in Activations : \A r \in Trails :
          /\ [c EXCEPT !.trail = r] \in Activations
          /\ [c EXCEPT !.trail = r].work = c.work
    BY DEF Activations
  <2>3. \A c \in Activations : c.trail \in Trails
    BY DEF Activations
  <2>4. \A l \in 1 .. Depth : Joined(l) \in Activations /\ Joined(l).work = calls[l].work
    BY <1>4, <2>1, <2>2, <2>3
  <2> HIDE DEF Joined
  <2> QED BY <1>4, <2>4
<1>11. /\ below \in Seq(Activations) /\ Len(below) = Depth
  <2>1. below \in [1 .. Depth -> Activations]
    BY <1>4, <1>10
  <2> HIDE DEF below
  <2> QED BY <2>1, <1>4
<1>12. calls' = [below EXCEPT ![Depth] = t]
  <2>1. calls' = [l \in DOMAIN calls |-> IF l < Depth THEN Joined(l) ELSE t]
    BY DEF StartRun, visits, trail
  <2> HIDE DEF Joined, t
  <2>2. \A l \in 1 .. Depth : ~(l < Depth) <=> l = Depth
    BY <1>4
  <2> QED BY <2>1, <2>2, <1>4
<1> HIDE DEF below, t
<1>13. VisitsAreNext(below)
  BY <1>1, <1>4, <1>10, <1>11 DEF StackOK, VisitsAreNext, Depth
<1>14. Current(below[Len(below)].work, nodes)
  BY <1>2, <1>1, <1>4, <1>10, <1>11, StackTop DEF Depth
<1>15. StackOK(below, nodes) /\ below # <<>>
  BY <1>4, <1>11, <1>13, <1>14, EmptySeq DEF StackOK
<1>16. StackOK(calls', nodes)
  BY <1>7, <1>9, <1>11, <1>12, <1>15, TopChanges
<1>17. World' \in Worlds
  BY <1>1 DEF World, StartRun
<1> QED BY <1>16, <1>17 DEF IInv, StartRun

LEMMA ResumeStep ==
  ASSUME IInv, Resume
  PROVE  IInv'
<1> DEFINE i == item.previous
           saved == [nodes EXCEPT ![i] = [nodes[i] EXCEPT !.stage = "ready"]]
<1>1. /\ StackOK(calls, nodes) /\ World \in Worlds /\ Working("process")
      /\ nodes \in Stores /\ path \in Seq(Nat) /\ i \in DOMAIN nodes
  BY DEF IInv, Resume, World, Worlds
<1>2. item \in Items /\ item.kind = "process"
  BY <1>1, ItemType
<1>3. item.operation \in Operations
  BY <1>2 DEF Items
<1>4. nodes[i] \in Nodes /\ nodes[i].index = i
  BY <1>1, StoreFacts
<1>5. nodes' = saved
  BY <1>4 DEF Resume, Save, Nodes
<1>6. saved \in Stores
  BY <1>1, SaveStage
<1>7. PICK next \in NextNodes(item.operation, nodes[i]) :
        calls' = [calls EXCEPT ![Depth].work =
                    AnswersWith(VisitNext(item.operation, next, path))]
  BY DEF Resume
<1>8. next = <<>> \/ \E j \in DOMAIN nodes : j # i /\ next = <<nodes[j]>>
  BY <1>1, NextIsAnother
<1>9. next = <<>> \/ \E j \in DOMAIN saved : next = <<saved[j]>>
  BY <1>8
<1> HIDE DEF saved, i
<1>10. /\ VisitNext(item.operation, next, path) \in Seq(Items)
       /\ OnlyFirst(VisitNext(item.operation, next, path))
       /\ Current(VisitNext(item.operation, next, path), saved)
  BY <1>1, <1>3, <1>6, <1>9, NextIsVisit
<1>11. StackOK(calls', saved)
  BY <1>1, <1>7, <1>10, AnswerStep
<1>12. World' \in Worlds
  BY <1>1, <1>5, <1>6 DEF World, Worlds, Resume
<1> QED BY <1>5, <1>11, <1>12 DEF IInv, Resume

LEMMA VisitedStep ==
  ASSUME StackOK(calls, nodes), Working("visit"),
         NEW response \in Seq(Items), OnlyFirst(response),
         NEW store, Current(response, store), Visited(response)
  PROVE  StackOK(calls', store)
<1> DEFINE visit == <<item.node.list, item.node.index>>
           visits == Append(top.trail.visits, visit)
           trail == [top.trail EXCEPT !.visits = visits]
           work == AnswersWith(response)
           t == [top EXCEPT !.trail = trail, !.work = work]
<1>1. /\ calls # <<>> /\ top \in Activations /\ item \in Items
      /\ item.kind = "visit"
      /\ top.work \in Seq(Items) /\ top.work # <<>> /\ OnlyFirst(top.work)
  BY ItemType
<1>2. item.node \in Nodes
  BY <1>1 DEF Items
<1>3. visit \in (1 .. MaxLists) \X Nat
  BY <1>2 DEF Nodes
<1>4. top.trail \in Trails
  BY <1>1 DEF Activations
<1>5. visits \in Seq((1 .. MaxLists) \X Nat)
  BY <1>3, <1>4, AppendProperties DEF Trails
<1>6. trail \in Trails
  BY <1>4, <1>5 DEF Trails
<1>7. work \in Seq(Items) /\ OnlyFirst(work) /\ Current(work, store)
  BY <1>1, AnswerIsWork DEF AnswersWith
<1>8. calls \in Seq(Activations) /\ Depth \in 1 .. Depth /\ Depth \in DOMAIN calls
  BY <1>1, StackTop, LenProperties DEF Depth
<1>9. calls' = [calls EXCEPT ![Depth] = t]
  <2>1. calls' = [[calls EXCEPT ![Depth].trail.visits = visits]
                    EXCEPT ![Depth].work = work]
    BY DEF Visited, top
  <2> HIDE DEF visits, work
  <2> QED BY <2>1, <1>8 DEF top
<1> HIDE DEF trail, work, visits
<1>10. t \in Activations /\ t.work = work
  BY <1>1, <1>6, <1>7 DEF Activations
<1> HIDE DEF t
<1>11. OnlyFirst(t.work) /\ Current(t.work, store)
  BY <1>7, <1>10
<1>12. StackOK([calls EXCEPT ![Len(calls)] = t], store)
  BY <1>1, <1>10, <1>11, TopChanges
<1> QED BY <1>9, <1>12 DEF Depth

\* The node a visit works on, and the path the visit leaves behind.
LEMMA VisitFacts ==
  ASSUME IInv, Working("visit")
  PROVE  /\ StackOK(calls, nodes) /\ World \in Worlds /\ nodes \in Stores
         /\ item.operation \in Operations
         /\ item.node.index \in DOMAIN nodes /\ item.node.index \in Nat
         /\ item.node = nodes[item.node.index]
         /\ LocalPath \in Seq(Nat)
<1>1. StackOK(calls, nodes) /\ World \in Worlds /\ nodes \in Stores
  BY DEF IInv, World, Worlds
<1>2. /\ calls # <<>> /\ top.work # <<>> /\ item \in Items /\ item.kind = "visit"
      /\ Current(top.work, nodes)
  BY <1>1, ItemType
<1>3. item.operation \in Operations /\ item.path \in Seq(Nat)
  BY <1>2 DEF Items
<1>4. /\ item.node.index \in DOMAIN nodes
      /\ item.node = nodes[item.node.index]
  BY <1>2 DEF Current, item
<1>5. item.node.index \in Nat
  BY <1>1, <1>4, StoreFacts
<1>6. LocalPath \in Seq(Nat)
  BY <1>3, <1>5, AppendProperties DEF LocalPath
<1> QED BY <1>1, <1>3, <1>4, <1>5, <1>6

LEMMA NodeSendsStep ==
  ASSUME IInv, NodeSends
  PROVE  IInv'
<1> DEFINE i == item.node.index
           saved == [nodes EXCEPT ![i] = [nodes[i] EXCEPT !.stage = "sent"]]
           last == Process(item.operation, i)
<1>1. Working("visit")
  BY DEF NodeSends
<1>2. /\ StackOK(calls, nodes) /\ World \in Worlds /\ nodes \in Stores
      /\ item.operation \in Operations /\ i \in Nat
      /\ i \in DOMAIN nodes /\ item.node = nodes[i] /\ LocalPath \in Seq(Nat)
  BY <1>1, VisitFacts
<1>3. saved \in Stores
  BY <1>2, SaveStage
<1>4. nodes' = saved
  <2>1. nodes[i] \in Nodes /\ nodes[i].index = i
    BY <1>2, StoreFacts
  <2> QED BY <1>2, <2>1 DEF NodeSends, Save, Nodes
<1>5. PICK n \in 1 .. MaxMessages :
        Visited([k \in 1 .. n |-> Message] \o <<last>>)
  BY DEF NodeSends
<1> DEFINE messages == [k \in 1 .. n |-> Message]
           response == messages \o <<last>>
<1>6. /\ last \in Items /\ last.kind # "visit"
      /\ Message \in Items /\ Message.kind # "visit"
  BY <1>2 DEF Process, Message, Items
<1> HIDE DEF saved, last, i
<1>7. messages \in Seq(Items) /\ Len(messages) = n
  <2>1. n \in Nat
    BY StrategyAssumption
  <2>2. messages \in [1 .. n -> Items]
    BY <1>6
  <2> HIDE DEF messages
  <2> QED BY <2>1, <2>2
<1>8. \A k \in 1 .. n : messages[k] = Message
  OBVIOUS
<1> HIDE DEF messages
<1>9. <<last>> \in Seq(Items) /\ Len(<<last>>) = 1 /\ <<last>>[1] = last
  BY <1>6
<1>10. /\ response \in Seq(Items)
       /\ Len(response) = n + 1
       /\ \A k \in 1 .. n + 1 : response[k] = IF k <= n THEN messages[k]
                                              ELSE <<last>>[k - n]
  BY <1>7, <1>9, ConcatProperties
<1> HIDE DEF response
<1>11. NoVisits(response)
  <2> SUFFICES ASSUME NEW k \in 1 .. n + 1 PROVE response[k].kind # "visit"
    BY <1>10 DEF NoVisits
  <2>1. CASE k <= n
    BY <2>1, <1>6, <1>8, <1>10
  <2>2. CASE k > n
    <3>1. k = n + 1 /\ k - n = 1
      BY <2>2
    <3> QED BY <3>1, <2>2, <1>6, <1>9, <1>10
  <2> QED BY <2>1, <2>2
<1>12. StackOK(calls', saved)
  <2>1. Visited(response)
    BY <1>5 DEF response, messages
  <2>2. OnlyFirst(response) /\ Current(response, saved)
    BY <1>10, <1>11, PlainWork
  <2> QED BY <2>1, <2>2, <1>1, <1>2, <1>10, VisitedStep
<1>13. World' \in Worlds
  BY <1>2, <1>3, <1>4 DEF World, Worlds, NodeSends
<1> QED BY <1>4, <1>12, <1>13 DEF IInv, NodeSends

\* A node that has sent nothing is saved as it was.
LEMMA SaveUnchanged ==
  ASSUME nodes \in Stores, item.node.index \in DOMAIN nodes,
         item.node = nodes[item.node.index]
  PROVE  Save(item.node) = nodes
<1>1. nodes \in [DOMAIN nodes -> Nodes]
  BY StoreMember DEF StoreOK
<1> QED BY <1>1 DEF Save

LEMMA NodeIsSilentStep ==
  ASSUME IInv, NodeIsSilent
  PROVE  IInv'
<1>1. Working("visit")
  BY DEF NodeIsSilent
<1>2. /\ StackOK(calls, nodes) /\ World \in Worlds /\ nodes \in Stores
      /\ item.operation \in Operations
      /\ item.node.index \in DOMAIN nodes
      /\ item.node = nodes[item.node.index] /\ LocalPath \in Seq(Nat)
  BY <1>1, VisitFacts
<1>3. nodes' = nodes
  BY <1>2, SaveUnchanged DEF NodeIsSilent
<1>4. PICK next \in NextNodes(item.operation, item.node) :
        Visited(VisitNext(item.operation, next, LocalPath))
  BY DEF NodeIsSilent
<1>5. next = <<>> \/ \E j \in DOMAIN nodes : next = <<nodes[j]>>
  <2>1. next \in NextNodes(item.operation, nodes[item.node.index])
    BY <1>2, <1>4
  <2> QED BY <1>2, <2>1, NextIsAnother
<1>6. /\ VisitNext(item.operation, next, LocalPath) \in Seq(Items)
      /\ OnlyFirst(VisitNext(item.operation, next, LocalPath))
      /\ Current(VisitNext(item.operation, next, LocalPath), nodes)
  BY <1>2, <1>5, NextIsVisit
<1>7. StackOK(calls', nodes)
  BY <1>1, <1>2, <1>4, <1>6, VisitedStep
<1>8. World' \in Worlds
  BY <1>2, <1>3 DEF World, Worlds, NodeIsSilent
<1> QED BY <1>3, <1>7, <1>8 DEF IInv, NodeIsSilent

LEMMA NodeErrsStep ==
  ASSUME IInv, NodeErrs
  PROVE  IInv'
<1> DEFINE last == Process(item.operation, item.node.index)
<1>1. Working("visit")
  BY DEF NodeErrs
<1>2. /\ StackOK(calls, nodes) /\ World \in Worlds /\ nodes \in Stores
      /\ item.operation \in Operations /\ item.node.index \in Nat
      /\ item.node.index \in DOMAIN nodes
      /\ item.node = nodes[item.node.index] /\ LocalPath \in Seq(Nat)
  BY <1>1, VisitFacts
<1>3. nodes' = nodes
  BY <1>2, SaveUnchanged DEF NodeErrs
<1>4. last \in Items /\ last.kind # "visit"
  BY <1>2 DEF Process, Items
<1>5. Visited(<<last>>)
  BY DEF NodeErrs
<1> HIDE DEF last
<1>6. <<last>> \in Seq(Items) /\ NoVisits(<<last>>)
  BY <1>4 DEF NoVisits
<1>7. OnlyFirst(<<last>>) /\ Current(<<last>>, nodes)
  BY <1>6, PlainWork
<1>8. StackOK(calls', nodes)
  BY <1>1, <1>2, <1>5, <1>6, <1>7, VisitedStep
<1>9. World' \in Worlds
  BY <1>2, <1>3 DEF World, Worlds, NodeErrs
<1> QED BY <1>3, <1>8, <1>9 DEF IInv, NodeErrs

\* The messages of a node are delivered when no visit is among the work.
LEMMA AfterMessage ==
  ASSUME StackOK(calls, nodes), Working("message")
  PROVE  Tail(top.work) \in Seq(Items) /\ NoVisits(Tail(top.work))
<1>1. top.work \in Seq(Items) /\ top.work # <<>> /\ OnlyFirst(top.work)
  BY ItemType
<1>2. Len(top.work) \in Nat \ {0}
  BY <1>1, EmptySeq
<1>3. /\ Tail(top.work) \in Seq(Items)
      /\ Len(Tail(top.work)) = Len(top.work) - 1
      /\ \A k \in 1 .. Len(Tail(top.work)) : Tail(top.work)[k] = top.work[k + 1]
  BY <1>1, HeadTailProperties
<1> QED BY <1>1, <1>2, <1>3 DEF NoVisits, OnlyFirst

LEMMA TailStep ==
  ASSUME StackOK(calls, nodes), Working("message")
  PROVE  StackOK([calls EXCEPT ![Depth].work = Tail(@)], nodes)
<1>1. calls # <<>>
  BY DEF Working
<1>2. [calls EXCEPT ![Depth].work = Tail(@)]
        = [calls EXCEPT ![Depth].work = Tail(top.work)]
  BY DEF top
<1> QED BY <1>1, <1>2, AfterMessage, PlainWork, WorkChanges

LEMMA DeliverMessageStep ==
  ASSUME IInv, NEW a \in Accounts, DeliverMessage(a)
  PROVE  IInv'
<1> DEFINE cs == [calls EXCEPT ![Depth].work = Tail(@)]
<1>1. StackOK(calls, nodes) /\ World \in Worlds /\ Working("message")
  BY DEF IInv, DeliverMessage
<1>2. StackOK(cs, nodes)
  BY <1>1, TailStep
<1>3. /\ calls \in Seq(Activations) /\ top \in Activations
      /\ Depth \in 1 .. Depth /\ Depth \in DOMAIN calls /\ Depth \in Nat
  BY <1>1, ItemType, StackTop, LenProperties DEF Depth
<1>4. Len(cs) = Depth /\ cs[Len(cs)].work = Tail(top.work)
  <2>1. cs = [calls EXCEPT ![Depth] = [top EXCEPT !.work = Tail(top.work)]]
    BY DEF top
  <2>2. /\ [top EXCEPT !.work = Tail(top.work)] \in Activations
        /\ [top EXCEPT !.work = Tail(top.work)].work = Tail(top.work)
    BY <1>1, <1>3, AfterMessage DEF Activations
  <2> DEFINE t == [top EXCEPT !.work = Tail(top.work)]
  <2> HIDE DEF t
  <2>3. t \in Activations /\ t.work = Tail(top.work) /\ cs = [calls EXCEPT ![Depth] = t]
    BY <2>1, <2>2 DEF t
  <2>4. Len([calls EXCEPT ![Depth] = t]) = Len(calls)
    BY <1>3, <2>3, ExceptSeq DEF Depth
  <2> QED BY <1>3, <2>3, <2>4 DEF Depth
<1>5. NoVisits(cs[Len(cs)].work)
  BY <1>1, <1>4, AfterMessage
<1>6. Len(cs) < MaxDepth
  BY <1>4 DEF DeliverMessage
<1> HIDE DEF cs
<1>7. Activation(a) \in Activations /\ Activation(a).work = <<>>
  BY <1>1, FreshActivation
<1>8. StackOK(Append(cs, Activation(a)), nodes)
  BY <1>2, <1>5, <1>6, <1>7, PushStack
<1>9. StackOK(calls', nodes') /\ World' \in Worlds
  BY <1>1, <1>8 DEF World, DeliverMessage, cs
<1> QED BY <1>9 DEF IInv, DeliverMessage

LEMMA AnswerMessageStep ==
  ASSUME IInv, AnswerMessage
  PROVE  IInv'
<1>1. StackOK(calls, nodes) /\ World \in Worlds /\ Working("message")
  BY DEF IInv, AnswerMessage
<1>2. StackOK(calls', nodes') /\ World' \in Worlds
  BY <1>1, TailStep DEF World, AnswerMessage
<1> QED BY <1>2 DEF IInv, AnswerMessage

\* A failure brings back a state that was stored when the invariant held.
LEMMA Restored ==
  ASSUME NEW w \in Worlds, Restore(w)
  PROVE  World' \in Worlds
BY DEF Restore, World, Worlds

LEMMA CallFailsStep ==
  ASSUME IInv, CallFails
  PROVE  IInv'
<1>1. StackOK(calls, nodes) /\ World \in Worlds
  BY DEF IInv
<1>2. PICK kind \in {"process", "visit", "init"} : Working(kind)
  BY DEF CallFails
<1>3. calls # <<>> /\ top \in Activations
  BY <1>1, <1>2, ItemType
<1>4. World' \in Worlds
  BY <1>3, Restored DEF CallFails, Activations
<1> DEFINE t == [top EXCEPT !.work = <<>>, !.trail = NoTrail]
<1>5. NoTrail \in Trails
  BY EmptySeq, StrategyAssumption DEF NoTrail, Trails
<1>6. t \in Activations /\ t.work = <<>>
  BY <1>3, <1>5, NoWork DEF Activations
<1>7. calls' = [calls EXCEPT ![Depth] = t]
  BY DEF CallFails, top
<1> HIDE DEF t
<1>8. StackOK(calls', nodes')
  BY <1>1, <1>3, <1>6, <1>7, NoWork, TopChanges DEF Depth
<1> QED BY <1>4, <1>8 DEF IInv, CallFails

LEMMA ReturnStep ==
  ASSUME IInv, Return
  PROVE  IInv'
<1>1. StackOK(calls, nodes) /\ World \in Worlds /\ calls # <<>>
  BY DEF IInv, Return, Running
<1>2. StackOK(calls', nodes') /\ World' \in Worlds
  BY <1>1, PopStack DEF World, Return
<1> QED BY <1>2 DEF IInv, Return

LEMMA FailStep ==
  ASSUME IInv, Fail
  PROVE  IInv'
<1>1. StackOK(calls, nodes) /\ calls # <<>>
  BY DEF IInv, Fail, Running
<1>2. top \in Activations
  BY <1>1, StackTop DEF top, Depth
<1>3. World' \in Worlds
  BY <1>2, Restored DEF Fail, Activations
<1>4. StackOK(calls', nodes')
  BY <1>1, PopStack DEF Fail
<1> QED BY <1>3, <1>4 DEF IInv, Fail

LEMMA Stutter ==
  ASSUME IInv, UNCHANGED vars
  PROVE  IInv'
BY DEF IInv, World, vars

LEMMA NextStep == IInv /\ [Next]_vars => IInv'
<1> SUFFICES ASSUME IInv, [Next]_vars PROVE IInv'
  OBVIOUS
<1>1. CASE \E a \in Accounts : Begin(a)
  BY <1>1, BeginStep
<1>2. ASSUME NEW g \in Graphs, Instantiate(g) PROVE IInv'
  BY <1>2, CallStep, InitWork DEF Instantiate, Statuses
<1>3. ASSUME NEW g \in Graphs, Update(g) PROVE IInv'
  <2>1. status' \in Statuses \cup {"none"}
    BY <1>3 DEF Update, IInv, World, Worlds
  <2> QED BY <1>3, <2>1, CallStep, InitWork DEF Update
<1>4. CASE Execute
  <2>1. status' \in Statuses \cup {"none"}
    BY <1>4 DEF Execute, IInv, World, Worlds
  <2>2. "execute" \in Operations
    BY DEF Operations
  <2> QED BY <1>4, <2>1, <2>2, CallStep, ProcessWork DEF Execute
<1>5. ASSUME NEW s \in Statuses, UpdateStatus(s) PROVE IInv'
  <2> DEFINE operation == IF s = "active" THEN "execute" ELSE "cancel"
  <2>1. operation \in Operations
    BY DEF Operations
  <2>2. Calls(<<Process(operation, NONE)>>) /\ status' = s
    BY <1>5 DEF UpdateStatus
  <2> HIDE DEF operation
  <2> QED BY <2>1, <2>2, CallStep, ProcessWork
<1>6. CASE StoreList
  BY <1>6, StoreListStep
<1>7. CASE StartRun
  BY <1>7, StartRunStep
<1>8. CASE Resume
  BY <1>8, ResumeStep
<1>9. CASE NodeSends
  BY <1>9, NodeSendsStep
<1>10. CASE NodeIsSilent
  BY <1>10, NodeIsSilentStep
<1>11. CASE NodeErrs
  BY <1>11, NodeErrsStep
<1>12. CASE \E a \in Accounts : DeliverMessage(a)
  BY <1>12, DeliverMessageStep
<1>13. CASE AnswerMessage
  BY <1>13, AnswerMessageStep
<1>14. CASE CallFails
  BY <1>14, CallFailsStep
<1>15. CASE Return
  BY <1>15, ReturnStep
<1>16. CASE Fail
  BY <1>16, FailStep
<1>17. CASE UNCHANGED vars
  BY <1>17, Stutter
<1> QED BY <1>1, <1>2, <1>3, <1>4, <1>5, <1>6, <1>7, <1>8, <1>9, <1>10, <1>11,
           <1>12, <1>13, <1>14, <1>15, <1>16, <1>17 DEF Next, Transact

\* The inductive invariant: the store and every state that a failure may bring
\* back are acyclic, and only the turn of the loop that comes next holds a node.
THEOREM InvariantHolds == Spec => []IInv
BY InitStep, NextStep, PTL DEF Spec

\* NodeStore::init sorts only the list proposed, and leaves the nodes of longer
\* lists in the map: the nodes stored never form a cycle all the same, so that
\* get_next can follow edges without keeping track of where it has been.
THEOREM StaysAcyclic == Spec => []StoreAcyclic
<1>1. IInv => StoreAcyclic
  BY StoreMember DEF IInv, World, Worlds, StoreAcyclic
<1> QED BY <1>1, InvariantHolds, PTL

\* Process saves the node it visits from the copy it loaded: no call, commit or
\* failure comes between the load and the save.
THEOREM LoadedIsCurrent == Spec => []LoadedIsStored
<1>1. IInv => LoadedIsStored
  <2> SUFFICES ASSUME IInv, Working("visit")
               PROVE  item.node = nodes[item.node.index]
    BY DEF LoadedIsStored
  <2> QED BY VisitFacts
<1> QED BY <1>1, InvariantHolds, PTL

\* The store has no gaps and its nodes know their indices, in the present state
\* and in every state to which a failing call or message may return.
THEOREM TypeCorrect == Spec => []TypeOK
<1>1. \A w \in Worlds : WorldOK(w)
  BY StoreMember DEF Worlds, WorldOK
<1>2. IInv => TypeOK
  <2> SUFFICES ASSUME IInv PROVE TypeOK
    OBVIOUS
  <2>1. /\ World \in Worlds /\ left \in 0 .. MaxCalls /\ Depth <= MaxDepth
        /\ calls \in Seq(Activations)
    BY DEF IInv, StackOK, Depth
  <2>2. \A l \in DOMAIN calls : calls[l] \in Activations
    BY <2>1, ElementOfSeq, LenProperties
  <2> QED BY <2>1, <2>2, <1>1 DEF TypeOK, Activations
<1> QED BY <1>2, InvariantHolds, PTL

-----------------------------------------------------------------------------
(* Where a run is, and what its nodes wait for *)

\* The nodes that can be reached from i, without counting steps: those that
\* every set that contains i and is closed under the edges contains too.
Closed(store, C) ==
  \A j \in C : \A b \in Branches :
    store[j].exits[b] \in DOMAIN store => store[j].exits[b] \in C

Reaches(store, i, j) ==
  \A C \in SUBSET DOMAIN store : Closed(store, C) /\ i \in C => j \in C

\* The edges and the lists of the nodes are the same, whatever their stages.
SameEdges(store, other) ==
  /\ DOMAIN other = DOMAIN store
  /\ \A i \in DOMAIN store : /\ other[i].exits = store[i].exits
                             /\ other[i].list = store[i].list

LEMMA ReachesItself ==
  ASSUME NEW store, NEW i
  PROVE  Reaches(store, i, i)
BY DEF Reaches

LEMMA ReachesThrough ==
  ASSUME NEW store, NEW i, NEW b \in Branches, NEW j,
         store[i].exits[b] \in DOMAIN store,
         Reaches(store, store[i].exits[b], j)
  PROVE  Reaches(store, i, j)
<1> SUFFICES ASSUME NEW C \in SUBSET DOMAIN store, Closed(store, C), i \in C
             PROVE  j \in C
  BY DEF Reaches
<1>1. store[i].exits[b] \in C
  BY DEF Closed
<1> QED BY <1>1 DEF Reaches

LEMMA ReachesSame ==
  ASSUME NEW store, NEW other, SameEdges(store, other), NEW i, NEW j,
         Reaches(other, i, j)
  PROVE  Reaches(store, i, j)
<1> SUFFICES ASSUME NEW C \in SUBSET DOMAIN store, Closed(store, C), i \in C
             PROVE  j \in C
  BY DEF Reaches
<1>1. C \in SUBSET DOMAIN other /\ Closed(other, C)
  BY DEF SameEdges, Closed
<1> QED BY <1>1 DEF Reaches

\* In an acyclic store no edge of a node leads back to it.  Of the nodes that
\* reach i one has no edge to another of them; everything it reaches lies then
\* outside that set or is the node itself, which must therefore be i.
LEMMA NoWayBack ==
  ASSUME NEW store, AcyclicStore(store), NEW i \in DOMAIN store,
         NEW b \in Branches, store[i].exits[b] \in DOMAIN store
  PROVE  ~Reaches(store, store[i].exits[b], i)
<1> DEFINE S == {j \in DOMAIN store : Reaches(store, j, i)}
           V == DOMAIN store \ S
<1>1. i \in S
  BY ReachesItself
<1>2. Closed(store, V)
  <2> SUFFICES ASSUME NEW k \in V, NEW a \in Branches,
                      store[k].exits[a] \in DOMAIN store
               PROVE  ~Reaches(store, store[k].exits[a], i)
    BY DEF Closed
  <2>1. ~Reaches(store, k, i)
    OBVIOUS
  <2> QED BY <2>1, ReachesThrough
<1>3. PICK j \in S : \A a \in Branches : store[j].exits[a] \notin S
  <2>1. S \in SUBSET DOMAIN store /\ S # {}
    BY <1>1
  <2> HIDE DEF S
  <2> QED BY <2>1, Zenon DEF AcyclicStore
<1>4. V \cup {j} \in SUBSET DOMAIN store /\ Closed(store, V \cup {j})
  BY <1>2, <1>3 DEF Closed
<1>5. Reaches(store, j, i)
  BY <1>3
<1>6. i \in V \cup {j}
  BY <1>4, <1>5 DEF Reaches
<1>7. i = j
  BY <1>1, <1>6
<1>8. store[i].exits[b] \notin S
  BY <1>3, <1>7
<1> QED BY <1>8

\* What the new list is put over cannot be reached through it: a node of the old
\* store that can be reached in the new one could be reached before.
LEMMA ReachesReplaced ==
  ASSUME nodes \in Stores, NEW g \in Graphs, StaysInside(g), NEW i \in DOMAIN nodes,
         NEW j \in DOMAIN nodes \ DOMAIN g, Reaches(Replaced(g), i, j)
  PROVE  Reaches(nodes, i, j)
<1> DEFINE new == Replaced(g)
<1>1. IsNodeList(g) /\ StoreOK(nodes)
  BY StrategyAssumption, StoreMember
<1>2. /\ DOMAIN new = DOMAIN nodes \cup DOMAIN g
      /\ NONE \notin DOMAIN new
  BY <1>1, StrategyAssumption DEF Replaced, IsNodeList, StoreOK, Gapless
<1>3. \A k \in DOMAIN g : new[k].exits = g[k]
  <2> SUFFICES ASSUME NEW k \in DOMAIN g PROVE new[k].exits = g[k]
    OBVIOUS
  <2>1. new[k] = FreshNode(g, k)
    BY DEF Replaced
  <2> HIDE DEF new
  <2> QED BY <2>1 DEF FreshNode
<1>4. \A k \in DOMAIN nodes \ DOMAIN g : new[k] = nodes[k]
  BY DEF Replaced
<1> HIDE DEF new
<1> SUFFICES ASSUME NEW C \in SUBSET DOMAIN nodes, Closed(nodes, C), i \in C
             PROVE  j \in C
  BY DEF Reaches
<1> DEFINE E == C \cup DOMAIN g
<1>5. E \in SUBSET DOMAIN new /\ i \in E
  BY <1>2
<1>6. Closed(new, E)
  <2> SUFFICES ASSUME NEW k \in E, NEW b \in Branches, new[k].exits[b] \in DOMAIN new
               PROVE  new[k].exits[b] \in E
    BY DEF Closed
  <2>1. CASE k \in DOMAIN g
    <3>1. g[k][b] \in DOMAIN g \cup {NONE}
      BY <2>1 DEF StaysInside
    <3>2. new[k].exits[b] = g[k][b]
      BY <2>1, <1>3
    <3> QED BY <3>1, <3>2, <1>2
  <2>2. CASE k \notin DOMAIN g
    BY <2>2, <1>2, <1>4 DEF Closed
  <2> QED BY <2>1, <2>2
<1>7. Reaches(new, i, j)
  BY DEF new
<1>8. j \in E
  BY <1>5, <1>6, <1>7 DEF Reaches
<1> QED BY <1>8

\* A commit, or the visit of a loop already begun: work that touches the path.
IsRun(it) == it.kind = "visit" \/ (it.kind = "process" /\ it.previous # NONE)

NoRun(work) == \A k \in 1 .. Len(work) : ~IsRun(work[k])

\* The messages of a node come first, then the call that commits it, or a visit,
\* and last the list to store.
InOrder(work) ==
  \A k \in 1 .. Len(work) :
    IF work[k].kind = "message"
    THEN k < Len(work) /\ work[k + 1].kind \in {"message", "process"}
    ELSE \A j \in k + 1 .. Len(work) : work[j].kind = "init"

Commits(work, i) ==
  \E k \in 1 .. Len(work) : work[k].kind = "process" /\ work[k].previous = i

CommitDue(cs, d, i) == \E l \in 1 .. d : Commits(cs[l].work, i)

\* The call of an activation cancels, or has done so.
CancelsIn(work) ==
  \E k \in 1 .. Len(work) : work[k].kind = "process" /\ work[k].operation = "cancel"

Cancels(c) == c.trail.operation = "cancel" \/ CancelsIn(c.work)

LevelOK(c) ==
  /\ InOrder(c.work)
  /\ IsInjective(c.trail.visits)
  /\ Cancels(c) => c.before.status # "none"

\* A node's messages are being delivered, one of them by the activation above.
Waits(c) == c.work # <<>> /\ Head(c.work).kind \in {"message", "process"}

LevelsOK(cs) ==
  \A l \in 1 .. Len(cs) :
    /\ LevelOK(cs[l])
    /\ l < Len(cs) => Waits(cs[l])
    /\ cs[l].trail.alone => \A m \in l + 1 .. Len(cs) : NoRun(cs[m].work)

Steps(visits) == [k \in DOMAIN visits |-> visits[k][2]]

Indices(trail) == {trail.visits[k][2] : k \in DOMAIN trail.visits}

\* A node that a run has visited is still the one stored, unless a list stored
\* since the run began has replaced it.
Accounted(trail, w) ==
  /\ trail.since <= w.lists
  /\ \A k \in DOMAIN trail.visits :
       /\ trail.visits[k][2] \in DOMAIN w.nodes
       /\ \/ trail.visits[k][1] = w.nodes[trail.visits[k][2]].list
          \/ w.nodes[trail.visits[k][2]].list > trail.since

Unvisited(store, visits, j) ==
  \A k \in DOMAIN visits : visits[k] # <<store[j].list, j>>

\* A run that has visited node i last, in world w: what can be reached from there
\* is yet to be visited, and a run that cancels has gone through the indices.
RunAfter(trail, operation, i, w) ==
  /\ trail.operation = operation
  /\ i \in DOMAIN w.nodes
  /\ trail.visits # <<>>
  /\ Last(trail.visits)[2] = i
  /\ Last(trail.visits)[1] <= w.nodes[i].list
  /\ \A k \in DOMAIN trail.visits : trail.visits[k][1] <= w.lists
  /\ trail.alone => w.path = Steps(trail.visits)
  /\ operation = "cancel" => Indices(trail) = 0 .. i
  /\ operation = "execute" =>
       \A j \in DOMAIN w.nodes \ {i} :
         Reaches(w.nodes, i, j) => Unvisited(w.nodes, trail.visits, j)

\* A run that is about to visit a node.
RunBefore(trail, it, w) ==
  /\ trail.operation = it.operation
  /\ \A k \in DOMAIN trail.visits : trail.visits[k][1] <= w.lists
  /\ trail.alone => it.path = Steps(trail.visits)
  /\ it.operation = "cancel" => Indices(trail) = 0 .. it.node.index - 1
  /\ it.operation = "execute" =>
       \A j \in DOMAIN w.nodes :
         Reaches(w.nodes, it.node.index, j) => Unvisited(w.nodes, trail.visits, j)

\* What is left to commit of a run can be committed in world w.
CommitsFit(work, trail, w) ==
  \A k \in 1 .. Len(work) :
    work[k].kind = "process" /\ work[k].previous # NONE =>
      RunAfter(trail, work[k].operation, work[k].previous, w)

RunFits(c, w) ==
  /\ CommitsFit(c.work, c.trail, w)
  /\ Accounted(c.trail, w)
  /\ c.before.status # "none" => w.status # "none"

ListsKnown(w) == \A i \in DOMAIN w.nodes : w.nodes[i].list <= w.lists

\* A world is one that the d lowest activations of a stack may find.
WorldFits(w, cs, d) ==
  /\ \A l \in 1 .. d : RunFits(cs[l], w)
  /\ ListsKnown(w)
  /\ \A i \in DOMAIN w.nodes : w.nodes[i].stage = "sent" => CommitDue(cs, d, i)

SavedFits(cs) ==
  \A m \in 1 .. Len(cs) : /\ WorldFits(cs[m].saved, cs, m - 1)
                          /\ WorldFits(cs[m].before, cs, m - 1)

\* What the activation on top does next.
TopFits(t, w) ==
  t.work # <<>> =>
    /\ Head(t.work).kind = "visit" => RunBefore(t.trail, Head(t.work), w)
    /\ Head(t.work).kind = "init" /\ t.trail.operation = "cancel" =>
         Indices(t.trail) = DOMAIN w.nodes

StackFits(cs, w) ==
  /\ LevelsOK(cs)
  /\ WorldFits(w, cs, Len(cs))
  /\ SavedFits(cs)
  /\ cs # <<>> => TopFits(cs[Len(cs)], w)

RunInv == IInv /\ StackFits(calls, World)

-----------------------------------------------------------------------------
(* The order of the work *)

LEMMA EmptyOrder ==
  /\ InOrder(<<>>) /\ NoRun(<<>>) /\ ~CancelsIn(<<>>)
  /\ \A i : ~Commits(<<>>, i)
  /\ \A trail, w : CommitsFit(<<>>, trail, w)
<1>1. Len(<<>>) = 0
  BY EmptySeq
<1> QED BY <1>1 DEF InOrder, NoRun, CancelsIn, Commits, CommitsFit

\* Behind anything but a message there is nothing but a list to store.
LEMMA RestIsInit ==
  ASSUME NEW work \in Seq(Items), work # <<>>, InOrder(work),
         Head(work).kind # "message"
  PROVE  /\ Tail(work) \in Seq(Items)
         /\ \A k \in 1 .. Len(Tail(work)) : Tail(work)[k].kind = "init"
         /\ \A k \in 2 .. Len(work) : work[k].kind = "init"
<1>1. Len(work) \in Nat \ {0} /\ Head(work) = work[1]
  BY EmptySeq
<1>2. /\ Tail(work) \in Seq(Items)
      /\ Len(Tail(work)) = Len(work) - 1
      /\ \A k \in 1 .. Len(Tail(work)) : Tail(work)[k] = work[k + 1]
  BY HeadTailProperties
<1>3. \A k \in 2 .. Len(work) : work[k].kind = "init"
  BY <1>1 DEF InOrder
<1> QED BY <1>1, <1>2, <1>3

\* What a handler answers with, before lists to store.
LEMMA AnswerOrder ==
  ASSUME NEW response \in Seq(Items), InOrder(response),
         NEW rest \in Seq(Items),
         \A k \in 1 .. Len(rest) : rest[k].kind = "init"
  PROVE  /\ InOrder(response \o rest)
         /\ NoRun(response) => NoRun(response \o rest)
         /\ CancelsIn(response \o rest) => CancelsIn(response)
         /\ \A i : Commits(response, i) => Commits(response \o rest, i)
         /\ \A trail, w : CommitsFit(response, trail, w)
                            => CommitsFit(response \o rest, trail, w)
         /\ response # <<>> => /\ response \o rest # <<>>
                               /\ Head(response \o rest) = Head(response)
         /\ response = <<>> /\ response \o rest # <<>>
              => Head(response \o rest).kind = "init"
<1> DEFINE all == response \o rest
           n == Len(response)
           m == Len(rest)
<1>1. n \in Nat /\ m \in Nat
  BY LenProperties
<1>2. /\ all \in Seq(Items)
      /\ Len(all) = n + m
      /\ \A k \in 1 .. n + m : all[k] = IF k <= n THEN response[k] ELSE rest[k - n]
  BY ConcatProperties
<1> HIDE DEF all
<1>3. \A k \in 1 .. n : k \in 1 .. Len(all) /\ all[k] = response[k]
  BY <1>1, <1>2
<1>4. \A k \in 1 .. Len(all) : k \in 1 .. n \/ (k > n /\ all[k].kind = "init")
  <2> SUFFICES ASSUME NEW k \in 1 .. n + m, k > n PROVE all[k].kind = "init"
    BY <1>1, <1>2
  <2>1. k - n \in 1 .. m
    BY <1>1
  <2>2. all[k] = rest[k - n]
    BY <1>1, <1>2
  <2> QED BY <2>1, <2>2
<1>5. InOrder(all)
  <2> SUFFICES ASSUME NEW k \in 1 .. Len(all)
               PROVE  IF all[k].kind = "message"
                      THEN k < Len(all) /\ all[k + 1].kind \in {"message", "process"}
                      ELSE \A j \in k + 1 .. Len(all) : all[j].kind = "init"
    BY DEF InOrder
  <2>1. CASE k \in 1 .. n /\ all[k].kind = "message"
    <3>1. k < n /\ response[k + 1].kind \in {"message", "process"}
      BY <2>1, <1>3 DEF InOrder
    <3>2. k + 1 \in 1 .. n
      BY <3>1, <2>1, <1>1
    <3> QED BY <2>1, <3>1, <3>2, <1>1, <1>2, <1>3
  <2>2. CASE k \in 1 .. n /\ all[k].kind # "message"
    <3>1. \A j \in k + 1 .. n : response[j].kind = "init"
      BY <2>2, <1>3 DEF InOrder
    <3>2. ASSUME NEW j \in k + 1 .. Len(all) PROVE all[j].kind = "init"
      <4>1. j \in 1 .. Len(all)
        BY <2>2, <1>1, <1>2
      <4>2. CASE j \in 1 .. n
        BY <4>2, <3>1, <1>1, <1>3, <2>2
      <4> QED BY <4>1, <4>2, <1>4
    <3> QED BY <2>2, <3>2
  <2>3. CASE k > n
    <3>1. all[k].kind = "init"
      BY <2>3, <1>1, <1>4
    <3>2. ASSUME NEW j \in k + 1 .. Len(all) PROVE all[j].kind = "init"
      <4>1. j \in 1 .. Len(all) /\ j > n
        BY <2>3, <1>1, <1>2
      <4> QED BY <4>1, <1>1, <1>4
    <3> QED BY <3>1, <3>2
  <2> QED BY <2>1, <2>2, <2>3, <1>4
<1> HIDE DEF n, m
<1>6. NoRun(response) => NoRun(all)
  BY <1>3, <1>4 DEF NoRun, IsRun, n
<1>7. CancelsIn(all) => CancelsIn(response)
  BY <1>3, <1>4 DEF CancelsIn, n
<1>8. \A i : Commits(response, i) => Commits(all, i)
  BY <1>3 DEF Commits, n
<1>9. \A trail, w : CommitsFit(response, trail, w) => CommitsFit(all, trail, w)
  BY <1>3, <1>4 DEF CommitsFit, n
<1>10. response # <<>> => all # <<>> /\ Head(all) = Head(response)
  <2> SUFFICES ASSUME response # <<>> PROVE all # <<>> /\ Head(all) = Head(response)
    OBVIOUS
  <2>1. n \in Nat \ {0} /\ Head(response) = response[1]
    BY EmptySeq DEF n
  <2>2. Len(all) # 0 /\ all[1] = response[1]
    BY <2>1, <1>1, <1>2, <1>3
  <2>3. all # <<>>
    BY <2>2, EmptySeq
  <2> QED BY <2>1, <2>2, <2>3, <1>2
<1>11. response = <<>> /\ all # <<>> => Head(all).kind = "init"
  <2> SUFFICES ASSUME response = <<>>, all # <<>> PROVE Head(all).kind = "init"
    OBVIOUS
  <2>1. n = 0
    BY EmptySeq DEF n
  <2>2. Len(all) \in Nat \ {0} /\ Head(all) = all[1]
    BY <1>2, EmptySeq
  <2> QED BY <2>1, <2>2, <1>4
<1> QED BY <1>5, <1>6, <1>7, <1>8, <1>9, <1>10, <1>11 DEF all

\* Once a message is delivered, what was behind it is left.
LEMMA AfterMessageOrder ==
  ASSUME NEW work \in Seq(Items), work # <<>>, InOrder(work),
         Head(work).kind = "message"
  PROVE  /\ InOrder(Tail(work))
         /\ Tail(work) # <<>> /\ Head(Tail(work)).kind \in {"message", "process"}
         /\ NoRun(work) => NoRun(Tail(work))
         /\ CancelsIn(Tail(work)) => CancelsIn(work)
         /\ \A i : Commits(work, i) => Commits(Tail(work), i)
         /\ \A trail, w : CommitsFit(work, trail, w) => CommitsFit(Tail(work), trail, w)
<1> DEFINE rest == Tail(work)
           n == Len(work)
<1>1. n \in Nat \ {0} /\ Head(work) = work[1]
  BY EmptySeq
<1>2. /\ rest \in Seq(Items)
      /\ Len(rest) = n - 1
      /\ \A k \in 1 .. Len(rest) : rest[k] = work[k + 1]
  BY HeadTailProperties
<1> HIDE DEF rest
<1>3. 1 < n /\ work[2].kind \in {"message", "process"}
  BY <1>1 DEF InOrder
<1>4. rest # <<>> /\ Head(rest).kind \in {"message", "process"}
  <2>1. Len(rest) # 0 /\ rest[1] = work[2]
    BY <1>1, <1>2, <1>3
  <2>2. rest # <<>>
    BY <2>1, EmptySeq
  <2> QED BY <2>1, <2>2, <1>2, <1>3
<1>5. \A k \in 1 .. Len(rest) : k + 1 \in 1 .. n /\ rest[k] = work[k + 1]
  BY <1>1, <1>2
<1>6. \A k \in 1 .. n : k = 1 \/ (k - 1 \in 1 .. Len(rest) /\ work[k] = rest[k - 1])
  BY <1>1, <1>2
<1>7. InOrder(rest)
  <2> SUFFICES ASSUME NEW k \in 1 .. Len(rest)
               PROVE  IF rest[k].kind = "message"
                      THEN k < Len(rest) /\ rest[k + 1].kind \in {"message", "process"}
                      ELSE \A j \in k + 1 .. Len(rest) : rest[j].kind = "init"
    BY DEF InOrder
  <2>1. CASE rest[k].kind = "message"
    <3>1. k + 1 < n /\ work[k + 1 + 1].kind \in {"message", "process"}
      BY <2>1, <1>5 DEF InOrder
    <3>2. k < Len(rest) /\ k + 1 \in 1 .. Len(rest)
      BY <3>1, <1>1, <1>2
    <3> QED BY <2>1, <3>1, <3>2, <1>5
  <2>2. CASE rest[k].kind # "message"
    <3>1. \A j \in k + 1 + 1 .. n : work[j].kind = "init"
      BY <2>2, <1>5 DEF InOrder
    <3>2. ASSUME NEW j \in k + 1 .. Len(rest) PROVE rest[j].kind = "init"
      <4>1. j \in 1 .. Len(rest) /\ j + 1 \in k + 1 + 1 .. n
        BY <1>1, <1>2
      <4> QED BY <4>1, <3>1, <1>5
    <3> QED BY <2>2, <3>2
  <2> QED BY <2>1, <2>2
<1> HIDE DEF n
<1>8. NoRun(work) => NoRun(rest)
  BY <1>5 DEF NoRun, n
<1>9. CancelsIn(rest) => CancelsIn(work)
  BY <1>5 DEF CancelsIn, n
<1>10. \A i : Commits(work, i) => Commits(rest, i)
  BY <1>1, <1>6 DEF Commits, n
<1>11. \A trail, w : CommitsFit(work, trail, w) => CommitsFit(rest, trail, w)
  BY <1>5 DEF CommitsFit, n
<1> QED BY <1>4, <1>7, <1>8, <1>9, <1>10, <1>11 DEF rest

-----------------------------------------------------------------------------
(* Runs and the nodes they have visited *)

\* What is true of the nodes visited when another one is.
OneMore(visits, v, more) ==
  /\ more # <<>> /\ Last(more) = v
  /\ \A k \in DOMAIN more :
       more[k] = v \/ \E j \in DOMAIN visits : more[k] = visits[j]
  /\ {more[k][2] : k \in DOMAIN more}
       = {visits[k][2] : k \in DOMAIN visits} \cup {v[2]}
  /\ Steps(more) = Append(Steps(visits), v[2])
  /\ IsInjective(visits) /\ (\A k \in DOMAIN visits : visits[k] # v)
       => IsInjective(more)

LEMMA OneMoreVisit ==
  ASSUME NEW visits \in Seq((1 .. MaxLists) \X Nat),
         NEW v \in (1 .. MaxLists) \X Nat,
         NEW more, more = Append(visits, v)
  PROVE  OneMore(visits, v, more)
<1> DEFINE n == Len(visits)
           m == n + 1
<1>1. /\ n \in Nat /\ m \in Nat /\ DOMAIN visits = 1 .. n
      /\ \A k \in 1 .. n : visits[k] \in (1 .. MaxLists) \X Nat
  BY LenProperties, ElementOfSeq
<1>2. /\ more \in Seq((1 .. MaxLists) \X Nat)
      /\ more # <<>>
      /\ Len(more) = m
      /\ \A k \in 1 .. n : more[k] = visits[k]
      /\ more[m] = v
  BY AppendProperties
<1>3. DOMAIN more = 1 .. m
  BY <1>2, LenProperties
<1> HIDE DEF n
<1>4. /\ \A k \in 1 .. m : k \in 1 .. n \/ k = m
      /\ \A k \in 1 .. n : k \in 1 .. m
      /\ m \in 1 .. m /\ m \notin 1 .. n
  <2>1. n \in Nat
    BY <1>1
  <2> QED BY <2>1
<1> HIDE DEF m
<1>7. Last(more) = v
  BY <1>2 DEF Last
<1>8. \A k \in DOMAIN more :
        more[k] = v \/ \E j \in DOMAIN visits : more[k] = visits[j]
  BY <1>1, <1>2, <1>3, <1>4
<1>9. {more[k][2] : k \in DOMAIN more}
        = {visits[k][2] : k \in DOMAIN visits} \cup {v[2]}
  <2> DEFINE A == {more[k][2] : k \in DOMAIN more}
             B == {visits[k][2] : k \in DOMAIN visits}
  <2>1. \A k \in DOMAIN more : more[k][2] \in B \cup {v[2]}
    <3> SUFFICES ASSUME NEW k \in 1 .. m PROVE more[k][2] \in B \cup {v[2]}
      BY <1>3
    <3>1. CASE k \in 1 .. n
      BY <3>1, <1>1, <1>2
    <3>2. CASE k = m
      BY <3>2, <1>2
    <3> QED BY <3>1, <3>2, <1>4
  <2>2. \A k \in DOMAIN visits : visits[k][2] \in A
    <3> SUFFICES ASSUME NEW k \in 1 .. n PROVE visits[k][2] \in A
      BY <1>1
    <3>1. k \in DOMAIN more /\ more[k] = visits[k]
      BY <1>2, <1>3, <1>4
    <3> QED BY <3>1
  <2>3. v[2] \in A
    BY <1>2, <1>3, <1>4
  <2> QED BY <2>1, <2>2, <2>3
<1>10. Steps(more) = Append(Steps(visits), v[2])
  <2> DEFINE old == Steps(visits)
             new == Steps(more)
             ext == Append(old, v[2])
  <2>1. \A k \in 1 .. n : visits[k][2] \in Nat
    BY <1>1
  <2>2. old \in [1 .. n -> Nat] /\ \A k \in 1 .. n : old[k] = visits[k][2]
    BY <1>1, <2>1 DEF Steps
  <2>3. v[2] \in Nat
    OBVIOUS
  <2> HIDE DEF old
  <2>4. old \in Seq(Nat) /\ Len(old) = n
    BY <1>1, <2>2
  <2>5. /\ ext \in Seq(Nat)
        /\ Len(ext) = m
        /\ \A k \in 1 .. n : ext[k] = old[k]
        /\ ext[m] = v[2]
    BY <2>3, <2>4, AppendProperties DEF m
  <2> HIDE DEF ext
  <2>6. \A k \in 1 .. m : new[k] = more[k][2]
    BY <1>3 DEF Steps
  <2>7. \A k \in 1 .. m : more[k][2] \in Nat
    BY <1>2, <1>3, <1>4, <2>1, <2>3
  <2>8. new \in [1 .. m -> Nat]
    BY <1>3, <2>7 DEF Steps
  <2> HIDE DEF new
  <2>9. new \in Seq(Nat) /\ Len(new) = m
    BY <1>1, <2>8
  <2>10. \A k \in 1 .. Len(new) : new[k] = ext[k]
    <3> SUFFICES ASSUME NEW k \in 1 .. m PROVE new[k] = ext[k]
      BY <2>9
    <3>1. CASE k \in 1 .. n
      BY <3>1, <1>2, <2>2, <2>5, <2>6
    <3>2. CASE k = m
      BY <3>2, <1>2, <2>5, <2>6
    <3> QED BY <3>1, <3>2, <1>4
  <2> QED BY <2>5, <2>9, <2>10, SeqEqual DEF new, ext, old
<1>11. IsInjective(visits) /\ (\A k \in DOMAIN visits : visits[k] # v)
         => IsInjective(more)
  <2> SUFFICES ASSUME IsInjective(visits), \A k \in DOMAIN visits : visits[k] # v,
                      NEW a \in 1 .. m, NEW b \in 1 .. m, more[a] = more[b]
               PROVE  a = b
    BY <1>3 DEF IsInjective
  <2>1. CASE a \in 1 .. n /\ b \in 1 .. n
    BY <2>1, <1>1, <1>2 DEF IsInjective
  <2>2. CASE a \in 1 .. n /\ b = m
    BY <2>2, <1>1, <1>2
  <2>3. CASE a = m /\ b \in 1 .. n
    BY <2>3, <1>1, <1>2
  <2> QED BY <2>1, <2>2, <2>3, <1>4
<1> QED BY <1>2, <1>7, <1>8, <1>9, <1>10, <1>11 DEF OneMore

LEMMA NoVisitYet ==
  ASSUME NEW trail, trail.visits = <<>>
  PROVE  /\ IsInjective(trail.visits) /\ Indices(trail) = {}
         /\ Steps(trail.visits) = <<>>
         /\ \A k \in DOMAIN trail.visits : FALSE
<1>1. DOMAIN trail.visits = {}
  OBVIOUS
<1> QED BY <1>1 DEF IsInjective, Indices, Steps

LEMMA NothingVisited ==
  ASSUME NEW trail, trail.visits = <<>>, NEW w, trail.since <= w.lists
  PROVE  Accounted(trail, w)
BY NoVisitYet DEF Accounted

LEMMA AccountedKept ==
  ASSUME NEW trail, NEW other, NEW w, NEW v, Accounted(trail, w),
         other.visits = trail.visits, other.since = trail.since,
         SameEdges(w.nodes, v.nodes), v.lists = w.lists
  PROVE  Accounted(other, v)
BY DEF Accounted, SameEdges

\* What a run has left to commit stays so while the edges and the lists of the
\* nodes do, and the path, if the run is still alone.
LEMMA RunAfterKept ==
  ASSUME NEW trail, NEW other, NEW operation, NEW i, NEW w, NEW v,
         RunAfter(trail, operation, i, w),
         other.operation = trail.operation, other.visits = trail.visits,
         other.alone => trail.alone,
         SameEdges(w.nodes, v.nodes), v.lists = w.lists,
         other.alone => v.path = w.path
  PROVE  RunAfter(other, operation, i, v)
<1>1. Indices(other) = Indices(trail)
  BY DEF Indices
<1>2. DOMAIN v.nodes = DOMAIN w.nodes
  BY DEF SameEdges
<1>3. i \in DOMAIN v.nodes /\ v.nodes[i].list = w.nodes[i].list
  BY DEF RunAfter, SameEdges
<1>4. ASSUME operation = "execute", NEW j \in DOMAIN v.nodes \ {i},
             Reaches(v.nodes, i, j)
      PROVE  Unvisited(v.nodes, other.visits, j)
  <2>1. j \in DOMAIN w.nodes \ {i} /\ Reaches(w.nodes, i, j)
    BY <1>2, <1>4, ReachesSame
  <2>2. Unvisited(w.nodes, trail.visits, j)
    BY <2>1, <1>4 DEF RunAfter
  <2> QED BY <2>1, <2>2 DEF Unvisited, SameEdges
<1> QED BY <1>1, <1>3, <1>4 DEF RunAfter

\* An activation has the same work and the same calls to come back to; a run of
\* its own may have lost its solitude.
Kept(c, d) ==
  /\ d.work = c.work /\ d.before = c.before /\ d.saved = c.saved
  /\ d.trail.operation = c.trail.operation
  /\ d.trail.visits = c.trail.visits
  /\ d.trail.since = c.trail.since
  /\ d.trail.alone => c.trail.alone

LEMMA RunFitsKept ==
  ASSUME NEW c, NEW d, NEW w, NEW v, RunFits(c, w), Kept(c, d),
         SameEdges(w.nodes, v.nodes), v.lists = w.lists,
         d.trail.alone => v.path = w.path \/ NoRun(c.work),
         w.status # "none" => v.status # "none"
  PROVE  RunFits(d, v)
<1>1. ASSUME NEW k \in 1 .. Len(d.work), d.work[k].kind = "process",
             d.work[k].previous # NONE
      PROVE  RunAfter(d.trail, d.work[k].operation, d.work[k].previous, v)
  <2>1. RunAfter(c.trail, d.work[k].operation, d.work[k].previous, w)
    BY <1>1 DEF RunFits, CommitsFit, Kept
  <2>2. ~NoRun(c.work)
    BY <1>1 DEF NoRun, IsRun, Kept
  <2>3. d.trail.alone => v.path = w.path
    BY <2>2
  <2> QED BY <2>1, <2>3, RunAfterKept DEF Kept
<1>2. CommitsFit(d.work, d.trail, v)
  BY <1>1 DEF CommitsFit
<1>3. Accounted(d.trail, v)
  BY AccountedKept DEF RunFits, Kept
<1> QED BY <1>2, <1>3 DEF RunFits, Kept

\* A run that has committed a node may visit the one its edges lead to.
LEMMA RunGoesOn ==
  ASSUME NEW trail, NEW operation \in Operations, NEW w, w.nodes \in Stores,
         NEW i, RunAfter(trail, operation, i, w), NEW j \in DOMAIN w.nodes,
         IF operation = "cancel" THEN j = i + 1
         ELSE \E b \in Branches : w.nodes[i].exits[b] = j,
         NEW so_far, trail.alone => so_far = w.path,
         NEW it, it.operation = operation, it.path = so_far, it.node.index = j
  PROVE  RunBefore(trail, it, w)
<1>1. i \in DOMAIN w.nodes /\ i \in Nat
  BY StoreFacts DEF RunAfter
<1>2. trail.alone => it.path = Steps(trail.visits)
  BY DEF RunAfter
<1>3. operation = "cancel" => Indices(trail) = 0 .. it.node.index - 1
  BY <1>1 DEF RunAfter
<1>4. ASSUME operation = "execute", NEW k \in DOMAIN w.nodes, Reaches(w.nodes, j, k)
      PROVE  Unvisited(w.nodes, trail.visits, k)
  <2>1. PICK b \in Branches : w.nodes[i].exits[b] = j
    BY <1>4
  <2>2. Reaches(w.nodes, i, k)
    BY <1>4, <2>1, ReachesThrough
  <2>3. ~Reaches(w.nodes, j, i)
    BY <1>1, <2>1, NoWayBack, StoreMember
  <2>4. k # i
    BY <1>4, <2>3
  <2> QED BY <1>4, <2>2, <2>4 DEF RunAfter
<1> QED BY <1>2, <1>3, <1>4 DEF RunAfter, RunBefore

\* A run at `trail', about to visit, goes on as `next' by visiting node i.
Visiting(trail, it, w, i, next, v) ==
  /\ trail \in Trails /\ RunBefore(trail, it, w) /\ it.operation \in Operations
  /\ i \in DOMAIN w.nodes /\ i \in Nat /\ it.node.index = i
  /\ it.node.list = w.nodes[i].list /\ it.node.list \in 1 .. MaxLists
  /\ w.nodes[i].list <= w.lists
  /\ next.operation = trail.operation /\ (next.alone => trail.alone)
  /\ next.visits = Append(trail.visits, <<it.node.list, i>>)
  /\ next.since = trail.since
  /\ IsInjective(trail.visits) /\ Accounted(trail, w)
  /\ SameEdges(w.nodes, v.nodes) /\ v.lists = w.lists
  /\ v.path = Append(it.path, i)

\* A run that has visited a node is at that node.
LEMMA RunHasVisited ==
  ASSUME NEW trail, NEW it, NEW w, NEW i, NEW next, NEW v,
         Visiting(trail, it, w, i, next, v)
  PROVE  /\ RunAfter(next, it.operation, i, v)
         /\ IsInjective(next.visits) /\ Accounted(next, v)
<1> USE DEF Visiting
<1> DEFINE visit == <<it.node.list, i>>
<1>1. trail.visits \in Seq((1 .. MaxLists) \X Nat) /\ visit \in (1 .. MaxLists) \X Nat
  BY DEF Trails
<1>2. visit[1] = w.nodes[i].list /\ visit[2] = i
  OBVIOUS
<1>3. \A k \in DOMAIN trail.visits : /\ trail.visits[k] \in Int \X Nat
                                     /\ trail.visits[k][1] <= w.lists
                                     /\ trail.visits[k][2] \in Indices(trail)
  <2>1. \A k \in DOMAIN trail.visits : trail.visits[k] \in (1 .. MaxLists) \X Nat
    BY <1>1, LenProperties, ElementOfSeq
  <2> QED BY <2>1, StrategyAssumption DEF RunBefore, Indices
<1>4. \A k \in DOMAIN trail.visits : trail.visits[k] # visit
  <2>1. CASE it.operation = "execute"
    <3>1. Unvisited(w.nodes, trail.visits, i)
      BY <2>1, ReachesItself DEF RunBefore
    <3> QED BY <3>1 DEF Unvisited
  <2>2. CASE it.operation = "cancel"
    <3>1. i \notin Indices(trail)
      BY <2>2 DEF RunBefore
    <3> QED BY <3>1, <1>2, <1>3
  <2> QED BY <2>1, <2>2 DEF Operations
<1>5. /\ next.visits # <<>> /\ Last(next.visits) = visit
      /\ \A k \in DOMAIN next.visits :
           next.visits[k] = visit
             \/ \E j \in DOMAIN trail.visits : next.visits[k] = trail.visits[j]
      /\ Indices(next) = Indices(trail) \cup {visit[2]}
      /\ Steps(next.visits) = Append(Steps(trail.visits), visit[2])
      /\ IsInjective(next.visits)
  <2> DEFINE visits == trail.visits
             more == next.visits
  <2> HIDE DEF visit, visits, more
  <2>1. more = Append(visits, visit) /\ visits \in Seq((1 .. MaxLists) \X Nat)
    BY <1>1 DEF visit, visits, more
  <2>2. visit \in (1 .. MaxLists) \X Nat
    BY <1>1
  <2>3. OneMore(visits, visit, more)
    BY <2>1, <2>2, OneMoreVisit
  <2>4. IsInjective(visits) /\ \A k \in DOMAIN visits : visits[k] # visit
    BY <1>4 DEF visits
  <2> QED BY <2>3, <2>4 DEF visits, more, Indices, OneMore
<1>6. \A k \in DOMAIN next.visits : next.visits[k][1] <= w.lists
  <2> SUFFICES ASSUME NEW k \in DOMAIN next.visits PROVE next.visits[k][1] <= w.lists
    OBVIOUS
  <2>1. CASE next.visits[k] = visit
    BY <2>1
  <2>2. ASSUME NEW j \in DOMAIN trail.visits, next.visits[k] = trail.visits[j]
        PROVE  next.visits[k][1] <= w.lists
    BY <2>2, <1>3
  <2> QED BY <2>1, <2>2, <1>5
<1>7. \A j \in DOMAIN w.nodes \ {i} :
        Unvisited(w.nodes, trail.visits, j) => Unvisited(w.nodes, next.visits, j)
  <2> SUFFICES ASSUME NEW j \in DOMAIN w.nodes \ {i}, Unvisited(w.nodes, trail.visits, j)
               PROVE  Unvisited(w.nodes, next.visits, j)
    OBVIOUS
  <2>1. visit # <<w.nodes[j].list, j>>
    BY <1>2
  <2> HIDE DEF visit
  <2> QED BY <2>1, <1>5 DEF Unvisited
<1> HIDE DEF visit
<1>8. ASSUME NEW j \in DOMAIN v.nodes \ {i}, it.operation = "execute",
             Reaches(v.nodes, i, j)
      PROVE  Unvisited(v.nodes, next.visits, j)
  <2>1. j \in DOMAIN w.nodes \ {i} /\ Reaches(w.nodes, i, j)
    BY <1>8, ReachesSame DEF SameEdges
  <2>2. Unvisited(w.nodes, trail.visits, j)
    BY <1>8, <2>1 DEF RunBefore
  <2>3. Unvisited(w.nodes, next.visits, j)
    BY <1>7, <2>1, <2>2
  <2> QED BY <2>1, <2>3 DEF Unvisited, SameEdges
<1>9. next.alone => v.path = Steps(next.visits)
  BY <1>2, <1>5 DEF RunBefore
<1>10. it.operation = "cancel" => Indices(next) = 0 .. i
  <2> SUFFICES ASSUME it.operation = "cancel" PROVE Indices(next) = 0 .. i
    OBVIOUS
  <2>1. Indices(next) = 0 .. i - 1 \cup {i}
    BY <1>2, <1>5 DEF RunBefore
  <2> QED BY <2>1
<1>11. i \in DOMAIN v.nodes /\ v.nodes[i].list = w.nodes[i].list
  BY DEF SameEdges
<1>12. /\ next.operation = it.operation /\ v.lists = w.lists
       /\ Last(next.visits)[2] = i /\ Last(next.visits)[1] <= v.nodes[i].list
  <2>1. visit[1] \in Int
    BY StrategyAssumption DEF visit
  <2>2. Last(next.visits)[1] = v.nodes[i].list /\ Last(next.visits)[2] = i
    BY <1>2, <1>5, <1>11
  <2>3. v.nodes[i].list \in Int
    BY <1>2, <1>11, <2>1
  <2> QED BY <2>2, <2>3 DEF RunBefore
<1>13. ASSUME NEW k \in DOMAIN next.visits
       PROVE  /\ next.visits[k][2] \in DOMAIN v.nodes
              /\ \/ next.visits[k][1] = v.nodes[next.visits[k][2]].list
                 \/ v.nodes[next.visits[k][2]].list > next.since
  <2>1. CASE next.visits[k] = visit
    BY <2>1, <1>2, <1>11
  <2>2. ASSUME NEW j \in DOMAIN trail.visits, next.visits[k] = trail.visits[j]
        PROVE  /\ next.visits[k][2] \in DOMAIN v.nodes
               /\ \/ next.visits[k][1] = v.nodes[next.visits[k][2]].list
                  \/ v.nodes[next.visits[k][2]].list > next.since
    <3>1. Accounted(trail, v)
      BY AccountedKept
    <3>2. next.since = trail.since
      OBVIOUS
    <3> QED BY <2>2, <3>1, <3>2 DEF Accounted
  <2> QED BY <1>5, <2>1, <2>2
<1>14. Accounted(next, v)
  <2>1. next.since <= v.lists
    BY DEF Accounted
  <2> QED BY <2>1, <1>13 DEF Accounted
<1> QED BY <1>5, <1>6, <1>8, <1>9, <1>10, <1>11, <1>12, <1>14 DEF RunAfter

-----------------------------------------------------------------------------
(* Turning, pushing and popping the activation on top *)

LEMMA SameWorld ==
  ASSUME NEW store
  PROVE  SameEdges(store, store)
BY DEF SameEdges

LEMMA FitsBelow ==
  ASSUME NEW w, NEW cs, NEW ds, NEW d, WorldFits(w, cs, d),
         \A l \in 1 .. d : Kept(cs[l], ds[l])
  PROVE  WorldFits(w, ds, d)
<1>1. ASSUME NEW l \in 1 .. d PROVE RunFits(ds[l], w)
  <2>1. RunFits(cs[l], w) /\ Kept(cs[l], ds[l]) /\ SameEdges(w.nodes, w.nodes)
    BY SameWorld DEF WorldFits
  <2> QED BY <2>1, RunFitsKept
<1>2. \A i : CommitDue(cs, d, i) => CommitDue(ds, d, i)
  BY DEF CommitDue, Kept
<1> QED BY <1>1, <1>2 DEF WorldFits

LEMMA KeptItself ==
  ASSUME NEW c
  PROVE  Kept(c, c)
BY DEF Kept

LEMMA LevelKept ==
  ASSUME NEW c, NEW d, Kept(c, d), LevelOK(c)
  PROVE  LevelOK(d)
BY DEF Kept, LevelOK, Cancels

\* Fewer commits are due to the activations below one that has nothing to do.
LEMMA IdleTop ==
  ASSUME NEW w, NEW cs, NEW n \in Nat \ {0}, WorldFits(w, cs, n), cs[n].work = <<>>
  PROVE  WorldFits(w, cs, n - 1)
<1>1. \A l \in 1 .. n - 1 : l \in 1 .. n
  OBVIOUS
<1>2. \A i : ~Commits(cs[n].work, i)
  BY EmptyOrder
<1>3. \A l \in 1 .. n : l \in 1 .. n - 1 \/ l = n
  OBVIOUS
<1>4. \A i : CommitDue(cs, n, i) => CommitDue(cs, n - 1, i)
  BY <1>2, <1>3 DEF CommitDue
<1> QED BY <1>1, <1>4 DEF WorldFits

LEMMA SentBelow ==
  ASSUME NEW cs, NEW n \in Nat \ {0}, NEW i
  PROVE  CommitDue(cs, n, i) <=> CommitDue(cs, n - 1, i) \/ Commits(cs[n].work, i)
<1>1. \A l \in 1 .. n : l \in 1 .. n - 1 \/ l = n
  OBVIOUS
<1>2. n \in 1 .. n /\ \A l \in 1 .. n - 1 : l \in 1 .. n
  OBVIOUS
<1> QED BY <1>1, <1>2 DEF CommitDue

\* The activation on top turns into another, and the world changes.
LEMMA TurnFits ==
  ASSUME NEW cs, NEW ds, NEW w, NEW v, NEW n \in Nat \ {0},
         Len(cs) = n, Len(ds) = n, StackFits(cs, w),
         \A l \in 1 .. n - 1 : Kept(cs[l], ds[l]),
         ds[n].saved = cs[n].saved, LevelOK(ds[n]),
         WorldFits(ds[n].before, cs, n - 1),
         \A l \in 1 .. n - 1 : ds[l].trail.alone => NoRun(ds[n].work),
         \A l \in 1 .. n - 1 : RunFits(ds[l], v),
         RunFits(ds[n], v), ListsKnown(v),
         \A i \in DOMAIN v.nodes :
           v.nodes[i].stage = "sent" =>
             CommitDue(cs, n - 1, i) \/ Commits(ds[n].work, i),
         TopFits(ds[n], v)
  PROVE  StackFits(ds, v)
<1>1. \A l \in 1 .. n : l \in 1 .. n - 1 \/ l = n
  OBVIOUS
<1>2. \A l \in 1 .. n - 1 : l \in 1 .. n /\ l < n
  OBVIOUS
<1>3. LevelsOK(cs) /\ WorldFits(w, cs, n) /\ SavedFits(cs)
  BY DEF StackFits
<1>4. LevelsOK(ds)
  <2> SUFFICES ASSUME NEW l \in 1 .. n
               PROVE  /\ LevelOK(ds[l])
                      /\ l < n => Waits(ds[l])
                      /\ ds[l].trail.alone => \A m \in l + 1 .. n : NoRun(ds[m].work)
    BY DEF LevelsOK
  <2>1. CASE l = n
    BY <2>1
  <2>2. CASE l \in 1 .. n - 1
    <3>1. /\ LevelOK(cs[l]) /\ Waits(cs[l]) /\ Kept(cs[l], ds[l])
          /\ cs[l].trail.alone => \A m \in l + 1 .. n : NoRun(cs[m].work)
      BY <2>2, <1>2, <1>3 DEF LevelsOK
    <3>2. LevelOK(ds[l]) /\ Waits(ds[l])
      BY <3>1, LevelKept DEF Waits, Kept
    <3>3. ASSUME ds[l].trail.alone, NEW m \in l + 1 .. n PROVE NoRun(ds[m].work)
      <4>1. CASE m = n
        BY <4>1, <3>3, <2>2
      <4>2. CASE m # n
        <5>1. m \in 1 .. n - 1
          BY <4>2
        <5>2. cs[l].trail.alone
          BY <3>1, <3>3 DEF Kept
        <5>3. NoRun(cs[m].work) /\ ds[m].work = cs[m].work
          BY <5>1, <5>2, <3>1 DEF Kept
        <5> QED BY <5>3
      <4> QED BY <4>1, <4>2
    <3> QED BY <3>2, <3>3
  <2> QED BY <2>1, <2>2, <1>1
<1>5. WorldFits(v, ds, n)
  <2>1. \A l \in 1 .. n : RunFits(ds[l], v)
    BY <1>1
  <2>2. \A i : CommitDue(cs, n - 1, i) => CommitDue(ds, n - 1, i)
    BY DEF CommitDue, Kept
  <2>3. \A i : CommitDue(ds, n - 1, i) \/ Commits(ds[n].work, i) => CommitDue(ds, n, i)
    BY SentBelow
  <2> QED BY <2>1, <2>2, <2>3 DEF WorldFits
<1>6. SavedFits(ds)
  <2> SUFFICES ASSUME NEW m \in 1 .. n
               PROVE  /\ WorldFits(ds[m].saved, ds, m - 1)
                      /\ WorldFits(ds[m].before, ds, m - 1)
    BY DEF SavedFits
  <2>1. \A l \in 1 .. m - 1 : Kept(cs[l], ds[l])
    OBVIOUS
  <2>2. WorldFits(cs[m].saved, cs, m - 1) /\ WorldFits(cs[m].before, cs, m - 1)
    BY <1>3 DEF SavedFits
  <2>3. CASE m = n
    <3>1. WorldFits(ds[m].saved, cs, m - 1) /\ WorldFits(ds[m].before, cs, m - 1)
      BY <2>2, <2>3
    <3> QED BY <2>1, <3>1, FitsBelow
  <2>4. CASE m \in 1 .. n - 1
    <3>1. ds[m].saved = cs[m].saved /\ ds[m].before = cs[m].before
      BY <2>4 DEF Kept
    <3> QED BY <2>1, <2>2, <3>1, FitsBelow
  <2> QED BY <2>3, <2>4, <1>1
<1> QED BY <1>4, <1>5, <1>6 DEF StackFits

\* A fresh activation goes on top of one that waits for it.
LEMMA PushFits ==
  ASSUME NEW cs, NEW ds, NEW w, NEW n \in Nat, Len(cs) = n, Len(ds) = n + 1,
         LevelsOK(cs), WorldFits(w, cs, n), SavedFits(cs),
         n # 0 => Waits(cs[n]),
         \A l \in 1 .. n : ds[l] = cs[l],
         ds[n + 1].work = <<>>, ds[n + 1].before = w, ds[n + 1].saved = w,
         ds[n + 1].trail = NoTrail, 0 <= w.lists
  PROVE  StackFits(ds, w)
<1> DEFINE t == ds[n + 1]
           d == n + 1
<1>1. \A l \in 1 .. d : l \in 1 .. n \/ l = d
  OBVIOUS
<1>2. \A l \in 1 .. n : l \in 1 .. d /\ l # d /\ (l < n \/ (l = n /\ n # 0))
  OBVIOUS
<1>3. LevelOK(t)
  BY NoVisitYet, EmptyOrder DEF LevelOK, Cancels, NoTrail
<1>4. RunFits(t, w) /\ NoRun(t.work)
  <2>1. t.trail.visits = <<>> /\ t.trail.since = 0
    BY DEF NoTrail
  <2>2. Accounted(t.trail, w)
    BY <2>1, NothingVisited
  <2> QED BY <2>2, EmptyOrder DEF RunFits
<1>5. LevelsOK(ds)
  <2> SUFFICES ASSUME NEW l \in 1 .. d
               PROVE  /\ LevelOK(ds[l])
                      /\ l < d => Waits(ds[l])
                      /\ ds[l].trail.alone => \A m \in l + 1 .. d : NoRun(ds[m].work)
    BY DEF LevelsOK
  <2>1. CASE l = d
    BY <2>1, <1>3
  <2>2. CASE l \in 1 .. n
    <3>1. /\ LevelOK(cs[l]) /\ Waits(cs[l]) /\ ds[l] = cs[l]
          /\ cs[l].trail.alone => \A m \in l + 1 .. n : NoRun(cs[m].work)
      BY <2>2, <1>2 DEF LevelsOK
    <3>2. \A m \in l + 1 .. d : m = d \/ (m \in l + 1 .. n /\ ds[m] = cs[m])
      OBVIOUS
    <3> QED BY <3>1, <3>2, <1>4
  <2> QED BY <2>1, <2>2, <1>1
<1>6. \A u : \A k \in Nat : k <= n /\ WorldFits(u, cs, k) => WorldFits(u, ds, k)
  <2> SUFFICES ASSUME NEW u, NEW k \in Nat, k <= n, WorldFits(u, cs, k)
               PROVE  WorldFits(u, ds, k)
    OBVIOUS
  <2>1. \A l \in 1 .. k : Kept(cs[l], ds[l])
    BY KeptItself
  <2> QED BY <2>1, FitsBelow
<1>7. WorldFits(w, ds, n)
  BY <1>6
<1>8. WorldFits(w, ds, d)
  <2>1. \A i : CommitDue(ds, n, i) => CommitDue(ds, d, i)
    BY <1>2 DEF CommitDue
  <2>2. \A l \in 1 .. d : RunFits(ds[l], w)
    BY <1>1, <1>4, <1>7 DEF WorldFits
  <2> QED BY <1>7, <2>1, <2>2 DEF WorldFits
<1>9. SavedFits(ds)
  <2> SUFFICES ASSUME NEW m \in 1 .. d
               PROVE  /\ WorldFits(ds[m].saved, ds, m - 1)
                      /\ WorldFits(ds[m].before, ds, m - 1)
    BY DEF SavedFits
  <2>1. CASE m = d
    <3>1. m - 1 = n /\ ds[m].saved = w /\ ds[m].before = w
      BY <2>1
    <3> QED BY <3>1, <1>7
  <2>2. CASE m \in 1 .. n
    <3>1. WorldFits(cs[m].saved, cs, m - 1) /\ WorldFits(cs[m].before, cs, m - 1)
      BY <2>2 DEF SavedFits
    <3>2. m - 1 \in Nat /\ m - 1 <= n /\ ds[m] = cs[m]
      BY <2>2
    <3> QED BY <3>1, <3>2, <1>6
  <2> QED BY <2>1, <2>2, <1>1
<1>10. TopFits(t, w)
  BY DEF TopFits
<1> QED BY <1>5, <1>8, <1>9, <1>10 DEF StackFits

\* The activation on top returns or fails: the one below waits for it.
LEMMA PopFits ==
  ASSUME NEW cs, NEW ds, NEW w, NEW v, NEW n \in Nat \ {0}, Len(cs) = n,
         Len(ds) = n - 1, StackFits(cs, w), \A l \in 1 .. n - 1 : ds[l] = cs[l],
         WorldFits(v, cs, n - 1), ds # <<>> => Len(ds) # 0
  PROVE  StackFits(ds, v)
<1>1. \A l \in 1 .. n - 1 : l \in 1 .. n /\ l < n
  OBVIOUS
<1>2. LevelsOK(cs) /\ SavedFits(cs)
  BY DEF StackFits
<1>3. \A l \in 1 .. n - 1 :
        /\ LevelOK(ds[l]) /\ Waits(ds[l])
        /\ ds[l].trail.alone => \A m \in l + 1 .. n - 1 : NoRun(ds[m].work)
  <2> SUFFICES ASSUME NEW l \in 1 .. n - 1
               PROVE  /\ LevelOK(ds[l]) /\ Waits(ds[l])
                      /\ ds[l].trail.alone => \A m \in l + 1 .. n - 1 : NoRun(ds[m].work)
    OBVIOUS
  <2>1. /\ LevelOK(cs[l]) /\ Waits(cs[l])
        /\ cs[l].trail.alone => \A m \in l + 1 .. n : NoRun(cs[m].work)
    BY <1>1, <1>2 DEF LevelsOK
  <2>2. \A m \in l + 1 .. n - 1 : m \in l + 1 .. n /\ ds[m] = cs[m]
    OBVIOUS
  <2> QED BY <2>1, <2>2
<1>4. LevelsOK(ds)
  BY <1>3 DEF LevelsOK
<1>5. \A u : \A k \in Nat : k <= n - 1 /\ WorldFits(u, cs, k) => WorldFits(u, ds, k)
  <2> SUFFICES ASSUME NEW u, NEW k \in Nat, k <= n - 1, WorldFits(u, cs, k)
               PROVE  WorldFits(u, ds, k)
    OBVIOUS
  <2>1. \A l \in 1 .. k : Kept(cs[l], ds[l])
    BY KeptItself
  <2> QED BY <2>1, FitsBelow
<1>6. WorldFits(v, ds, n - 1)
  BY <1>5
<1>7. SavedFits(ds)
  <2> SUFFICES ASSUME NEW m \in 1 .. n - 1
               PROVE  /\ WorldFits(ds[m].saved, ds, m - 1)
                      /\ WorldFits(ds[m].before, ds, m - 1)
    BY DEF SavedFits
  <2>1. WorldFits(cs[m].saved, cs, m - 1) /\ WorldFits(cs[m].before, cs, m - 1)
    BY <1>1, <1>2 DEF SavedFits
  <2>2. m - 1 \in Nat /\ m - 1 <= n - 1 /\ ds[m] = cs[m]
    OBVIOUS
  <2> QED BY <2>1, <2>2, <1>5
<1>8. ASSUME ds # <<>> PROVE TopFits(ds[Len(ds)], v)
  <2>1. Len(ds) \in 1 .. n - 1
    BY <1>8
  <2>2. Waits(ds[Len(ds)])
    BY <2>1, <1>3
  <2> QED BY <2>2 DEF Waits, TopFits
<1> QED BY <1>4, <1>6, <1>7, <1>8 DEF StackFits

\* A handler of the contracts answers, and the activation on top turns to what
\* is left: the item at the head of its work was no message, so that only lists
\* to store stand behind it.
Answers(cs, w, response, ds, v, n) ==
  /\ Len(cs) = n /\ Len(ds) = n /\ StackFits(cs, w)
  /\ cs[n].work \in Seq(Items) /\ cs[n].work # <<>>
  /\ Head(cs[n].work).kind # "message"
  /\ response \in Seq(Items) /\ InOrder(response)
  /\ ds[n].work = response \o Tail(cs[n].work)
  /\ ds[n].saved = cs[n].saved /\ ds[n].before = cs[n].before
  /\ \A l \in 1 .. n - 1 : /\ Kept(cs[l], ds[l])
                           /\ RunFits(ds[l], v)
                           /\ ds[l].trail.alone => NoRun(response)
  /\ IsInjective(ds[n].trail.visits)
  /\ ds[n].trail.operation = "cancel" \/ CancelsIn(response) => Cancels(cs[n])
  /\ CommitsFit(response, ds[n].trail, v) /\ Accounted(ds[n].trail, v)
  /\ v.status = w.status
  /\ ListsKnown(v)
  /\ \A i \in DOMAIN v.nodes :
       v.nodes[i].stage = "sent" =>
         \/ /\ i \in DOMAIN w.nodes /\ w.nodes[i].stage = "sent"
            /\ Head(cs[n].work).kind = "process" => Head(cs[n].work).previous # i
         \/ Commits(response, i)
  /\ response # <<>> =>
       /\ Head(response).kind # "init"
       /\ Head(response).kind = "visit" =>
            RunBefore(ds[n].trail, Head(response), v)
  /\ response = <<>> /\ ds[n].trail.operation = "cancel" =>
       Indices(ds[n].trail) = DOMAIN v.nodes

LEMMA AnswerFits ==
  ASSUME NEW cs, NEW w, NEW response, NEW ds, NEW v, NEW n \in Nat \ {0},
         Answers(cs, w, response, ds, v, n)
  PROVE  StackFits(ds, v)
<1> USE DEF Answers
<1> DEFINE c == cs[n]
           t == ds[n]
           rest == Tail(cs[n].work)
<1>1. /\ LevelOK(c) /\ RunFits(c, w)
      /\ WorldFits(w, cs, n) /\ WorldFits(c.before, cs, n - 1)
      /\ WorldFits(c.saved, cs, n - 1)
  <2>1. n \in 1 .. n
    OBVIOUS
  <2>2. LevelsOK(cs) /\ WorldFits(w, cs, n) /\ SavedFits(cs)
    BY DEF StackFits
  <2> QED BY <2>1, <2>2 DEF LevelsOK, WorldFits, SavedFits
<1>2. /\ rest \in Seq(Items)
      /\ \A k \in 1 .. Len(rest) : rest[k].kind = "init"
      /\ \A k \in 2 .. Len(c.work) : c.work[k].kind = "init"
  BY <1>1, RestIsInit DEF LevelOK
<1>3. c.work[1] = Head(c.work) /\ Len(c.work) \in Nat \ {0}
  BY EmptySeq
<1> HIDE DEF rest
<1>4. /\ InOrder(response \o rest)
      /\ NoRun(response) => NoRun(response \o rest)
      /\ CancelsIn(response \o rest) => CancelsIn(response)
      /\ \A i : Commits(response, i) => Commits(response \o rest, i)
      /\ \A trail, u : CommitsFit(response, trail, u)
                         => CommitsFit(response \o rest, trail, u)
      /\ response # <<>> => /\ response \o rest # <<>>
                            /\ Head(response \o rest) = Head(response)
      /\ response = <<>> /\ response \o rest # <<>>
           => Head(response \o rest).kind = "init"
  BY <1>2, AnswerOrder
<1>5. t.work = response \o rest
  BY DEF rest
<1>6. LevelOK(t)
  BY <1>1, <1>4, <1>5 DEF LevelOK, Cancels
<1>7. RunFits(t, v)
  BY <1>1, <1>4, <1>5 DEF RunFits
<1>8. \A l \in 1 .. n - 1 : ds[l].trail.alone => NoRun(t.work)
  BY <1>4, <1>5
<1>9. ASSUME NEW i \in DOMAIN v.nodes, v.nodes[i].stage = "sent"
      PROVE  CommitDue(cs, n - 1, i) \/ Commits(t.work, i)
  <2>1. CASE Commits(response, i)
    BY <2>1, <1>4, <1>5
  <2>2. CASE /\ i \in DOMAIN w.nodes /\ w.nodes[i].stage = "sent"
             /\ Head(c.work).kind = "process" => Head(c.work).previous # i
    <3>1. CommitDue(cs, n, i)
      BY <2>2, <1>1 DEF WorldFits
    <3>2. ~Commits(c.work, i)
      <4> SUFFICES ASSUME NEW k \in 1 .. Len(c.work), c.work[k].kind = "process",
                          c.work[k].previous = i
                   PROVE  FALSE
        BY DEF Commits
      <4>1. k = 1
        BY <1>2, <1>3
      <4> QED BY <4>1, <2>2, <1>3
    <3> QED BY <3>1, <3>2, SentBelow
  <2> QED BY <2>1, <2>2, <1>9
<1>10. TopFits(t, v)
  BY <1>4, <1>5 DEF TopFits
<1>11. \A l \in 1 .. n - 1 : Kept(cs[l], ds[l]) /\ RunFits(ds[l], v)
  OBVIOUS
<1>12. /\ ds[n].saved = cs[n].saved /\ WorldFits(ds[n].before, cs, n - 1)
       /\ Len(cs) = n /\ Len(ds) = n /\ StackFits(cs, w) /\ ListsKnown(v)
  BY <1>1
<1> QED BY <1>1, <1>6, <1>7, <1>8, <1>9, <1>10, <1>11, <1>12, TurnFits

\* What is on top of the stack, as part of the invariant.
LEMMA RunInvFacts ==
  ASSUME RunInv, calls # <<>>
  PROVE  /\ IInv /\ StackOK(calls, nodes) /\ World \in Worlds /\ nodes \in Stores
         /\ calls \in Seq(Activations) /\ top \in Activations
         /\ Depth \in Nat \ {0} /\ Depth = Len(calls)
         /\ StackFits(calls, World)
         /\ LevelOK(top) /\ TopFits(top, World)
         /\ RunFits(top, World) /\ ListsKnown(World)
         /\ WorldFits(World, calls, Depth)
         /\ WorldFits(top.before, calls, Depth - 1)
         /\ WorldFits(top.saved, calls, Depth - 1)
         /\ \A l \in 1 .. Depth - 1 : /\ RunFits(calls[l], World)
                                      /\ calls[l].trail.alone => NoRun(top.work)
<1>1. IInv /\ StackOK(calls, nodes) /\ World \in Worlds /\ nodes \in Stores
  BY DEF RunInv, IInv, World, Worlds
<1>2. /\ calls \in Seq(Activations) /\ top \in Activations
      /\ Len(calls) \in Nat \ {0} /\ Depth = Len(calls)
  BY <1>1, StackTop, StrategyAssumption DEF Depth, top
<1>3. /\ LevelsOK(calls) /\ WorldFits(World, calls, Depth) /\ SavedFits(calls)
      /\ TopFits(top, World) /\ StackFits(calls, World)
  BY <1>2 DEF RunInv, StackFits, top
<1> DEFINE n == Depth
<1> HIDE DEF n
<1>4. n \in Nat \ {0} /\ n = Len(calls) /\ n = Depth
  BY <1>2 DEF n
<1>5. n \in 1 .. n /\ \A l \in 1 .. n - 1 : l \in 1 .. n /\ n \in l + 1 .. n
  BY <1>4
<1>6. \A l \in 1 .. n : RunFits(calls[l], World)
  BY <1>3, <1>4 DEF WorldFits
<1>7. \A l \in 1 .. n - 1 : calls[l].trail.alone => NoRun(calls[n].work)
  BY <1>3, <1>4, <1>5 DEF LevelsOK
<1>8. LevelOK(calls[n])
  BY <1>3, <1>4, <1>5 DEF LevelsOK
<1>9. WorldFits(calls[n].before, calls, n - 1) /\ WorldFits(calls[n].saved, calls, n - 1)
  BY <1>3, <1>4, <1>5 DEF SavedFits
<1>10. ListsKnown(World) /\ top = calls[n]
  BY <1>3, <1>4 DEF WorldFits, top
<1> QED BY <1>1, <1>2, <1>3, <1>4, <1>5, <1>6, <1>7, <1>8, <1>9, <1>10

\* The stack with another activation on top.
LEMMA NewTop ==
  ASSUME calls \in Seq(Activations), calls # <<>>, NEW t \in Activations,
         NEW ds, ds = [calls EXCEPT ![Depth] = t]
  PROVE  /\ ds \in Seq(Activations) /\ Len(ds) = Depth /\ ds[Depth] = t
         /\ \A l \in 1 .. Depth - 1 : ds[l] = calls[l] /\ Kept(calls[l], ds[l])
<1>1. Len(calls) \in Nat \ {0} /\ Len(calls) \in 1 .. Len(calls) /\ Depth = Len(calls)
  BY EmptySeq DEF Depth
<1>2. /\ ds \in Seq(Activations) /\ Len(ds) = Len(calls)
      /\ \A j \in 1 .. Len(calls) : ds[j] = IF j = Len(calls) THEN t ELSE calls[j]
  BY <1>1, ExceptSeq
<1>3. \A l \in 1 .. Depth - 1 : ds[l] = calls[l]
  BY <1>1, <1>2
<1> QED BY <1>1, <1>2, <1>3, KeptItself

-----------------------------------------------------------------------------
(* The steps keep runs on their way *)

LEMMA WorldFields ==
  /\ World.nodes = nodes /\ World.path = path
  /\ World.status = status /\ World.lists = lists
  /\ World'.nodes = nodes' /\ World'.path = path'
  /\ World'.status = status' /\ World'.lists = lists'
BY DEF World

LEMMA BeginFits ==
  ASSUME RunInv, NEW a \in Accounts, Begin(a)
  PROVE  StackFits(calls', World')
<1> DEFINE t == Activation(a)
<1>1. calls = <<>> /\ Len(calls) = 0 /\ World \in Worlds
  BY EmptySeq DEF Begin, RunInv, IInv
<1>2. LevelsOK(calls) /\ WorldFits(World, calls, 0) /\ SavedFits(calls)
  BY <1>1 DEF RunInv, StackFits
<1>3. /\ t.work = <<>> /\ t.before = World /\ t.saved = World
      /\ t.trail = NoTrail /\ 0 <= World.lists
  BY <1>1, StrategyAssumption DEF Activation, Worlds
<1>4. calls' = <<t>> /\ World' = World
  BY DEF Begin, World
<1> HIDE DEF t
<1> DEFINE n == Len(calls)
<1>5. /\ n \in Nat /\ ~(n # 0) /\ Len(calls') = n + 1 /\ calls'[n + 1] = t
      /\ \A l \in 1 .. n : calls'[l] = calls[l]
  BY <1>1, <1>4
<1>6. LevelsOK(calls) /\ WorldFits(World, calls, n) /\ SavedFits(calls)
  BY <1>1, <1>2
<1> HIDE DEF n
<1>7. ASSUME NEW ds, Len(ds) = n + 1, ds[n + 1] = t, \A l \in 1 .. n : ds[l] = calls[l]
      PROVE  StackFits(ds, World)
  <2>1. n = Len(calls)
    BY DEF n
  <2> QED BY <1>3, <1>5, <1>6, <1>7, <2>1, PushFits
<1> QED BY <1>4, <1>5, <1>7

\* A call to the manager finds what the activation on top has left the world in.
LEMMA CallFits ==
  ASSUME RunInv, NEW work \in Seq(Items), work # <<>>, InOrder(work), NoRun(work),
         Calls(work), status # "none" => status' # "none",
         CancelsIn(work) => status # "none",
         Head(work).kind = "init" => status = "none"
  PROVE  StackFits(calls', World')
<1> DEFINE t == [top EXCEPT !.work = work, !.before = World]
           n == Depth
<1>1. calls # <<>> /\ top.work = <<>>
  BY DEF Calls, Running
<1>2. /\ IInv /\ StackOK(calls, nodes) /\ World \in Worlds /\ nodes \in Stores
      /\ calls \in Seq(Activations) /\ top \in Activations
      /\ n \in Nat \ {0} /\ n = Len(calls)
      /\ StackFits(calls, World)
      /\ LevelOK(top) /\ RunFits(top, World) /\ ListsKnown(World)
      /\ WorldFits(World, calls, n) /\ WorldFits(top.saved, calls, n - 1)
      /\ \A l \in 1 .. n - 1 : RunFits(calls[l], World)
  BY <1>1, RunInvFacts
<1>3. /\ t \in Activations /\ t.work = work /\ t.before = World
      /\ t.saved = top.saved /\ t.trail = top.trail
  BY <1>2 DEF Activations
<1>4. calls' = [calls EXCEPT ![Depth] = t]
  BY <1>1, <1>2 DEF Calls, top
<1> HIDE DEF t, n
<1>5. /\ Len(calls') = n /\ calls'[n] = t
      /\ \A l \in 1 .. n - 1 : calls'[l] = calls[l] /\ Kept(calls[l], calls'[l])
  BY <1>1, <1>2, <1>3, <1>4, NewTop DEF n
<1>6. top = calls[n]
  BY DEF n, top
<1>7. /\ World'.nodes = World.nodes /\ World'.path = World.path
      /\ World'.lists = World.lists
      /\ World.status # "none" => World'.status # "none"
      /\ World.status = status /\ World.nodes = nodes
  BY WorldFields DEF Calls
<1>8. WorldFits(World, calls, n - 1)
  BY <1>1, <1>2, <1>6, IdleTop
<1>9. LevelOK(t)
  BY <1>2, <1>3, <1>7 DEF LevelOK, Cancels, RunFits
<1>10. RunFits(t, World')
  <2>1. CommitsFit(t.work, t.trail, World')
    BY <1>3 DEF CommitsFit, NoRun, IsRun
  <2>2. Accounted(t.trail, World')
    BY <1>2, <1>3, <1>7 DEF RunFits, Accounted
  <2> QED BY <2>1, <2>2, <1>3, <1>7 DEF RunFits
<1>11. \A l \in 1 .. n - 1 : RunFits(calls'[l], World')
  <2> SUFFICES ASSUME NEW l \in 1 .. n - 1 PROVE RunFits(calls[l], World')
    BY <1>5
  <2>1. SameEdges(World.nodes, World'.nodes)
    BY <1>7, SameWorld
  <2>2. RunFits(calls[l], World) /\ Kept(calls[l], calls[l])
    BY <1>2, KeptItself
  <2> QED BY <2>1, <2>2, <1>7, RunFitsKept
<1>12. ListsKnown(World')
  BY <1>2, <1>7 DEF ListsKnown
<1>13. \A i \in DOMAIN World'.nodes :
         World'.nodes[i].stage = "sent" =>
           CommitDue(calls, n - 1, i) \/ Commits(t.work, i)
  BY <1>7, <1>8 DEF WorldFits
<1>14. TopFits(t, World')
  <2>1. Head(work).kind # "visit"
    <3>1. Len(work) \in Nat \ {0} /\ Head(work) = work[1]
      BY EmptySeq
    <3> QED BY <3>1 DEF NoRun, IsRun
  <2>2. t.trail.operation = "cancel" => status # "none"
    BY <1>2, <1>3, <1>7 DEF LevelOK, Cancels, RunFits
  <2> QED BY <1>3, <2>1, <2>2 DEF TopFits
<1>15. \A l \in 1 .. n - 1 : calls'[l].trail.alone => NoRun(t.work)
  BY <1>3
<1>16. ASSUME NEW ds, NEW v, Len(ds) = n, ds[n] = t,
              \A l \in 1 .. n - 1 : Kept(calls[l], ds[l]),
              \A l \in 1 .. n - 1 : ds[l].trail.alone => NoRun(t.work),
              \A l \in 1 .. n - 1 : RunFits(ds[l], v),
              RunFits(t, v), ListsKnown(v),
              \A i \in DOMAIN v.nodes :
                v.nodes[i].stage = "sent" =>
                  CommitDue(calls, n - 1, i) \/ Commits(t.work, i),
              TopFits(t, v)
       PROVE  StackFits(ds, v)
  <2>1. ds[n].saved = calls[n].saved /\ LevelOK(ds[n])
    BY <1>3, <1>6, <1>9, <1>16
  <2>2. WorldFits(ds[n].before, calls, n - 1)
    BY <1>3, <1>8, <1>16
  <2> QED BY <1>2, <1>16, <2>1, <2>2, TurnFits
<1> QED BY <1>5, <1>10, <1>11, <1>12, <1>13, <1>14, <1>15, <1>16

\* A message is delivered: its own call waits, or goes on to the next.
LEMMA MessageFits ==
  ASSUME RunInv, Working("message"),
         NEW ds, ds = [calls EXCEPT ![Depth].work = Tail(@)]
  PROVE  /\ StackFits(ds, World) /\ Len(ds) = Depth /\ Waits(ds[Depth])
         /\ ds \in Seq(Activations)
<1> DEFINE t == [top EXCEPT !.work = Tail(top.work)]
           n == Depth
<1>1. /\ calls # <<>> /\ top.work # <<>> /\ Head(top.work).kind = "message"
  BY DEF Working
<1>2. /\ StackOK(calls, nodes)
      /\ calls \in Seq(Activations) /\ top \in Activations
      /\ n \in Nat \ {0} /\ n = Len(calls)
      /\ StackFits(calls, World)
      /\ LevelOK(top) /\ RunFits(top, World) /\ ListsKnown(World)
      /\ WorldFits(World, calls, n) /\ WorldFits(top.before, calls, n - 1)
      /\ \A l \in 1 .. n - 1 : /\ RunFits(calls[l], World)
                               /\ calls[l].trail.alone => NoRun(top.work)
  BY <1>1, RunInvFacts
<1>3. top.work \in Seq(Items) /\ Tail(top.work) \in Seq(Items)
  BY <1>1, <1>2, HeadTailProperties DEF Activations
<1>4. /\ InOrder(Tail(top.work))
      /\ Tail(top.work) # <<>> /\ Head(Tail(top.work)).kind \in {"message", "process"}
      /\ NoRun(top.work) => NoRun(Tail(top.work))
      /\ CancelsIn(Tail(top.work)) => CancelsIn(top.work)
      /\ \A i : Commits(top.work, i) => Commits(Tail(top.work), i)
      /\ \A trail, w : CommitsFit(top.work, trail, w) => CommitsFit(Tail(top.work), trail, w)
  BY <1>1, <1>2, <1>3, AfterMessageOrder DEF LevelOK
<1>5. /\ t \in Activations /\ t.work = Tail(top.work) /\ t.before = top.before
      /\ t.saved = top.saved /\ t.trail = top.trail
  BY <1>2, <1>3 DEF Activations
<1>6. ds = [calls EXCEPT ![Depth] = t]
  BY DEF top
<1> HIDE DEF t, n
<1>7. /\ ds \in Seq(Activations) /\ Len(ds) = n /\ ds[n] = t
      /\ \A l \in 1 .. n - 1 : ds[l] = calls[l] /\ Kept(calls[l], ds[l])
  BY <1>1, <1>2, <1>5, <1>6, NewTop DEF n
<1>8. top = calls[n]
  BY DEF n, top
<1>9. LevelOK(t) /\ RunFits(t, World)
  BY <1>2, <1>4, <1>5 DEF LevelOK, Cancels, RunFits
<1>10. TopFits(t, World) /\ Waits(t)
  BY <1>4, <1>5 DEF TopFits, Waits
<1>11. \A i \in DOMAIN World.nodes :
         World.nodes[i].stage = "sent" =>
           CommitDue(calls, n - 1, i) \/ Commits(t.work, i)
  <2> SUFFICES ASSUME NEW i \in DOMAIN World.nodes, World.nodes[i].stage = "sent"
               PROVE  CommitDue(calls, n - 1, i) \/ Commits(t.work, i)
    OBVIOUS
  <2>1. CommitDue(calls, n, i)
    BY <1>2 DEF WorldFits
  <2>2. CommitDue(calls, n - 1, i) \/ Commits(calls[n].work, i)
    BY <1>2, <2>1, SentBelow
  <2> QED BY <2>2, <1>4, <1>5, <1>8
<1>12. \A l \in 1 .. n - 1 : ds[l].trail.alone => NoRun(ds[n].work)
  BY <1>2, <1>4, <1>5, <1>7
<1>13. \A l \in 1 .. n - 1 : RunFits(ds[l], World)
  BY <1>2, <1>7
<1>14. /\ ds[n].saved = calls[n].saved /\ LevelOK(ds[n]) /\ RunFits(ds[n], World)
       /\ WorldFits(ds[n].before, calls, n - 1) /\ TopFits(ds[n], World)
       /\ \A i \in DOMAIN World.nodes :
            World.nodes[i].stage = "sent" =>
              CommitDue(calls, n - 1, i) \/ Commits(ds[n].work, i)
  BY <1>2, <1>5, <1>7, <1>8, <1>9, <1>10, <1>11
<1>15. StackFits(ds, World)
  BY <1>2, <1>7, <1>12, <1>13, <1>14, TurnFits
<1> QED BY <1>7, <1>10, <1>15 DEF n

LEMMA DeliverMessageFits ==
  ASSUME RunInv, NEW a \in Accounts, DeliverMessage(a)
  PROVE  StackFits(calls', World')
<1> DEFINE cs == [calls EXCEPT ![Depth].work = Tail(@)]
           t == Activation(a)
           n == Depth
<1>1. Working("message") /\ World' = World /\ calls' = Append(cs, t)
  BY DEF DeliverMessage, World
<1>2. calls # <<>>
  BY <1>1 DEF Working
<1>3. n \in Nat \ {0} /\ World \in Worlds
  BY <1>2, RunInvFacts
<1>4. t \in Activations
  BY <1>3, FreshActivation
<1>5. /\ t.work = <<>> /\ t.before = World /\ t.saved = World
      /\ t.trail = NoTrail /\ 0 <= World.lists
  BY <1>3, StrategyAssumption DEF Activation, Worlds
<1>6. StackFits(cs, World) /\ Len(cs) = n /\ Waits(cs[n]) /\ cs \in Seq(Activations)
  BY <1>1, MessageFits
<1> HIDE DEF t, n, cs
<1>7. /\ Len(calls') = n + 1 /\ calls'[n + 1] = t
      /\ \A l \in 1 .. n : calls'[l] = cs[l]
  BY <1>1, <1>4, <1>6, AppendProperties
<1>8. LevelsOK(cs) /\ WorldFits(World, cs, n) /\ SavedFits(cs)
  BY <1>6 DEF StackFits
<1>9. ASSUME NEW ds, Len(ds) = n + 1, ds[n + 1] = t, \A l \in 1 .. n : ds[l] = cs[l]
      PROVE  StackFits(ds, World)
  BY <1>3, <1>5, <1>6, <1>8, <1>9, PushFits
<1> QED BY <1>1, <1>7, <1>9

LEMMA AnswerMessageFits ==
  ASSUME RunInv, AnswerMessage
  PROVE  StackFits(calls', World')
<1>1. Working("message") /\ World' = World
  BY DEF AnswerMessage, World
<1> QED BY <1>1, MessageFits DEF AnswerMessage

\* What a failing handler brings back is what the call began with.
LEMMA RestoredWorld ==
  ASSUME NEW w \in Worlds, Restore(w)
  PROVE  World' = w
BY DEF Restore, World, Worlds

LEMMA CallFailsFits ==
  ASSUME RunInv, CallFails
  PROVE  StackFits(calls', World')
<1> DEFINE t == [top EXCEPT !.work = <<>>, !.trail = NoTrail]
           n == Depth
           v == top.before
<1>1. calls # <<>>
  BY DEF CallFails, Working
<1>2. /\ calls \in Seq(Activations) /\ top \in Activations
      /\ n \in Nat \ {0} /\ n = Len(calls)
      /\ StackFits(calls, World)
      /\ LevelOK(top) /\ WorldFits(top.before, calls, n - 1)
  BY <1>1, RunInvFacts
<1>3. /\ t \in Activations /\ t.work = <<>> /\ t.before = v
      /\ t.saved = top.saved /\ t.trail = NoTrail /\ 0 <= v.lists
  <2>1. NoTrail \in Trails
    BY EmptySeq, StrategyAssumption DEF NoTrail, Trails
  <2>2. v \in Worlds
    BY <1>2 DEF Activations
  <2>3. <<>> \in Seq(Items)
    BY EmptySeq
  <2>4. 0 <= v.lists
    BY <2>2, StrategyAssumption DEF Worlds
  <2> HIDE DEF v
  <2>5. /\ t \in Activations /\ t.work = <<>> /\ t.before = top.before
        /\ t.saved = top.saved /\ t.trail = NoTrail
    BY <1>2, <2>1, <2>3 DEF Activations
  <2> QED BY <2>4, <2>5 DEF v
<1>4. calls' = [calls EXCEPT ![Depth] = t]
  BY DEF CallFails, top
<1>5. World' = v
  BY <1>2, RestoredWorld DEF CallFails, Activations
<1> HIDE DEF t, n, v
<1>6. /\ Len(calls') = n /\ calls'[n] = t
      /\ \A l \in 1 .. n - 1 : calls'[l] = calls[l] /\ Kept(calls[l], calls'[l])
  BY <1>1, <1>2, <1>3, <1>4, NewTop DEF n
<1>7. top = calls[n] /\ v = top.before
  BY DEF n, top, v
<1>8. LevelOK(t) /\ RunFits(t, v) /\ TopFits(t, v) /\ NoRun(t.work)
  <2>1. /\ t.trail.visits = <<>> /\ t.trail.since = 0
        /\ t.trail.operation = "none"
    BY <1>3 DEF NoTrail
  <2>2. Accounted(t.trail, v) /\ IsInjective(t.trail.visits)
    BY <1>3, <2>1, NothingVisited, NoVisitYet
  <2> QED BY <1>2, <1>3, <1>7, <2>1, <2>2, EmptyOrder
          DEF LevelOK, Cancels, RunFits, TopFits
<1>9. ASSUME NEW ds, Len(ds) = n, ds[n] = t,
             \A l \in 1 .. n - 1 : ds[l] = calls[l] /\ Kept(calls[l], ds[l])
      PROVE  StackFits(ds, v)
  <2>1. /\ \A l \in 1 .. n - 1 : RunFits(ds[l], v)
        /\ ListsKnown(v)
        /\ \A i \in DOMAIN v.nodes :
             v.nodes[i].stage = "sent" =>
               CommitDue(calls, n - 1, i) \/ Commits(ds[n].work, i)
    BY <1>2, <1>7, <1>9 DEF WorldFits
  <2>2. /\ ds[n].saved = calls[n].saved /\ LevelOK(ds[n]) /\ RunFits(ds[n], v)
        /\ TopFits(ds[n], v) /\ WorldFits(ds[n].before, calls, n - 1)
        /\ \A l \in 1 .. n - 1 : ds[l].trail.alone => NoRun(ds[n].work)
    BY <1>2, <1>3, <1>7, <1>8, <1>9
  <2> QED BY <1>2, <1>9, <2>1, <2>2, TurnFits
<1> QED BY <1>5, <1>6, <1>9

\* The stack without the activation on top.
LEMMA NewFront ==
  ASSUME calls \in Seq(Activations), calls # <<>>
  PROVE  /\ Len(Front(calls)) = Depth - 1
         /\ \A l \in 1 .. Depth - 1 : Front(calls)[l] = calls[l]
         /\ Front(calls) # <<>> => Len(Front(calls)) # 0
<1> DEFINE n == Depth
           ds == Front(calls)
<1>1. n \in Nat \ {0} /\ n = Len(calls)
  BY EmptySeq DEF Depth
<1>2. \A i \in 1 .. n - 1 : calls[i] \in Activations
  BY <1>1, ElementOfSeq
<1>3. ds = SubSeq(calls, 1, n - 1) /\ 1 \in Int /\ n - 1 \in Int
  BY <1>1 DEF Front
<1>4. /\ SubSeq(calls, 1, n - 1) \in Seq(Activations)
      /\ Len(SubSeq(calls, 1, n - 1)) = IF 1 <= n - 1 THEN n - 1 - 1 + 1 ELSE 0
      /\ \A i \in 1 .. n - 1 - 1 + 1 : SubSeq(calls, 1, n - 1)[i] = calls[1 + i - 1]
  BY <1>2, <1>3, SubSeqProperties
<1> HIDE DEF ds
<1>5. /\ ds \in Seq(Activations)
      /\ Len(ds) = IF 1 <= n - 1 THEN n - 1 - 1 + 1 ELSE 0
      /\ \A i \in 1 .. n - 1 - 1 + 1 : ds[i] = calls[1 + i - 1]
  BY <1>3, <1>4, Zenon
<1> HIDE DEF n
<1>6. Len(ds) = n - 1 /\ n - 1 - 1 + 1 = n - 1
  BY <1>1, <1>5
<1>7. \A i \in 1 .. n - 1 : 1 + i - 1 = i
  BY <1>1
<1>8. \A i \in 1 .. n - 1 : ds[i] = calls[i]
  BY <1>5, <1>6, <1>7
<1>9. ds # <<>> => Len(ds) # 0
  BY <1>5, EmptySeq
<1> QED BY <1>6, <1>8, <1>9 DEF n, ds

LEMMA ReturnFits ==
  ASSUME RunInv, Return
  PROVE  StackFits(calls', World')
<1> DEFINE n == Depth
<1>1. calls # <<>> /\ top.work = <<>> /\ calls' = Front(calls) /\ World' = World
  BY DEF Return, Running, World
<1>2. /\ calls \in Seq(Activations) /\ n \in Nat \ {0} /\ n = Len(calls)
      /\ StackFits(calls, World) /\ WorldFits(World, calls, n)
  BY <1>1, RunInvFacts
<1>3. WorldFits(World, calls, n - 1)
  <2>1. calls[n].work = <<>>
    BY <1>1 DEF top
  <2> HIDE DEF n
  <2> QED BY <1>2, <2>1, IdleTop
<1>4. /\ Len(calls') = n - 1 /\ \A l \in 1 .. n - 1 : calls'[l] = calls[l]
      /\ calls' # <<>> => Len(calls') # 0
  BY <1>1, <1>2, NewFront
<1> HIDE DEF n
<1>5. ASSUME NEW ds, Len(ds) = n - 1, \A l \in 1 .. n - 1 : ds[l] = calls[l],
             ds # <<>> => Len(ds) # 0
      PROVE  StackFits(ds, World)
  BY <1>2, <1>3, <1>5, PopFits
<1> QED BY <1>1, <1>4, <1>5

LEMMA FailFits ==
  ASSUME RunInv, Fail
  PROVE  StackFits(calls', World')
<1> DEFINE n == Depth
           v == top.saved
<1>1. calls # <<>> /\ calls' = Front(calls)
  BY DEF Fail, Running
<1>2. /\ calls \in Seq(Activations) /\ n \in Nat \ {0} /\ n = Len(calls)
      /\ top \in Activations
      /\ StackFits(calls, World) /\ WorldFits(v, calls, n - 1)
  BY <1>1, RunInvFacts
<1>3. World' = v
  BY <1>2, RestoredWorld DEF Fail, Activations
<1>4. /\ Len(calls') = n - 1 /\ \A l \in 1 .. n - 1 : calls'[l] = calls[l]
      /\ calls' # <<>> => Len(calls') # 0
  BY <1>1, <1>2, NewFront
<1> HIDE DEF n, v
<1>5. ASSUME NEW ds, Len(ds) = n - 1, \A l \in 1 .. n - 1 : ds[l] = calls[l],
             ds # <<>> => Len(ds) # 0
      PROVE  StackFits(ds, v)
  BY <1>2, <1>5, PopFits
<1> QED BY <1>3, <1>4, <1>5

\* The answers of the handlers: a call to process, a visit, or nothing.
LEMMA ProcessAnswer ==
  ASSUME NEW p \in Items, p.kind = "process"
  PROVE  /\ <<p>> \in Seq(Items) /\ <<p>> # <<>> /\ Head(<<p>>) = p
         /\ InOrder(<<p>>)
         /\ CancelsIn(<<p>>) <=> p.operation = "cancel"
         /\ \A i : Commits(<<p>>, i) <=> p.previous = i
         /\ \A trail, w :
              (p.previous # NONE => RunAfter(trail, p.operation, p.previous, w))
                => CommitsFit(<<p>>, trail, w)
         /\ p.previous = NONE => NoRun(<<p>>)
<1> DEFINE r == <<p>>
<1>1. /\ r \in Seq(Items) /\ r # <<>> /\ Head(r) = p /\ Len(r) = 1
      /\ \A k \in 1 .. Len(r) : k = 1 /\ r[k] = p
      /\ \A k \in 1 .. Len(r) : \A j \in k + 1 .. Len(r) : FALSE
  OBVIOUS
<1>2. 1 \in 1 .. Len(r) /\ r[1] = p
  OBVIOUS
<1> HIDE DEF r
<1>3. InOrder(r)
  BY <1>1 DEF InOrder
<1>4. CancelsIn(r) <=> p.operation = "cancel"
  BY <1>1, <1>2 DEF CancelsIn
<1>5. \A i : Commits(r, i) <=> p.previous = i
  BY <1>1, <1>2 DEF Commits
<1>6. \A trail, w : (p.previous # NONE => RunAfter(trail, p.operation, p.previous, w))
                      => CommitsFit(r, trail, w)
  BY <1>1 DEF CommitsFit
<1>7. p.previous = NONE => NoRun(r)
  BY <1>1 DEF NoRun, IsRun
<1> QED BY <1>1, <1>3, <1>4, <1>5, <1>6, <1>7 DEF r

\* No commit is in an answer that visits a node, or ends the run.
VisitFits(response, operation, next, so_far) ==
  /\ response \in Seq(Items)
  /\ InOrder(response) /\ ~CancelsIn(response)
  /\ \A trail, w : CommitsFit(response, trail, w)
  /\ response # <<>> =>
       /\ Head(response).kind = "visit" /\ Head(response).operation = operation
       /\ Head(response).path = so_far
       /\ next # <<>> /\ Head(response).node = next[1]
  /\ response = <<>> => next = <<>>

LEMMA VisitAnswer ==
  ASSUME NEW operation \in Operations, NEW so_far \in Seq(Nat), NEW next,
         NEW store \in Stores,
         next = <<>> \/ \E i \in DOMAIN store : next = <<store[i]>>
  PROVE  VisitFits(VisitNext(operation, next, so_far), operation, next, so_far)
<1> DEFINE r == VisitNext(operation, next, so_far)
<1>1. CASE next = <<>>
  <2>1. r = <<>>
    BY <1>1 DEF VisitNext
  <2>2. <<>> \in Seq(Items)
    BY EmptySeq
  <2> QED BY <1>1, <2>1, <2>2, EmptyOrder DEF VisitFits
<1>2. ASSUME NEW i \in DOMAIN store, next = <<store[i]>>
      PROVE  VisitFits(r, operation, next, so_far)
  <2> DEFINE visit == Visit(operation, store[i], so_far)
  <2>1. r = <<visit>>
    BY <1>2 DEF VisitNext
  <2>2. /\ visit \in Items /\ visit.kind = "visit" /\ visit.operation = operation
        /\ visit.path = so_far /\ visit.node = store[i]
    <3>1. store[i] \in Nodes
      BY StoreFacts
    <3> QED BY <3>1 DEF Visit, Items
  <2> HIDE DEF visit, r
  <2>3. /\ r \in Seq(Items) /\ r # <<>> /\ Head(r) = visit
        /\ \A k \in 1 .. Len(r) : r[k] = visit
        /\ \A k \in 1 .. Len(r) : \A j \in k + 1 .. Len(r) : FALSE
    BY <2>1, <2>2
  <2>4. InOrder(r) /\ ~CancelsIn(r) /\ \A trail, w : CommitsFit(r, trail, w)
    BY <2>2, <2>3 DEF InOrder, CancelsIn, CommitsFit
  <2> QED BY <1>2, <2>2, <2>3, <2>4 DEF VisitFits
<1> QED BY <1>1, <1>2

\* A run below the top finds its node again when the list is replaced, and what
\* can be reached from there is of the new list or was there before.
LEMMA RunFitsReplaced ==
  ASSUME NEW c \in Activations, NEW w, NEW v, NEW g \in Graphs, StaysInside(g),
         nodes \in Stores, lists \in Nat, w.nodes = nodes, w.lists = lists,
         v.nodes = Replaced(g), v.lists = lists + 1, v.path = w.path,
         v.status = w.status, RunFits(c, w)
  PROVE  RunFits(c, v)
<1> DEFINE new == Replaced(g)
           visits == c.trail.visits
<1>1. c.trail \in Trails
  BY DEF Activations
<1>2. visits \in Seq((1 .. MaxLists) \X Nat)
  BY <1>1 DEF Trails
<1> HIDE DEF visits
<1>3. /\ DOMAIN visits = 1 .. Len(visits)
      /\ \A k \in DOMAIN visits : visits[k][1] \in Int
      /\ visits # <<>> => Last(visits) = visits[Len(visits)] /\ Len(visits) \in DOMAIN visits
  <2>1. DOMAIN visits = 1 .. Len(visits) /\ Len(visits) \in Nat
    BY <1>2, LenProperties
  <2>2. \A k \in DOMAIN visits : visits[k] \in (1 .. MaxLists) \X Nat
    BY <1>2, <2>1, ElementOfSeq
  <2>3. visits # <<>> => Len(visits) \in DOMAIN visits
    BY <1>2, <2>1, EmptySeq
  <2> QED BY <2>1, <2>2, <2>3, StrategyAssumption DEF Last
<1>4. DOMAIN new = DOMAIN nodes \cup DOMAIN g
  BY DEF Replaced
<1>5. \A k \in DOMAIN g : new[k].list = lists + 1
  <2> SUFFICES ASSUME NEW k \in DOMAIN g PROVE new[k].list = lists + 1
    OBVIOUS
  <2>1. new[k] = FreshNode(g, k)
    BY DEF Replaced
  <2> HIDE DEF new
  <2> QED BY <2>1 DEF FreshNode
<1>6. \A k \in DOMAIN nodes \ DOMAIN g : new[k] = nodes[k]
  BY DEF Replaced
<1>7. v.nodes = new
  OBVIOUS
<1> HIDE DEF new
<1>8. ASSUME NEW operation, NEW i, RunAfter(c.trail, operation, i, w)
      PROVE  RunAfter(c.trail, operation, i, v)
  <2>1. /\ c.trail.operation = operation /\ i \in DOMAIN nodes
        /\ visits # <<>> /\ Last(visits)[2] = i
        /\ Last(visits)[1] <= nodes[i].list
        /\ \A k \in DOMAIN visits : visits[k][1] <= lists
        /\ c.trail.alone => w.path = Steps(visits)
        /\ operation = "cancel" => Indices(c.trail) = 0 .. i
        /\ operation = "execute" =>
             \A j \in DOMAIN nodes \ {i} :
               Reaches(nodes, i, j) => Unvisited(nodes, visits, j)
    BY <1>8 DEF RunAfter, visits
  <2>2. \A k \in DOMAIN visits : visits[k][1] <= lists + 1 /\ visits[k][1] # lists + 1
    <3> SUFFICES ASSUME NEW k \in DOMAIN visits
                 PROVE  visits[k][1] <= lists + 1 /\ visits[k][1] # lists + 1
      OBVIOUS
    <3>1. visits[k][1] <= lists /\ visits[k][1] \in Int
      BY <1>3, <2>1
    <3> QED BY <3>1
  <2>3. Last(visits)[1] <= new[i].list
    <3>1. CASE i \in DOMAIN g
      BY <3>1, <1>3, <1>5, <2>1, <2>2
    <3>2. CASE i \notin DOMAIN g
      BY <3>2, <1>6, <2>1
    <3> QED BY <3>1, <3>2
  <2>4. ASSUME operation = "execute", NEW j \in DOMAIN new \ {i}, Reaches(new, i, j)
        PROVE  Unvisited(new, visits, j)
    <3>1. CASE j \in DOMAIN g
      BY <3>1, <1>5, <2>2 DEF Unvisited
    <3>2. CASE j \notin DOMAIN g
      <4>1. j \in DOMAIN nodes \ DOMAIN g /\ j # i
        BY <3>2, <1>4
      <4>2. Reaches(nodes, i, j)
        BY <2>1, <2>4, <4>1, ReachesReplaced DEF new
      <4>3. Unvisited(nodes, visits, j)
        BY <2>1, <2>4, <4>1, <4>2
      <4> QED BY <4>1, <4>3, <1>6 DEF Unvisited
    <3> QED BY <3>1, <3>2
  <2> QED BY <1>4, <1>7, <2>1, <2>2, <2>3, <2>4 DEF RunAfter, visits
<1>9. Accounted(c.trail, v)
  <2>1. c.trail.since <= lists /\ c.trail.since \in Int
    BY <1>1, StrategyAssumption DEF RunFits, Accounted, Trails
  <2>2. c.trail.since <= v.lists /\ lists + 1 > c.trail.since
    BY <2>1
  <2>3. ASSUME NEW k \in DOMAIN visits
        PROVE  /\ visits[k][2] \in DOMAIN new
               /\ visits[k][1] = new[visits[k][2]].list
                    \/ new[visits[k][2]].list > c.trail.since
    <3>1. /\ visits[k][2] \in DOMAIN nodes
          /\ visits[k][1] = nodes[visits[k][2]].list
               \/ nodes[visits[k][2]].list > c.trail.since
      BY <2>3 DEF RunFits, Accounted, visits
    <3> QED BY <3>1, <2>2, <1>4, <1>5, <1>6
  <2> QED BY <2>2, <2>3, <1>7 DEF Accounted, visits
<1> QED BY <1>8, <1>9 DEF RunFits, CommitsFit

LEMMA StoreListFits ==
  ASSUME RunInv, StoreList
  PROVE  StackFits(calls', World')
<1> DEFINE n == Depth
           g == item.graph
           p == Process("execute", NONE)
           response == <<p>>
           t == [top EXCEPT !.work = AnswersWith(response)]
<1>1. Working("init") /\ calls # <<>> /\ top.work # <<>> /\ Head(top.work) = item
      /\ item.kind = "init"
  BY DEF StoreList, Working, item
<1>2. /\ StackOK(calls, nodes) /\ World \in Worlds /\ nodes \in Stores
      /\ calls \in Seq(Activations) /\ top \in Activations
      /\ n \in Nat \ {0} /\ n = Len(calls)
      /\ StackFits(calls, World)
      /\ LevelOK(top) /\ RunFits(top, World) /\ ListsKnown(World)
      /\ \A l \in 1 .. n - 1 : /\ RunFits(calls[l], World)
                               /\ calls[l].trail.alone => NoRun(top.work)
  BY <1>1, RunInvFacts
<1>3. g \in Graphs /\ StaysInside(g) /\ top.work \in Seq(Items)
  BY <1>1, <1>2, ItemType DEF Items, StoreList
<1>4. p \in Items /\ p.kind = "process" /\ p.operation = "execute" /\ p.previous = NONE
  BY DEF Process, Items, Operations
<1> HIDE DEF g, p
<1>5. /\ response \in Seq(Items) /\ response # <<>> /\ Head(response) = p
      /\ InOrder(response) /\ ~CancelsIn(response) /\ NoRun(response)
      /\ \A trail, w : CommitsFit(response, trail, w)
  BY <1>4, ProcessAnswer
<1> HIDE DEF response
<1>6. /\ AnswersWith(response) = response \o Tail(top.work)
      /\ AnswersWith(response) \in Seq(Items)
  <2>1. Tail(top.work) \in Seq(Items)
    BY <1>1, <1>3, HeadTailProperties
  <2> QED BY <1>5, <2>1, ConcatProperties DEF AnswersWith
<1>7. /\ t \in Activations /\ t.work = response \o Tail(top.work)
      /\ t.before = top.before /\ t.saved = top.saved /\ t.trail = top.trail
  BY <1>2, <1>6 DEF Activations
<1>8. calls' = [calls EXCEPT ![Depth] = t]
  BY DEF StoreList, top, response, p
<1> HIDE DEF t, n
<1>9. /\ Len(calls') = n /\ calls'[n] = t
      /\ \A l \in 1 .. n - 1 : calls'[l] = calls[l] /\ Kept(calls[l], calls'[l])
  BY <1>1, <1>2, <1>7, <1>8, NewTop DEF n
<1>10. /\ World'.nodes = Replaced(g) /\ World'.lists = lists + 1
       /\ World'.path = World.path /\ World'.status = World.status
       /\ World.nodes = nodes /\ World.lists = lists /\ lists \in Nat
  <2>1. lists \in Nat
    BY <1>2, StrategyAssumption DEF World, Worlds
  <2> QED BY <2>1, WorldFields DEF StoreList, g
<1>11. \A l \in 1 .. n - 1 : RunFits(calls'[l], World')
  <2> SUFFICES ASSUME NEW l \in 1 .. n - 1 PROVE RunFits(calls[l], World')
    BY <1>9
  <2>1. RunFits(calls[l], World) /\ calls[l] \in Activations
    BY <1>2, ElementOfSeq
  <2> QED BY <2>1, <1>2, <1>3, <1>10, RunFitsReplaced
<1>15. Accounted(t.trail, World')
  <2>1. RunFits(top, World')
    BY <1>2, <1>3, <1>10, RunFitsReplaced
  <2> QED BY <2>1, <1>7 DEF RunFits
<1>12. \A i \in DOMAIN World'.nodes :
         /\ World'.nodes[i].list <= World'.lists
         /\ World'.nodes[i].stage = "sent" =>
              i \in DOMAIN World.nodes /\ World.nodes[i].stage = "sent"
  <2> SUFFICES ASSUME NEW i \in DOMAIN Replaced(g)
               PROVE  /\ Replaced(g)[i].list <= lists + 1
                      /\ Replaced(g)[i].stage = "sent" =>
                           i \in DOMAIN nodes /\ nodes[i].stage = "sent"
    BY <1>10
  <2>1. CASE i \in DOMAIN g
    <3>1. Replaced(g)[i] = FreshNode(g, i)
      BY <2>1 DEF Replaced
    <3>2. Replaced(g)[i].list = lists + 1 /\ Replaced(g)[i].stage = "ready"
      BY <3>1 DEF FreshNode
    <3> QED BY <3>2, <1>10
  <2>2. CASE i \notin DOMAIN g
    <3>1. Replaced(g)[i] = nodes[i] /\ i \in DOMAIN nodes
      BY <2>2 DEF Replaced
    <3>2. nodes[i].list <= lists /\ nodes[i].list \in Int
      <4>1. nodes[i] \in Nodes
        BY <1>2, <3>1, StoreFacts
      <4> QED BY <3>1, <4>1, <1>2, <1>10, StrategyAssumption DEF ListsKnown, Nodes
    <3> QED BY <3>1, <3>2, <1>10
  <2> QED BY <2>1, <2>2
<1>13. top = calls[n]
  BY DEF n, top
<1>14. ASSUME NEW ds, NEW v, Len(ds) = n, ds[n] = t, v.status = World.status,
              Accounted(t.trail, v),
              \A l \in 1 .. n - 1 : Kept(calls[l], ds[l]) /\ RunFits(ds[l], v),
              \A i \in DOMAIN v.nodes :
                /\ v.nodes[i].list <= v.lists
                /\ v.nodes[i].stage = "sent" =>
                     i \in DOMAIN World.nodes /\ World.nodes[i].stage = "sent"
       PROVE  StackFits(ds, v)
  <2>1. /\ calls[n].work \in Seq(Items) /\ calls[n].work # <<>>
        /\ Head(calls[n].work).kind = "init"
    BY <1>1, <1>3, <1>13
  <2>2. /\ ds[n].work = response \o Tail(calls[n].work)
        /\ ds[n].saved = calls[n].saved /\ ds[n].before = calls[n].before
        /\ IsInjective(ds[n].trail.visits)
        /\ ds[n].trail.operation = "cancel" \/ CancelsIn(response) => Cancels(calls[n])
    BY <1>2, <1>5, <1>7, <1>13, <1>14 DEF LevelOK, Cancels
  <2>3. ListsKnown(v) /\ Head(response).kind = "process"
    BY <1>4, <1>5, <1>14 DEF ListsKnown
  <2>4. Answers(calls, World, response, ds, v, n)
    BY <1>2, <1>5, <1>14, <2>1, <2>2, <2>3 DEF Answers
  <2> QED BY <1>2, <2>4, AnswerFits
<1> QED BY <1>9, <1>10, <1>11, <1>12, <1>14, <1>15

\* The item a handler works on, and the stack it answers into.
LEMMA HandlerFacts ==
  ASSUME RunInv, NEW kind, Working(kind)
  PROVE  /\ calls # <<>> /\ top.work # <<>> /\ top.work \in Seq(Items)
         /\ Head(top.work) = item /\ item \in Items /\ item.kind = kind
         /\ top = calls[Depth]
         /\ Len(top.work) \in Nat \ {0} /\ top.work[1] = item
         /\ 1 \in 1 .. Len(top.work)
         /\ \A response \in Seq(Items) :
              /\ AnswersWith(response) = response \o Tail(top.work)
              /\ AnswersWith(response) \in Seq(Items)
<1>1. /\ calls # <<>> /\ top.work # <<>> /\ top.work \in Seq(Items)
      /\ item \in Items /\ item.kind = kind
  BY ItemType DEF RunInv, IInv
<1>2. Len(top.work) \in Nat \ {0}
  BY <1>1, EmptySeq
<1>3. Tail(top.work) \in Seq(Items)
  BY <1>1, HeadTailProperties
<1>4. \A response \in Seq(Items) : AnswersWith(response) \in Seq(Items)
  BY <1>3, ConcatProperties DEF AnswersWith
<1> QED BY <1>1, <1>2, <1>4 DEF item, top, AnswersWith

\* What the run goes on to after node i: nothing, a successor of the node, or,
\* in a run that cancels, the next index.
LEMMA NextIsStep ==
  ASSUME nodes \in Stores, NEW operation, NEW i \in DOMAIN nodes,
         NEW next \in NextNodes(operation, nodes[i])
  PROVE  \/ next = <<>> /\ (operation = "cancel" => DOMAIN nodes = 0 .. i)
         \/ \E j \in DOMAIN nodes :
              /\ next = <<nodes[j]>> /\ nodes[j].index = j /\ j # i
              /\ IF operation = "cancel" THEN j = i + 1
                 ELSE \E b \in Branches : nodes[i].exits[b] = j
<1>1. i \in Nat /\ nodes[i].index = i /\ Gapless(nodes)
  BY StoreFacts, StoreMember DEF StoreOK
<1>2. CASE operation = "cancel"
  <2>1. next = Load(i + 1)
    BY <1>1, <1>2 DEF NextNodes
  <2>2. CASE i + 1 \in DOMAIN nodes
    BY <1>1, <1>2, <2>1, <2>2, StoreFacts DEF Load
  <2>3. CASE i + 1 \notin DOMAIN nodes
    <3>1. 0 .. i \subseteq DOMAIN nodes
      BY <1>1 DEF Gapless
    <3>2. ASSUME NEW k \in DOMAIN nodes, k \notin 0 .. i PROVE FALSE
      <4>1. k \in Nat /\ 0 .. k \subseteq DOMAIN nodes
        BY <1>1 DEF Gapless
      <4>2. i + 1 \in 0 .. k
        BY <1>1, <3>2, <4>1
      <4> QED BY <2>3, <4>1, <4>2
    <3>3. next = <<>>
      BY <2>1, <2>3 DEF Load
    <3> QED BY <3>1, <3>2, <3>3
  <2> QED BY <2>2, <2>3
<1>3. CASE operation # "cancel"
  <2>1. PICK b \in Branches : next = Load(nodes[i].exits[b])
    BY <1>3 DEF NextNodes
  <2>2. CASE nodes[i].exits[b] \in DOMAIN nodes
    BY <1>3, <2>1, <2>2, StoreFacts DEF Load
  <2>3. CASE nodes[i].exits[b] \notin DOMAIN nodes
    BY <1>3, <2>1, <2>3 DEF Load
  <2> QED BY <2>2, <2>3
<1> QED BY <1>2, <1>3

LEMMA StartRunFits ==
  ASSUME RunInv, StartRun
  PROVE  StackFits(calls', World')
<1> DEFINE n == Depth
           trail == [operation |-> item.operation, visits |-> <<>>, alone |-> TRUE,
                     since |-> lists]
           response == VisitNext(item.operation, Load(0), <<>>)
           t == [top EXCEPT !.trail = trail, !.work = AnswersWith(response)]
           Joined(l) == [calls[l] EXCEPT !.trail.alone = FALSE]
<1>1. /\ calls # <<>> /\ top.work # <<>> /\ top.work \in Seq(Items)
      /\ Head(top.work) = item /\ item \in Items /\ item.kind = "process"
      /\ top = calls[n]
      /\ Len(top.work) \in Nat \ {0} /\ top.work[1] = item /\ 1 \in 1 .. Len(top.work)
      /\ \A r \in Seq(Items) : /\ AnswersWith(r) = r \o Tail(top.work)
                               /\ AnswersWith(r) \in Seq(Items)
  BY HandlerFacts DEF StartRun
<1>2. /\ StackOK(calls, nodes) /\ World \in Worlds /\ nodes \in Stores
      /\ calls \in Seq(Activations) /\ top \in Activations
      /\ n \in Nat \ {0} /\ n = Len(calls)
      /\ StackFits(calls, World)
      /\ LevelOK(top) /\ ListsKnown(World)
      /\ \A l \in 1 .. n - 1 : RunFits(calls[l], World)
  BY <1>1, RunInvFacts
<1>3. item.operation \in Operations /\ item.previous = NONE
  BY <1>1 DEF Items, StartRun
<1>4. Load(0) = <<>> \/ \E i \in DOMAIN nodes : Load(0) = <<nodes[i]>>
  BY DEF Load
<1>5. VisitFits(response, item.operation, Load(0), <<>>)
  BY <1>2, <1>3, <1>4, VisitAnswer, EmptySeq
<1> HIDE DEF response
<1>6. AnswersWith(response) = response \o Tail(top.work) /\ AnswersWith(response) \in Seq(Items)
  BY <1>1, <1>5 DEF VisitFits
<1>7. /\ trail.operation = item.operation /\ trail.visits = <<>> /\ trail \in Trails
      /\ Accounted(trail, World)
  <2>1. lists \in 0 .. MaxLists /\ World.lists = lists
    BY <1>2 DEF World, Worlds
  <2>2. trail.since <= World.lists
    BY <2>1, StrategyAssumption
  <2> QED BY <1>3, <2>1, <2>2, EmptySeq, NothingVisited DEF Trails
<1> HIDE DEF trail
<1>8. /\ t.work = response \o Tail(top.work)
      /\ t.before = top.before /\ t.saved = top.saved /\ t.trail = trail
  BY <1>2, <1>6, <1>7 DEF Activations
<1>9. \A l \in 1 .. n : Kept(calls[l], Joined(l)) /\ ~Joined(l).trail.alone
  <2>1. \A c \in Activations : LET d == [c EXCEPT !.trail.alone = FALSE]
                               IN Kept(c, d) /\ ~d.trail.alone
    BY DEF Activations, Trails, Kept
  <2>2. \A l \in 1 .. n : calls[l] \in Activations
    BY <1>2, ElementOfSeq
  <2> QED BY <2>1, <2>2
<1>10. calls' = [l \in 1 .. n |-> IF l < n THEN Joined(l) ELSE t]
  <2>1. DOMAIN calls = 1 .. n
    BY <1>2, LenProperties
  <2> QED BY <2>1 DEF StartRun, trail, response
<1> HIDE DEF t, n, Joined
<1>11. Len(calls') = n /\ calls'[n] = t /\ \A l \in 1 .. n - 1 : calls'[l] = Joined(l)
  BY <1>2, <1>10
<1>12. \A l \in 1 .. n - 1 : /\ Kept(calls[l], calls'[l])
                             /\ ~calls'[l].trail.alone
  BY <1>2, <1>9, <1>11
<1>13. \A l \in 1 .. n - 1 : RunFits(calls'[l], World)
  <2> SUFFICES ASSUME NEW l \in 1 .. n - 1 PROVE RunFits(calls'[l], World)
    OBVIOUS
  <2>1. RunFits(calls[l], World) /\ Kept(calls[l], calls'[l]) /\ ~calls'[l].trail.alone
    BY <1>2, <1>12
  <2>2. ASSUME NEW d, Kept(calls[l], d), ~d.trail.alone PROVE RunFits(d, World)
    BY <2>1, <2>2, SameWorld, RunFitsKept
  <2> QED BY <2>1, <2>2
<1>14. World' = World
  BY DEF World, StartRun
<1>15. /\ calls[n].work \in Seq(Items) /\ calls[n].work # <<>>
       /\ Head(calls[n].work).kind = "process" /\ Head(calls[n].work).previous = NONE
       /\ response \in Seq(Items) /\ InOrder(response) /\ ~CancelsIn(response)
       /\ CommitsFit(response, calls'[n].trail, World)
  BY <1>1, <1>3, <1>5 DEF VisitFits
<1>16. /\ calls'[n].work = response \o Tail(calls[n].work)
       /\ calls'[n].saved = calls[n].saved /\ calls'[n].before = calls[n].before
       /\ IsInjective(calls'[n].trail.visits)
  BY <1>1, <1>7, <1>8, <1>11, NoVisitYet
<1>17. calls'[n].trail.operation = "cancel" \/ CancelsIn(response) => Cancels(calls[n])
  BY <1>1, <1>7, <1>8, <1>11, <1>15 DEF Cancels, CancelsIn
<1>18. \A i \in DOMAIN World.nodes : Head(calls[n].work).previous # i
  BY <1>2, <1>15, WorldFields, StoreFacts, StrategyAssumption
<1>19. ASSUME response # <<>>
       PROVE  /\ Head(response).kind = "visit"
              /\ RunBefore(trail, Head(response), World)
  <2>1. /\ Head(response).kind = "visit" /\ Head(response).operation = item.operation
        /\ Head(response).path = <<>>
        /\ Load(0) # <<>> /\ Head(response).node = Load(0)[1]
    BY <1>5, <1>19 DEF VisitFits
  <2>2. 0 \in DOMAIN nodes /\ Load(0) = <<nodes[0]>>
    BY <2>1 DEF Load
  <2>3. Head(response).node.index = 0
    BY <1>2, <2>1, <2>2, StoreFacts
  <2>4. /\ \A k \in DOMAIN trail.visits : FALSE
        /\ Indices(trail) = {} /\ Steps(trail.visits) = <<>>
    BY <1>7, NoVisitYet
  <2>5. Indices(trail) = 0 .. Head(response).node.index - 1
    BY <2>3, <2>4
  <2> QED BY <1>7, <2>1, <2>4, <2>5 DEF RunBefore, Unvisited
<1>20. response = <<>> => Indices(trail) = DOMAIN World.nodes
  <2> SUFFICES ASSUME response = <<>> PROVE Indices(trail) = DOMAIN nodes
    BY WorldFields
  <2>1. Load(0) = <<>>
    BY <1>5 DEF VisitFits
  <2>2. 0 \notin DOMAIN nodes
    BY <2>1 DEF Load
  <2>3. DOMAIN nodes = {}
    BY <1>2, <2>2, StoreMember DEF StoreOK, Gapless
  <2> QED BY <2>3, <1>7, NoVisitYet
<1>21. calls'[n].trail = trail
  BY <1>8, <1>11
<1>22. Answers(calls, World, response, calls', World, n)
  BY <1>2, <1>7, <1>11, <1>12, <1>13, <1>15, <1>16, <1>17, <1>18, <1>19, <1>20, <1>21
     DEF Answers
<1> QED BY <1>2, <1>14, <1>22, AnswerFits

LEMMA ResumeFits ==
  ASSUME RunInv, Resume
  PROVE  StackFits(calls', World')
<1> DEFINE n == Depth
           i == item.previous
           operation == item.operation
           saved == [nodes EXCEPT ![i] = [nodes[i] EXCEPT !.stage = "ready"]]
<1>1. /\ calls # <<>> /\ top.work # <<>> /\ top.work \in Seq(Items)
      /\ Head(top.work) = item /\ item \in Items /\ item.kind = "process"
      /\ top = calls[n]
      /\ Len(top.work) \in Nat \ {0} /\ top.work[1] = item /\ 1 \in 1 .. Len(top.work)
      /\ \A r \in Seq(Items) : /\ AnswersWith(r) = r \o Tail(top.work)
                               /\ AnswersWith(r) \in Seq(Items)
  BY HandlerFacts DEF Resume
<1>2. /\ StackOK(calls, nodes) /\ World \in Worlds /\ nodes \in Stores
      /\ calls \in Seq(Activations) /\ top \in Activations
      /\ n \in Nat \ {0} /\ n = Len(calls)
      /\ StackFits(calls, World)
      /\ LevelOK(top) /\ RunFits(top, World) /\ ListsKnown(World)
      /\ \A l \in 1 .. n - 1 : /\ RunFits(calls[l], World)
                               /\ calls[l].trail.alone => NoRun(top.work)
  BY <1>1, RunInvFacts
<1>3. i \in DOMAIN nodes /\ i \in Nat /\ i # NONE /\ operation \in Operations
      /\ path \in Seq(Nat)
  <2>1. i \in DOMAIN nodes
    BY DEF Resume
  <2>2. i \in Nat
    BY <1>2, <2>1, StoreFacts
  <2> QED BY <1>1, <1>2, <2>1, <2>2, StrategyAssumption DEF Items, World, Worlds
<1>4. nodes[i] \in Nodes /\ nodes[i].index = i
  BY <1>2, <1>3, StoreFacts
<1>5. nodes' = saved
  BY <1>4 DEF Resume, Save, Nodes
<1>6. saved \in Stores
  BY <1>2, <1>3, SaveStage
<1>7. /\ DOMAIN saved = DOMAIN nodes
      /\ \A k \in DOMAIN nodes : /\ saved[k].exits = nodes[k].exits
                                 /\ saved[k].list = nodes[k].list
                                 /\ saved[k].index = nodes[k].index
                                 /\ saved[k].stage = "sent" =>
                                      k # i /\ nodes[k].stage = "sent"
  <2>1. DOMAIN saved = DOMAIN nodes /\ \A k \in DOMAIN nodes : k # i => saved[k] = nodes[k]
    OBVIOUS
  <2>2. /\ saved[i].exits = nodes[i].exits /\ saved[i].list = nodes[i].list
        /\ saved[i].index = nodes[i].index /\ saved[i].stage = "ready"
    BY <1>3, <1>4 DEF Nodes
  <2> HIDE DEF saved
  <2> QED BY <2>1, <2>2
<1>8. PICK next \in NextNodes(operation, nodes[i]) :
        calls' = [calls EXCEPT ![Depth].work =
                    AnswersWith(VisitNext(operation, next, path))]
  BY DEF Resume
<1> HIDE DEF saved, i, operation
<1>9. \/ next = <<>> /\ (operation = "cancel" => DOMAIN nodes = 0 .. i)
      \/ \E j \in DOMAIN nodes :
           /\ next = <<nodes[j]>> /\ nodes[j].index = j /\ j # i
           /\ IF operation = "cancel" THEN j = i + 1
              ELSE \E b \in Branches : nodes[i].exits[b] = j
  BY <1>2, <1>3, NextIsStep
<1> DEFINE response == VisitNext(operation, next, path)
           t == [top EXCEPT !.work = AnswersWith(response)]
<1>10. VisitFits(response, operation, next, path)
  BY <1>2, <1>3, <1>9, VisitAnswer
<1> HIDE DEF response
<1>11. AnswersWith(response) = response \o Tail(top.work) /\ AnswersWith(response) \in Seq(Items)
  BY <1>1, <1>10 DEF VisitFits
<1>12. /\ t \in Activations /\ t.work = response \o Tail(top.work)
       /\ t.before = top.before /\ t.saved = top.saved /\ t.trail = top.trail
  BY <1>2, <1>11 DEF Activations
<1>13. calls' = [calls EXCEPT ![Depth] = t]
  BY <1>8 DEF top, response
<1> HIDE DEF t, n
<1>14. /\ Len(calls') = n /\ calls'[n] = t
       /\ \A l \in 1 .. n - 1 : calls'[l] = calls[l] /\ Kept(calls[l], calls'[l])
  BY <1>1, <1>2, <1>12, <1>13, NewTop DEF n
<1>15. /\ SameEdges(World.nodes, World'.nodes) /\ World'.lists = World.lists
       /\ World'.path = World.path /\ World'.status = World.status
       /\ World.nodes = nodes /\ World'.nodes = saved /\ World.path = path
  BY <1>5, <1>7, WorldFields DEF SameEdges, Resume
<1>16. \A l \in 1 .. n - 1 : RunFits(calls'[l], World')
  <2> SUFFICES ASSUME NEW l \in 1 .. n - 1 PROVE RunFits(calls[l], World')
    BY <1>14
  <2>1. RunFits(calls[l], World) /\ Kept(calls[l], calls[l])
    BY <1>2, KeptItself
  <2> QED BY <2>1, <1>15, RunFitsKept
<1>17. \A l \in 1 .. n - 1 : ~calls'[l].trail.alone
  <2>1. ~NoRun(top.work)
    BY <1>1, <1>3 DEF NoRun, IsRun, i
  <2> QED BY <2>1, <1>2, <1>14
<1>18. RunAfter(top.trail, operation, i, World')
  <2>1. RunAfter(top.trail, operation, i, World)
    BY <1>1, <1>2, <1>3 DEF RunFits, CommitsFit, i, operation
  <2> QED BY <2>1, <1>15, RunAfterKept
<1>19. ListsKnown(World')
  BY <1>2, <1>15 DEF ListsKnown, SameEdges
<1>20. ASSUME response # <<>>
       PROVE  /\ Head(response).kind = "visit"
              /\ RunBefore(top.trail, Head(response), World')
  <2>1. /\ Head(response).kind = "visit" /\ Head(response).operation = operation
        /\ Head(response).path = path
        /\ next # <<>> /\ Head(response).node = next[1]
    BY <1>10, <1>20 DEF VisitFits
  <2>2. PICK j \in DOMAIN nodes :
          /\ next = <<nodes[j]>> /\ nodes[j].index = j
          /\ IF operation = "cancel" THEN j = i + 1
             ELSE \E b \in Branches : nodes[i].exits[b] = j
    BY <1>9, <2>1
  <2>3. Head(response).node.index = j /\ j \in DOMAIN World'.nodes
    BY <2>1, <2>2, <1>7, <1>15
  <2>4. /\ World'.nodes \in Stores
        /\ IF operation = "cancel" THEN j = i + 1
           ELSE \E b \in Branches : World'.nodes[i].exits[b] = j
    BY <2>2, <1>3, <1>6, <1>7, <1>15
  <2>5. top.trail.alone => Head(response).path = World'.path
    BY <2>1, <1>15
  <2> QED BY <2>1, <2>3, <2>4, <2>5, <1>3, <1>18, RunGoesOn
<1>21. ASSUME response = <<>>, top.trail.operation = "cancel"
       PROVE  Indices(top.trail) = DOMAIN World'.nodes
  <2>1. next = <<>>
    BY <1>10, <1>21 DEF VisitFits
  <2>2. operation = "cancel" /\ Indices(top.trail) = 0 .. i
    BY <1>18, <1>21 DEF RunAfter
  <2> QED BY <2>1, <2>2, <1>7, <1>9, <1>15
<1>22. \A k \in DOMAIN World'.nodes :
         World'.nodes[k].stage = "sent" =>
           /\ k \in DOMAIN World.nodes /\ World.nodes[k].stage = "sent"
           /\ Head(calls[n].work).previous # k
  BY <1>1, <1>7, <1>15 DEF i
<1>23. /\ calls[n].work \in Seq(Items) /\ calls[n].work # <<>>
       /\ Head(calls[n].work).kind = "process"
       /\ response \in Seq(Items) /\ InOrder(response) /\ ~CancelsIn(response)
       /\ CommitsFit(response, calls'[n].trail, World')
  BY <1>1, <1>10 DEF VisitFits
<1>24. /\ calls'[n].work = response \o Tail(calls[n].work)
       /\ calls'[n].saved = calls[n].saved /\ calls'[n].before = calls[n].before
       /\ calls'[n].trail = top.trail
       /\ IsInjective(calls'[n].trail.visits)
       /\ calls'[n].trail.operation = "cancel" => Cancels(calls[n])
  BY <1>1, <1>2, <1>12, <1>14 DEF LevelOK, Cancels
<1>26. Accounted(top.trail, World')
  BY <1>2, <1>15, AccountedKept DEF RunFits
<1>25. Answers(calls, World, response, calls', World', n)
  BY <1>2, <1>26, <1>14, <1>15, <1>16, <1>17, <1>19, <1>20, <1>21, <1>22, <1>23, <1>24
     DEF Answers
<1> QED BY <1>2, <1>25, AnswerFits

\* What a turn of the loop makes of the activation on top.
LEMMA VisitedTop ==
  ASSUME RunInv, Working("visit"), NEW response \in Seq(Items), Visited(response)
  PROVE  \E t \in Activations :
           /\ t.work = response \o Tail(top.work)
           /\ t.before = top.before /\ t.saved = top.saved
           /\ t.trail.operation = top.trail.operation
           /\ t.trail.alone = top.trail.alone
           /\ t.trail.since = top.trail.since
           /\ t.trail.visits =
                Append(top.trail.visits, <<item.node.list, item.node.index>>)
           /\ Len(calls') = Depth /\ calls'[Depth] = t
           /\ \A l \in 1 .. Depth - 1 : calls'[l] = calls[l] /\ Kept(calls[l], calls'[l])
<1> DEFINE visit == <<item.node.list, item.node.index>>
           visits == Append(top.trail.visits, visit)
           trail == [top.trail EXCEPT !.visits = visits]
           work == AnswersWith(response)
           t == [top EXCEPT !.trail = trail, !.work = work]
<1>1. /\ calls # <<>> /\ item \in Items /\ item.kind = "visit"
      /\ work = response \o Tail(top.work) /\ work \in Seq(Items)
  BY HandlerFacts
<1>2. calls \in Seq(Activations) /\ top \in Activations /\ Depth = Len(calls)
  BY <1>1, RunInvFacts
<1>3. visit \in (1 .. MaxLists) \X Nat
  BY <1>1 DEF Items, Nodes
<1>4. top.trail \in Trails
  BY <1>2 DEF Activations
<1>5. visits \in Seq((1 .. MaxLists) \X Nat)
  BY <1>3, <1>4, AppendProperties DEF Trails
<1>6. /\ trail \in Trails /\ trail.operation = top.trail.operation
      /\ trail.alone = top.trail.alone /\ trail.visits = visits
      /\ trail.since = top.trail.since
  BY <1>4, <1>5 DEF Trails
<1>7. calls' = [calls EXCEPT ![Depth] = t]
  <2>1. calls' = [[calls EXCEPT ![Depth].trail.visits = visits]
                    EXCEPT ![Depth].work = work]
    BY DEF Visited, top
  <2>2. Depth \in DOMAIN calls
    BY <1>1, <1>2, EmptySeq, LenProperties
  <2> HIDE DEF visits, work
  <2> QED BY <2>1, <2>2 DEF top
<1> HIDE DEF trail, work, visits
<1>8. /\ t \in Activations /\ t.work = work /\ t.trail = trail
      /\ t.before = top.before /\ t.saved = top.saved
  BY <1>1, <1>2, <1>6 DEF Activations
<1> HIDE DEF t
<1>9. /\ Len(calls') = Depth /\ calls'[Depth] = t
      /\ \A l \in 1 .. Depth - 1 : calls'[l] = calls[l] /\ Kept(calls[l], calls'[l])
  BY <1>1, <1>2, <1>7, <1>8, NewTop
<1> QED BY <1>1, <1>6, <1>8, <1>9 DEF visits

\* The run after a turn of the loop, in a world whose path is the local one.
LEMMA VisitedRun ==
  ASSUME RunInv, Working("visit"), NEW trail,
         trail.operation = top.trail.operation, trail.alone = top.trail.alone,
         trail.since = top.trail.since,
         trail.visits =
           Append(top.trail.visits, <<item.node.list, item.node.index>>),
         NEW v, SameEdges(nodes, v.nodes), v.lists = lists, v.path = LocalPath
  PROVE  /\ RunAfter(trail, item.operation, item.node.index, v)
         /\ IsInjective(trail.visits) /\ Accounted(trail, v)
         /\ item.operation = top.trail.operation
         /\ \A l \in 1 .. Depth - 1 : ~calls[l].trail.alone
<1> DEFINE i == item.node.index
<1>1. /\ calls # <<>> /\ top.work # <<>> /\ Head(top.work) = item
      /\ item \in Items /\ item.kind = "visit"
      /\ top.work[1] = item /\ 1 \in 1 .. Len(top.work)
  BY HandlerFacts
<1>2. /\ World \in Worlds /\ nodes \in Stores /\ top \in Activations
      /\ LevelOK(top) /\ TopFits(top, World) /\ ListsKnown(World)
      /\ RunFits(top, World)
      /\ \A l \in 1 .. Depth - 1 : calls[l].trail.alone => NoRun(top.work)
  BY <1>1, RunInvFacts
<1>3. /\ item.operation \in Operations
      /\ i \in DOMAIN nodes /\ i \in Nat /\ item.node = nodes[i]
  BY VisitFacts DEF RunInv
<1>4. ~NoRun(top.work)
  BY <1>1 DEF NoRun, IsRun
<1>5. RunBefore(top.trail, item, World)
  BY <1>1, <1>2 DEF TopFits
<1>6. item.node.list \in 1 .. MaxLists
  BY <1>1 DEF Items, Nodes
<1>7. /\ top.trail \in Trails /\ IsInjective(top.trail.visits)
      /\ Accounted(top.trail, World) /\ trail.since = top.trail.since
  BY <1>2 DEF Activations, LevelOK, RunFits
<1>8. /\ World.nodes = nodes /\ World.lists = lists /\ nodes[i].list <= lists
  BY <1>2, <1>3, WorldFields DEF ListsKnown
<1>9. v.path = Append(item.path, i)
  BY DEF LocalPath
<1>10. item.node.index = i /\ item.node.list = nodes[i].list
  BY <1>3
<1> HIDE DEF i
<1>11. trail.visits = Append(top.trail.visits, <<item.node.list, i>>)
  BY <1>10
<1>12. /\ i \in DOMAIN World.nodes /\ item.node.list = World.nodes[i].list
       /\ World.nodes[i].list <= World.lists
       /\ SameEdges(World.nodes, v.nodes) /\ v.lists = World.lists
       /\ trail.alone => top.trail.alone
  BY <1>3, <1>8, <1>10
<1> DEFINE before == top.trail
           it == item
           w == World
<1>13. Visiting(before, it, w, i, trail, v)
  BY <1>3, <1>5, <1>6, <1>7, <1>9, <1>10, <1>11, <1>12 DEF Visiting
<1> HIDE DEF before, it, w
<1>14. /\ RunAfter(trail, it.operation, i, v)
       /\ IsInjective(trail.visits) /\ Accounted(trail, v)
  BY <1>13, RunHasVisited
<1>15. /\ RunAfter(trail, item.operation, i, v)
       /\ IsInjective(trail.visits) /\ Accounted(trail, v)
  BY <1>14 DEF it
<1> QED BY <1>2, <1>4, <1>5, <1>10, <1>15 DEF RunBefore

\* A turn of the loop that answers with the call that will commit the node.
CommitAnswer(response) ==
  /\ response \in Seq(Items) /\ InOrder(response)
  /\ response # <<>> /\ Head(response).kind \in {"message", "process"}
  /\ CancelsIn(response) => item.operation = "cancel"
  /\ Commits(response, item.node.index)
  /\ \A trail, w : RunAfter(trail, item.operation, item.node.index, w)
                     => CommitsFit(response, trail, w)

LEMMA VisitCommits ==
  ASSUME RunInv, Working("visit"), NEW response, CommitAnswer(response),
         Visited(response), SameEdges(nodes, nodes'), path' = LocalPath,
         \A k \in DOMAIN nodes' :
           nodes'[k].stage = "sent" => k = item.node.index \/ nodes[k].stage = "sent",
         UNCHANGED <<status, lists>>
  PROVE  StackFits(calls', World')
<1> DEFINE n == Depth
           i == item.node.index
<1>1. /\ calls # <<>> /\ top.work # <<>> /\ top.work \in Seq(Items)
      /\ Head(top.work) = item /\ item.kind = "visit" /\ top = calls[n]
  BY HandlerFacts
<1>2. /\ n \in Nat \ {0} /\ n = Len(calls)
      /\ StackFits(calls, World) /\ ListsKnown(World)
      /\ \A l \in 1 .. n - 1 : RunFits(calls[l], World)
  BY <1>1, RunInvFacts
<1>3. /\ response \in Seq(Items) /\ InOrder(response)
      /\ response # <<>> /\ Head(response).kind \in {"message", "process"}
      /\ CancelsIn(response) => item.operation = "cancel"
      /\ Commits(response, i)
      /\ \A trail, w : RunAfter(trail, item.operation, i, w)
                         => CommitsFit(response, trail, w)
  BY DEF CommitAnswer
<1>4. PICK t \in Activations :
        /\ t.work = response \o Tail(top.work)
        /\ t.before = top.before /\ t.saved = top.saved
        /\ t.trail.operation = top.trail.operation
        /\ t.trail.alone = top.trail.alone
        /\ t.trail.since = top.trail.since
        /\ t.trail.visits = Append(top.trail.visits, <<item.node.list, i>>)
        /\ Len(calls') = n /\ calls'[n] = t
        /\ \A l \in 1 .. n - 1 : calls'[l] = calls[l] /\ Kept(calls[l], calls'[l])
  BY <1>3, VisitedTop
<1>5. /\ SameEdges(World.nodes, World'.nodes) /\ World'.lists = World.lists
      /\ World'.status = World.status /\ World'.path = LocalPath
      /\ World.nodes = nodes /\ World.lists = lists /\ World'.nodes = nodes'
  BY WorldFields
<1>6. SameEdges(nodes, World'.nodes) /\ World'.lists = lists
  BY <1>5
<1>7. /\ RunAfter(t.trail, item.operation, i, World')
      /\ IsInjective(t.trail.visits) /\ Accounted(t.trail, World')
      /\ item.operation = top.trail.operation
      /\ \A l \in 1 .. n - 1 : ~calls[l].trail.alone
  BY <1>4, <1>5, <1>6, VisitedRun
<1> HIDE DEF n, i
<1>8. \A l \in 1 .. n - 1 : RunFits(calls'[l], World')
  <2> SUFFICES ASSUME NEW l \in 1 .. n - 1 PROVE RunFits(calls[l], World')
    BY <1>4
  <2>1. RunFits(calls[l], World) /\ Kept(calls[l], calls[l]) /\ ~calls[l].trail.alone
    BY <1>2, <1>7, KeptItself
  <2> QED BY <2>1, <1>5, RunFitsKept
<1>9. ListsKnown(World')
  BY <1>2, <1>5 DEF ListsKnown, SameEdges
<1>10. \A k \in DOMAIN World'.nodes :
         World'.nodes[k].stage = "sent" =>
           \/ /\ k \in DOMAIN World.nodes /\ World.nodes[k].stage = "sent"
              /\ Head(calls[n].work).kind # "process"
           \/ Commits(response, k)
  BY <1>1, <1>3, <1>5 DEF SameEdges, i
<1>11. /\ calls[n].work \in Seq(Items) /\ calls[n].work # <<>>
       /\ Head(calls[n].work).kind # "message"
       /\ CommitsFit(response, calls'[n].trail, World')
       /\ calls'[n].work = response \o Tail(calls[n].work)
       /\ calls'[n].saved = calls[n].saved /\ calls'[n].before = calls[n].before
       /\ IsInjective(calls'[n].trail.visits)
  BY <1>1, <1>3, <1>4, <1>7
<1>12. calls'[n].trail.operation = "cancel" \/ CancelsIn(response) => Cancels(calls[n])
  BY <1>1, <1>3, <1>4, <1>7 DEF Cancels
<1>13. Answers(calls, World, response, calls', World', n)
  BY <1>2, <1>3, <1>4, <1>5, <1>7, <1>8, <1>9, <1>10, <1>11, <1>12 DEF Answers
<1> QED BY <1>2, <1>13, AnswerFits

LEMMA NodeErrsFits ==
  ASSUME RunInv, NodeErrs
  PROVE  StackFits(calls', World')
<1> DEFINE last == Process(item.operation, item.node.index)
<1>1. Working("visit") /\ Visited(<<last>>)
  BY DEF NodeErrs
<1>2. /\ nodes \in Stores /\ item.operation \in Operations
      /\ item.node.index \in DOMAIN nodes /\ item.node.index \in Nat
      /\ item.node = nodes[item.node.index]
  BY <1>1, VisitFacts DEF RunInv
<1>3. nodes' = nodes
  BY <1>2, SaveUnchanged DEF NodeErrs
<1>4. /\ last \in Items /\ last.kind = "process" /\ last.operation = item.operation
      /\ last.previous = item.node.index
  BY <1>2 DEF Process, Items
<1> HIDE DEF last
<1>5. CommitAnswer(<<last>>)
  BY <1>4, ProcessAnswer DEF CommitAnswer
<1>6. SameEdges(nodes, nodes')
  BY <1>3, SameWorld
<1> QED BY <1>1, <1>3, <1>5, <1>6, VisitCommits DEF NodeErrs

\* The messages of a node, and the call that commits it behind them.
LEMMA SendAnswer ==
  ASSUME NEW n \in 1 .. MaxMessages, NEW p \in Items, p.kind = "process",
         p.operation = item.operation, p.previous = item.node.index
  PROVE  CommitAnswer([k \in 1 .. n |-> Message] \o <<p>>)
<1> DEFINE messages == [k \in 1 .. n |-> Message]
           response == messages \o <<p>>
           m == n + 1
<1>1. Message \in Items /\ Message.kind = "message"
  BY DEF Message, Items
<1>2. n \in Nat \ {0} /\ m \in Nat
  BY StrategyAssumption
<1>3. messages \in [1 .. n -> Items]
  BY <1>1
<1>4. \A k \in 1 .. n : messages[k] = Message
  OBVIOUS
<1> HIDE DEF messages
<1>5. messages \in Seq(Items) /\ Len(messages) = n
  BY <1>2, <1>3
<1>6. <<p>> \in Seq(Items) /\ Len(<<p>>) = 1 /\ <<p>>[1] = p
  OBVIOUS
<1>7. /\ response \in Seq(Items)
      /\ Len(response) = n + 1
      /\ \A k \in 1 .. n + 1 : response[k] = IF k <= n THEN messages[k]
                                             ELSE <<p>>[k - n]
  BY <1>5, <1>6, ConcatProperties
<1> HIDE DEF response
<1>8. \A k \in 1 .. n : response[k].kind = "message"
  BY <1>1, <1>2, <1>4, <1>7
<1>9. response[m] = p
  <2>1. m \in 1 .. n + 1 /\ ~(m <= n) /\ m - n = 1
    BY <1>2
  <2> HIDE DEF m
  <2> QED BY <2>1, <1>6, <1>7
<1>10. /\ \A k \in 1 .. m : k \in 1 .. n \/ k = m
       /\ \A k \in 1 .. n : k < m /\ k + 1 \in 1 .. m
       /\ \A k \in m + 1 .. m : FALSE
       /\ m \in 1 .. m /\ 1 \in 1 .. n /\ Len(response) = m
  BY <1>2, <1>7
<1> HIDE DEF m
<1>11. InOrder(response)
  <2> SUFFICES ASSUME NEW k \in 1 .. m
               PROVE  IF response[k].kind = "message"
                      THEN k < m /\ response[k + 1].kind \in {"message", "process"}
                      ELSE \A j \in k + 1 .. m : response[j].kind = "init"
    BY <1>10 DEF InOrder
  <2>1. CASE k \in 1 .. n
    BY <2>1, <1>8, <1>9, <1>10
  <2>2. CASE k = m
    BY <2>2, <1>9, <1>10
  <2> QED BY <2>1, <2>2, <1>10
<1>12. response # <<>> /\ Head(response).kind = "message"
  <2>1. Len(response) # 0
    BY <1>2, <1>7
  <2>2. response # <<>>
    BY <2>1, EmptySeq
  <2> QED BY <2>2, <1>7, <1>8, <1>10
<1>13. /\ CancelsIn(response) => item.operation = "cancel"
       /\ Commits(response, item.node.index)
       /\ \A trail, w : RunAfter(trail, item.operation, item.node.index, w)
                          => CommitsFit(response, trail, w)
  BY <1>8, <1>9, <1>10 DEF CancelsIn, Commits, CommitsFit
<1> QED BY <1>7, <1>11, <1>12, <1>13 DEF CommitAnswer, response, messages

LEMMA NodeSendsFits ==
  ASSUME RunInv, NodeSends
  PROVE  StackFits(calls', World')
<1> DEFINE i == item.node.index
           last == Process(item.operation, i)
           saved == [nodes EXCEPT ![i] = [nodes[i] EXCEPT !.stage = "sent"]]
<1>1. Working("visit")
  BY DEF NodeSends
<1>2. /\ nodes \in Stores /\ item.operation \in Operations
      /\ i \in DOMAIN nodes /\ i \in Nat /\ item.node = nodes[i]
  BY <1>1, VisitFacts DEF RunInv
<1>3. nodes[i] \in Nodes /\ nodes[i].index = i
  BY <1>2, StoreFacts
<1>4. nodes' = saved
  BY <1>2, <1>3 DEF NodeSends, Save, Nodes
<1>5. /\ DOMAIN saved = DOMAIN nodes
      /\ \A k \in DOMAIN nodes : /\ saved[k].exits = nodes[k].exits
                                 /\ saved[k].list = nodes[k].list
                                 /\ saved[k].stage = "sent" =>
                                      k = i \/ nodes[k].stage = "sent"
  <2>1. DOMAIN saved = DOMAIN nodes /\ \A k \in DOMAIN nodes : k # i => saved[k] = nodes[k]
    OBVIOUS
  <2>2. saved[i].exits = nodes[i].exits /\ saved[i].list = nodes[i].list
    BY <1>2, <1>3 DEF Nodes
  <2> HIDE DEF saved
  <2> QED BY <2>1, <2>2
<1>6. PICK n \in 1 .. MaxMessages : Visited([k \in 1 .. n |-> Message] \o <<last>>)
  BY DEF NodeSends
<1>7. /\ last \in Items /\ last.kind = "process" /\ last.operation = item.operation
      /\ last.previous = i
  BY <1>2 DEF Process, Items
<1> HIDE DEF last, saved
<1>8. CommitAnswer([k \in 1 .. n |-> Message] \o <<last>>)
  BY <1>7, SendAnswer
<1>9. SameEdges(nodes, nodes')
  BY <1>4, <1>5 DEF SameEdges
<1>10. \A k \in DOMAIN nodes' :
         nodes'[k].stage = "sent" => k = item.node.index \/ nodes[k].stage = "sent"
  BY <1>4, <1>5
<1> QED BY <1>1, <1>6, <1>8, <1>9, <1>10, VisitCommits DEF NodeSends

LEMMA NodeIsSilentFits ==
  ASSUME RunInv, NodeIsSilent
  PROVE  StackFits(calls', World')
<1> DEFINE n == Depth
           i == item.node.index
           operation == item.operation
           v == [World EXCEPT !.path = LocalPath]
<1>1. /\ calls # <<>> /\ top.work # <<>> /\ top.work \in Seq(Items)
      /\ Head(top.work) = item /\ item.kind = "visit" /\ top = calls[n]
      /\ Working("visit")
  BY HandlerFacts DEF NodeIsSilent
<1>2. /\ n \in Nat \ {0} /\ n = Len(calls)
      /\ StackFits(calls, World) /\ ListsKnown(World)
      /\ \A l \in 1 .. n - 1 : RunFits(calls[l], World)
  BY <1>1, RunInvFacts
<1>3. /\ nodes \in Stores /\ operation \in Operations
      /\ i \in DOMAIN nodes /\ item.node = nodes[i] /\ LocalPath \in Seq(Nat)
  BY <1>1, VisitFacts DEF RunInv
<1>4. World' = World
  BY <1>3, SaveUnchanged DEF World, NodeIsSilent
<1>5. PICK next \in NextNodes(operation, nodes[i]) :
        Visited(VisitNext(operation, next, LocalPath))
  BY <1>3 DEF NodeIsSilent
<1>6. \/ next = <<>> /\ (operation = "cancel" => DOMAIN nodes = 0 .. i)
      \/ \E j \in DOMAIN nodes :
           /\ next = <<nodes[j]>> /\ nodes[j].index = j /\ j # i
           /\ IF operation = "cancel" THEN j = i + 1
              ELSE \E b \in Branches : nodes[i].exits[b] = j
  BY <1>3, NextIsStep
<1> DEFINE response == VisitNext(operation, next, LocalPath)
<1>7. VisitFits(response, operation, next, LocalPath)
  BY <1>3, <1>6, VisitAnswer
<1>8. Visited(response)
  BY <1>5
<1> HIDE DEF response
<1>9. PICK t \in Activations :
        /\ t.work = response \o Tail(top.work)
        /\ t.before = top.before /\ t.saved = top.saved
        /\ t.trail.operation = top.trail.operation
        /\ t.trail.alone = top.trail.alone
        /\ t.trail.since = top.trail.since
        /\ t.trail.visits = Append(top.trail.visits, <<item.node.list, i>>)
        /\ Len(calls') = n /\ calls'[n] = t
        /\ \A l \in 1 .. n - 1 : calls'[l] = calls[l] /\ Kept(calls[l], calls'[l])
  BY <1>1, <1>7, <1>8, VisitedTop DEF VisitFits
<1>10. /\ v.nodes = nodes /\ v.lists = lists /\ v.path = LocalPath
       /\ World.nodes = nodes /\ World.lists = lists
  BY DEF World
<1> HIDE DEF v
<1>11. /\ RunAfter(t.trail, operation, i, v)
       /\ IsInjective(t.trail.visits) /\ Accounted(t.trail, v)
       /\ operation = top.trail.operation
       /\ \A l \in 1 .. n - 1 : ~calls[l].trail.alone
  <2>1. SameEdges(nodes, v.nodes)
    BY <1>10, SameWorld
  <2> QED BY <1>1, <1>9, <1>10, <2>1, VisitedRun
<1> HIDE DEF n, i, operation
<1>12. ASSUME response # <<>>
       PROVE  /\ Head(response).kind = "visit"
              /\ RunBefore(t.trail, Head(response), World)
  <2>1. /\ Head(response).kind = "visit" /\ Head(response).operation = operation
        /\ Head(response).path = LocalPath
        /\ next # <<>> /\ Head(response).node = next[1]
    BY <1>7, <1>12 DEF VisitFits
  <2>2. PICK j \in DOMAIN nodes :
          /\ next = <<nodes[j]>> /\ nodes[j].index = j
          /\ IF operation = "cancel" THEN j = i + 1
             ELSE \E b \in Branches : nodes[i].exits[b] = j
    BY <1>6, <2>1
  <2>3. Head(response).node.index = j
    BY <2>1, <2>2
  <2>4. /\ v.nodes \in Stores /\ j \in DOMAIN v.nodes
        /\ IF operation = "cancel" THEN j = i + 1
           ELSE \E b \in Branches : v.nodes[i].exits[b] = j
        /\ t.trail.alone => Head(response).path = v.path
    BY <2>1, <2>2, <1>3, <1>10
  <2>5. RunBefore(t.trail, Head(response), v)
    BY <2>1, <2>3, <2>4, <1>3, <1>11, RunGoesOn
  <2> QED BY <2>1, <2>5, <1>10 DEF RunBefore
<1>13. ASSUME response = <<>>, t.trail.operation = "cancel"
       PROVE  Indices(t.trail) = DOMAIN World.nodes
  <2>1. next = <<>>
    BY <1>7, <1>13 DEF VisitFits
  <2>2. operation = "cancel" /\ Indices(t.trail) = 0 .. i
    BY <1>9, <1>11, <1>13 DEF RunAfter
  <2> QED BY <2>1, <2>2, <1>6, <1>10
<1>14. \A l \in 1 .. n - 1 : RunFits(calls'[l], World) /\ ~calls'[l].trail.alone
  BY <1>2, <1>9, <1>11
<1>15. /\ calls[n].work \in Seq(Items) /\ calls[n].work # <<>>
       /\ Head(calls[n].work).kind = "visit"
       /\ response \in Seq(Items) /\ InOrder(response) /\ ~CancelsIn(response)
       /\ CommitsFit(response, calls'[n].trail, World)
  BY <1>1, <1>7 DEF VisitFits
<1>16. /\ calls'[n].work = response \o Tail(calls[n].work)
       /\ calls'[n].saved = calls[n].saved /\ calls'[n].before = calls[n].before
       /\ calls'[n].trail = t.trail
       /\ IsInjective(calls'[n].trail.visits)
       /\ calls'[n].trail.operation = "cancel" => Cancels(calls[n])
  BY <1>1, <1>9, <1>11 DEF Cancels
<1>18. Accounted(t.trail, World)
  BY <1>10, <1>11 DEF Accounted
<1>17. Answers(calls, World, response, calls', World, n)
  BY <1>18, <1>2, <1>9, <1>12, <1>13, <1>14, <1>15, <1>16 DEF Answers
<1> QED BY <1>2, <1>4, <1>17, AnswerFits

-----------------------------------------------------------------------------
(* Every step *)

LEMMA ListWork ==
  ASSUME NEW g \in Graphs, NEW p \in Items, p.kind = "process", p.previous = NONE
  PROVE  /\ /\ <<InitNodes(g)>> # <<>> /\ InOrder(<<InitNodes(g)>>)
            /\ NoRun(<<InitNodes(g)>>) /\ ~CancelsIn(<<InitNodes(g)>>)
         /\ /\ <<p, InitNodes(g)>> # <<>> /\ InOrder(<<p, InitNodes(g)>>)
            /\ NoRun(<<p, InitNodes(g)>>) /\ Head(<<p, InitNodes(g)>>) = p
<1> DEFINE i == InitNodes(g)
<1>1. i.kind = "init"
  BY DEF InitNodes
<1> HIDE DEF i
<1> DEFINE one == <<i>>
           two == <<p, i>>
<1>2. /\ Len(one) = 1 /\ one[1] = i /\ one # <<>>
      /\ Len(two) = 2 /\ two[1] = p /\ two[2] = i /\ two # <<>> /\ Head(two) = p
  OBVIOUS
<1> HIDE DEF one, two
<1>3. /\ \A k \in 1 .. 1 : k = 1 /\ k + 1 .. 1 = {}
      /\ \A k \in 1 .. 2 : k = 1 \/ k = 2
      /\ \A j \in 1 + 1 .. 2 : j = 2
      /\ 2 + 1 .. 2 = {}
  OBVIOUS
<1>4. InOrder(one) /\ NoRun(one) /\ ~CancelsIn(one)
  BY <1>1, <1>2, <1>3 DEF InOrder, NoRun, IsRun, CancelsIn
<1>5. InOrder(two)
  <2> SUFFICES ASSUME NEW k \in 1 .. 2
               PROVE  /\ two[k].kind # "message"
                      /\ \A j \in k + 1 .. 2 : two[j].kind = "init"
    BY <1>2 DEF InOrder
  <2>1. CASE k = 1
    BY <2>1, <1>1, <1>2, <1>3
  <2>2. CASE k = 2
    BY <2>2, <1>1, <1>2, <1>3
  <2> QED BY <2>1, <2>2, <1>3
<1>6. NoRun(two)
  BY <1>1, <1>2, <1>3 DEF NoRun, IsRun
<1> QED BY <1>2, <1>4, <1>5, <1>6 DEF one, two, i

LEMMA StartWork ==
  ASSUME NEW operation \in Operations, NEW work,
         work = <<Process(operation, NONE)>>
  PROVE  /\ work \in Seq(Items) /\ work # <<>> /\ InOrder(work) /\ NoRun(work)
         /\ CancelsIn(work) => operation = "cancel"
         /\ Head(work).kind = "process"
<1> DEFINE p == Process(operation, NONE)
<1>1. p \in Items /\ p.kind = "process" /\ p.operation = operation /\ p.previous = NONE
  BY DEF Process, Items
<1> HIDE DEF p
<1>2. work = <<p>>
  BY DEF p
<1> QED BY <1>1, <1>2, ProcessAnswer

\* The calls that the manager accepts.
LEMMA ManagerFits ==
  ASSUME RunInv,
         \/ Execute
         \/ \E g \in Graphs : Instantiate(g) \/ Update(g)
         \/ \E s \in Statuses : UpdateStatus(s)
  PROVE  StackFits(calls', World')
<1>1. CASE Execute
  <2> DEFINE work == <<Process("execute", NONE)>>
  <2>1. /\ Calls(work) /\ status # "none" /\ status' = status
    BY <1>1 DEF Execute
  <2>2. /\ work \in Seq(Items) /\ work # <<>> /\ InOrder(work) /\ NoRun(work)
        /\ Head(work).kind # "init"
    BY StartWork DEF Operations
  <2> HIDE DEF work
  <2> QED BY <2>1, <2>2, CallFits
<1>2. ASSUME NEW s \in Statuses, UpdateStatus(s) PROVE StackFits(calls', World')
  <2> DEFINE operation == IF s = "active" THEN "execute" ELSE "cancel"
             work == <<Process(operation, NONE)>>
  <2>1. Calls(work) /\ status # "none" /\ status' # "none"
    BY <1>2 DEF UpdateStatus, Statuses
  <2>2. operation \in Operations
    BY DEF Operations
  <2> HIDE DEF operation
  <2>3. /\ work \in Seq(Items) /\ work # <<>> /\ InOrder(work) /\ NoRun(work)
        /\ Head(work).kind # "init"
    BY <2>2, StartWork
  <2> HIDE DEF work
  <2> QED BY <2>1, <2>3, CallFits
<1>3. ASSUME NEW g \in Graphs, Instantiate(g) PROVE StackFits(calls', World')
  <2> DEFINE work == <<InitNodes(g)>>
  <2>1. Calls(work) /\ status = "none" /\ status' # "none"
    BY <1>3 DEF Instantiate
  <2>2. Process("cancel", NONE) \in Items
    BY DEF Process, Items, Operations
  <2>3. Process("cancel", NONE).kind = "process"
        /\ Process("cancel", NONE).previous = NONE
    BY DEF Process
  <2>4. /\ work \in Seq(Items) /\ work # <<>> /\ InOrder(work) /\ NoRun(work)
        /\ ~CancelsIn(work)
    BY <2>2, <2>3, InitWork, ListWork
  <2> HIDE DEF work
  <2> QED BY <2>1, <2>4, CallFits
<1>4. ASSUME NEW g \in Graphs, Update(g) PROVE StackFits(calls', World')
  <2> DEFINE p == Process("cancel", NONE)
             work == <<p, InitNodes(g)>>
  <2>1. Calls(work) /\ status # "none" /\ status' = status
    BY <1>4 DEF Update
  <2>2. p \in Items /\ p.kind = "process" /\ p.previous = NONE
    BY DEF Process, Items, Operations
  <2>3. work \in Seq(Items)
    BY InitWork
  <2> HIDE DEF p
  <2>4. /\ work # <<>> /\ InOrder(work) /\ NoRun(work)
        /\ Head(work).kind # "init"
    BY <2>2, ListWork
  <2> HIDE DEF work
  <2> QED BY <2>1, <2>3, <2>4, CallFits
<1> QED BY <1>1, <1>2, <1>3, <1>4

LEMMA InitRunInv == Init => RunInv
<1> SUFFICES ASSUME Init PROVE RunInv
  OBVIOUS
<1>1. IInv
  BY InitStep
<1>2. Len(calls) = 0 /\ calls = <<>> /\ DOMAIN World.nodes = {}
  BY EmptySeq DEF Init, World
<1>3. WorldFits(World, calls, 0)
  BY <1>2 DEF WorldFits, ListsKnown
<1>4. LevelsOK(calls) /\ SavedFits(calls)
  BY <1>2 DEF LevelsOK, SavedFits
<1> QED BY <1>1, <1>2, <1>3, <1>4 DEF RunInv, StackFits

LEMMA NextRunInv == RunInv /\ [Next]_vars => RunInv'
<1> SUFFICES ASSUME RunInv, [Next]_vars PROVE RunInv'
  OBVIOUS
<1>1. IInv'
  BY NextStep DEF RunInv
<1>2. StackFits(calls', World')
  <2>1. CASE \E a \in Accounts : Begin(a)
    BY <2>1, BeginFits
  <2>2. CASE \/ Execute
             \/ \E g \in Graphs : Instantiate(g) \/ Update(g)
             \/ \E s \in Statuses : UpdateStatus(s)
    BY <2>2, ManagerFits
  <2>3. CASE StoreList
    BY <2>3, StoreListFits
  <2>4. CASE StartRun
    BY <2>4, StartRunFits
  <2>5. CASE Resume
    BY <2>5, ResumeFits
  <2>6. CASE NodeSends
    BY <2>6, NodeSendsFits
  <2>7. CASE NodeIsSilent
    BY <2>7, NodeIsSilentFits
  <2>8. CASE NodeErrs
    BY <2>8, NodeErrsFits
  <2>9. CASE \E a \in Accounts : DeliverMessage(a)
    BY <2>9, DeliverMessageFits
  <2>10. CASE AnswerMessage
    BY <2>10, AnswerMessageFits
  <2>11. CASE CallFails
    BY <2>11, CallFailsFits
  <2>12. CASE Return
    BY <2>12, ReturnFits
  <2>13. CASE Fail
    BY <2>13, FailFits
  <2>14. CASE UNCHANGED vars
    BY <2>14 DEF vars, World, RunInv
  <2> QED BY <2>1, <2>2, <2>3, <2>4, <2>5, <2>6, <2>7, <2>8, <2>9, <2>10,
             <2>11, <2>12, <2>13, <2>14 DEF Next, Transact
<1> QED BY <1>1, <1>2 DEF RunInv

-----------------------------------------------------------------------------
(* Runs *)

\* The strengthened invariant of the runs: what a run has left to visit and to
\* commit can be visited and committed, in the present state and in every state
\* to which a failing call or message may return.
THEOREM RunsFit == Spec => []RunInv
BY InitRunInv, NextRunInv, PTL DEF Spec

\* The process loop keeps no record of the nodes it has been to: it follows the
\* edges, and the list may be replaced by a call in the middle of the run.  No
\* node of one list is executed, or cancelled, twice by a run all the same.
THEOREM VisitedOnce == Spec => []VisitOnce
<1>1. RunInv => VisitOnce
  BY LenProperties DEF RunInv, StackFits, LevelsOK, LevelOK, VisitOnce, IInv, StackOK
<1> QED BY <1>1, RunsFit, PTL

\* A node whose messages were sent is committed by the Process message behind
\* them: none of the calls nested in them, and no failure, loses it.
THEOREM CommitsAreDue == Spec => []CommitIsDue
<1>1. ASSUME RunInv, NEW i \in DOMAIN nodes, nodes[i].stage = "sent"
      PROVE  \E l \in DOMAIN calls : \E k \in DOMAIN calls[l].work :
               calls[l].work[k].kind = "process" /\ calls[l].work[k].previous = i
  <2>1. CommitDue(calls, Len(calls), i)
    BY <1>1, WorldFields DEF RunInv, StackFits, WorldFits
  <2>2. PICK l \in 1 .. Len(calls) : Commits(calls[l].work, i)
    BY <2>1 DEF CommitDue
  <2>3. PICK k \in 1 .. Len(calls[l].work) :
          calls[l].work[k].kind = "process" /\ calls[l].work[k].previous = i
    BY <2>2 DEF Commits
  <2>4. calls \in Seq(Activations)
    BY <1>1 DEF RunInv, IInv, StackOK
  <2>5. l \in DOMAIN calls
    BY <2>4, LenProperties
  <2>6. calls[l].work \in Seq(Items)
    <3>1. calls[l] \in Activations
      BY <2>4, ElementOfSeq
    <3> QED BY <3>1 DEF Activations
  <2>7. k \in DOMAIN calls[l].work
    BY <2>6, LenProperties
  <2> QED BY <2>3, <2>5, <2>7
<1>2. RunInv => CommitIsDue
  BY <1>1 DEF CommitIsDue
<1> QED BY <1>2, RunsFit, PTL

\* update_strategy replaces the nodes once the run that cancels has been through
\* the whole store, the nodes that no edge leads to any more included: a node it
\* replaces has been cancelled, unless its list was stored after the run began.
THEOREM ReplacesAfterCancel == Spec => []ReplacedAfterCancel
<1>1. ASSUME RunInv, Working("init"), top.trail.operation = "cancel"
      PROVE  Indices(top.trail) = DOMAIN nodes /\ Accounted(top.trail, World)
  <2>1. /\ calls # <<>> /\ top.work # <<>>
        /\ Head(top.work) = item /\ item.kind = "init"
    BY <1>1, HandlerFacts
  <2>2. TopFits(top, World) /\ RunFits(top, World)
    BY <1>1, <2>1, RunInvFacts
  <2> QED BY <1>1, <2>1, <2>2, WorldFields DEF TopFits, RunFits
<1>2. ASSUME RunInv, Working("init"), top.trail.operation = "cancel",
             NEW i \in DOMAIN nodes
      PROVE  \E k \in DOMAIN top.trail.visits :
               /\ top.trail.visits[k][2] = i
               /\ \/ top.trail.visits[k][1] = nodes[i].list
                  \/ nodes[i].list > top.trail.since
  <2>1. PICK k \in DOMAIN top.trail.visits : top.trail.visits[k][2] = i
    BY <1>1, <1>2 DEF Indices
  <2> QED BY <2>1, <1>1, <1>2, WorldFields DEF Accounted
<1>3. RunInv => ReplacedAfterCancel
  BY <1>2 DEF ReplacedAfterCancel
<1> QED BY <1>3, RunsFit, PTL

\* A run comes back to the node it visited last, when all the messages of that
\* node have been delivered; its PATH is that of its own nodes unless another run
\* has begun meanwhile.
THEOREM ResumesInPlace == Spec => []ResumesWhereItStopped
<1>1. ASSUME RunInv, Working("process"), item.previous # NONE
      PROVE  /\ \A k \in DOMAIN top.work : top.work[k].kind # "message"
             /\ RunAfter(top.trail, item.operation, item.previous, World)
  <2>1. /\ calls # <<>> /\ top.work # <<>> /\ top.work \in Seq(Items)
        /\ Head(top.work) = item /\ item.kind = "process" /\ top.work[1] = item
        /\ 1 \in 1 .. Len(top.work) /\ Len(top.work) \in Nat \ {0}
    BY <1>1, HandlerFacts
  <2>2. LevelOK(top) /\ RunFits(top, World)
    BY <1>1, <2>1, RunInvFacts
  <2>3. RunAfter(top.trail, item.operation, item.previous, World)
    BY <1>1, <2>1, <2>2 DEF RunFits, CommitsFit
  <2>4. \A k \in 2 .. Len(top.work) : top.work[k].kind = "init"
    BY <2>1, <2>2, RestIsInit DEF LevelOK
  <2>5. \A k \in 1 .. Len(top.work) : k = 1 \/ k \in 2 .. Len(top.work)
    BY <2>1
  <2>6. DOMAIN top.work = 1 .. Len(top.work)
    BY <2>1, LenProperties
  <2> QED BY <2>1, <2>3, <2>4, <2>5, <2>6
<1>2. ASSUME RunInv, Working("process"), item.previous # NONE
      PROVE  /\ item.previous \in DOMAIN nodes
             /\ Last(top.trail.visits)[2] = item.previous
             /\ Last(top.trail.visits)[1] <= nodes[item.previous].list
             /\ top.trail.alone =>
                  path = [k \in DOMAIN top.trail.visits |-> top.trail.visits[k][2]]
  BY <1>1, <1>2, WorldFields DEF RunAfter, Steps
<1>3. RunInv => ResumesWhereItStopped
  BY <1>1, <1>2 DEF ResumesWhereItStopped
<1> QED BY <1>3, RunsFit, PTL

=============================================================================
