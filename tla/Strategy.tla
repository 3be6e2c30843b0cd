------------------------------ MODULE Strategy ------------------------------
(***************************************************************************)
(* The process engine of a strategy contract, behind the manager contract  *)
(* that guards it.                                                         *)
(*                                                                         *)
(* A run walks the stored nodes: each node executed (or cancelled) answers *)
(* with messages, which the chain delivers before the Process message that *)
(* commits the node and goes on to the next.  A message may call any       *)
(* account, and that account may call the manager again in the middle of   *)
(* the run.  As in module Scheduler a transaction is a stack of            *)
(* activations, each an outside account with the work the two contracts    *)
(* still have to do for its present call.  None of that work but the       *)
(* messages of the nodes may fail alone (reply_never, or no reply at all), *)
(* so the responses of the nested calls are kept as one queue.             *)
(*                                                                         *)
(* What an action or a condition does is left to other modules: here it    *)
(* answers with an error, with nothing, or with some messages, and a       *)
(* condition holds or not.                                                 *)
(***************************************************************************)
EXTENDS Integers, Sequences, FiniteSets, SequencesExt

CONSTANTS
  Accounts,     \* accounts outside the two contracts
  OWNER,        \* the owner of the strategy
  Graphs,       \* the node lists that may be proposed, well formed or not
  NONE,         \* an absent edge, and the absence of a previous node
  MaxMessages,  \* bound: the messages one node answers with
  MaxLists,     \* bound: node lists ever stored
  MaxDepth,     \* bound: nesting of activations (gas, in the chain)
  MaxCalls      \* bound: calls to the manager in a transaction (gas again)

Branches == {"on_success", "on_failure"}

Exits == [Branches -> Nat \cup {NONE}]

Gapless(f) == DOMAIN f \subseteq Nat /\ \A i \in DOMAIN f : 0 .. i \subseteq DOMAIN f

\* The exits of the nodes, by index; the two exits of an action are its `next'.
IsNodeList(g) ==
  /\ Gapless(g)
  /\ g \in [DOMAIN g -> Exits]

ASSUME StrategyAssumption ==
  /\ OWNER \in Accounts
  /\ NONE \notin Nat
  /\ \A g \in Graphs : IsNodeList(g)
  /\ MaxMessages \in Nat \ {0}
  /\ MaxLists \in Nat
  /\ MaxDepth \in Nat \ {0}
  /\ MaxCalls \in Nat

\* NodeStore::init refuses an edge that leads beyond the end of the list.
StaysInside(g) ==
  \A i \in DOMAIN g : \A b \in Branches : g[i][b] \in DOMAIN g \cup {NONE}

Leads(g, i, j) == \E b \in Branches : g[i][b] = j

\* What its topological sort accepts: see NodeGraph.
Acyclic(g) ==
  \A S \in SUBSET DOMAIN g :
    S # {} => \E i \in S : \A j \in S : ~Leads(g, i, j)

Operations == {"execute", "cancel"}

Statuses == {"active", "paused", "archived"}

VARIABLES
  nodes,   \* NODES: index -> node
  path,    \* PATH
  status,  \* the manager's record of the strategy, "none" before there is one
  lists,   \* history: the number of node lists stored so far
  calls,   \* the activations of the transaction under way
  left     \* the calls to the manager the transaction may still make

vars == <<nodes, path, status, lists, calls, left>>

\* A node is "sent" from the time its messages are returned until it is
\* committed.  `list' is history: the number of the list it came with.
FreshNode(g, i) ==
  [index |-> i, exits |-> g[i], list |-> lists + 1, stage |-> "ready"]

-----------------------------------------------------------------------------
(* The stack of activations, and the work of the contracts *)

World == [nodes |-> nodes, path |-> path, status |-> status, lists |-> lists]

Restore(w) ==
  /\ nodes' = w.nodes
  /\ path' = w.path
  /\ status' = w.status
  /\ lists' = w.lists

\* `before' is the state when the present call began.  `trail' is history: the
\* nodes the present run has visited, whether no other run began meanwhile, and
\* the number of lists stored when it began.
NoTrail == [operation |-> "none", visits |-> <<>>, alone |-> TRUE, since |-> 0]

Activation(a) ==
  [actor |-> a, work |-> <<>>, before |-> World, saved |-> World, trail |-> NoTrail]

Process(operation, previous) ==
  [kind |-> "process", operation |-> operation, previous |-> previous]

\* A turn of the loop of Process: the node loaded, and the local path.
Visit(operation, node, so_far) ==
  [kind |-> "visit", operation |-> operation, node |-> node, path |-> so_far]

InitNodes(g) == [kind |-> "init", graph |-> g]

Message == [kind |-> "message"]

Depth == Len(calls)

top == calls[Depth]

Running == calls # <<>> /\ top.work = <<>>

Working(kind) == calls # <<>> /\ top.work # <<>> /\ Head(top.work).kind = kind

item == Head(top.work)

\* The item at the head of the work is replaced by what its handler answers with.
AnswersWith(response) == response \o Tail(top.work)

-----------------------------------------------------------------------------
(* Nodes *)

Load(i) == IF i \in DOMAIN nodes THEN <<nodes[i]>> ELSE <<>>

\* Slip: a node is saved after the place it was loaded from.
SaveAfter(node) ==
  [i \in DOMAIN nodes \cup {node.index + 1} |->
     IF i = node.index + 1 THEN node ELSE nodes[i]]

Save(node) == [nodes EXCEPT ![node.index] = node]

\* Slip: cancelling does not step to the node after.
NextNodesStuck(operation, node) ==
  IF operation = "cancel" THEN {Load(node.index)}
                          ELSE {Load(node.exits[b]) : b \in Branches}

\* Slip: cancelling follows the edges too.
NextNodesOfCancel(operation, node) == {Load(node.exits[b]) : b \in Branches}

\* get_next: the node that follows, if there is one, for each outcome a
\* condition may have.  Cancel takes the nodes in the order of the store.
NextNodes(operation, node) ==
  IF operation = "cancel" THEN {Load(node.index + 1)}
                          ELSE {Load(node.exits[b]) : b \in Branches}

VisitNext(operation, next, so_far) ==
  [k \in DOMAIN next |-> Visit(operation, next[k], so_far)]

-----------------------------------------------------------------------------

Init ==
  /\ nodes = [i \in {} |-> NONE]
  /\ path = <<>>
  /\ status = "none"
  /\ lists = 0
  /\ calls = <<>>
  /\ left = 0

Begin(a) ==
  /\ calls = <<>>
  /\ calls' = <<Activation(a)>>
  /\ left' = MaxCalls
  /\ UNCHANGED <<nodes, path, status, lists>>

\* The account on top of the stack calls the manager, which accepts.
Calls(work) ==
  /\ Running
  /\ left > 0
  /\ left' = left - 1
  /\ calls' = [calls EXCEPT ![Depth].work = work, ![Depth].before = World]
  /\ UNCHANGED <<nodes, path, lists>>

Instantiate(g) ==
  /\ status = "none"
  /\ status' = "active"
  /\ Calls(<<InitNodes(g)>>)

Execute ==
  /\ status = "active"
  /\ Calls(<<Process("execute", NONE)>>)
  /\ UNCHANGED status

\* The owner may update the strategy whatever its status.
Update(g) ==
  /\ status # "none"
  /\ Calls(<<Process("cancel", NONE), InitNodes(g)>>)
  /\ top.actor = OWNER
  /\ UNCHANGED status

UpdateStatus(s) ==
  /\ status # "none"
  /\ status' = s
  /\ Calls(<<Process(IF s = "active" THEN "execute" ELSE "cancel", NONE)>>)
  /\ top.actor = OWNER

\* The nodes beyond the end of the new list stay in the store.
Replaced(g) ==
  [i \in DOMAIN nodes \cup DOMAIN g |->
     IF i \in DOMAIN g THEN FreshNode(g, i) ELSE nodes[i]]

\* Slip: the list is stored although an edge leads beyond its end.
StoreListUnchecked ==
  /\ Working("init")
  /\ Acyclic(item.graph)
  /\ lists < MaxLists
  /\ nodes' = Replaced(item.graph)
  /\ lists' = lists + 1
  /\ calls' = [calls EXCEPT ![Depth].work =
                  AnswersWith(<<Process("execute", NONE)>>)]
  /\ UNCHANGED <<path, status, left>>

StoreList ==
  /\ Working("init")
  /\ StaysInside(item.graph)
  /\ Acyclic(item.graph)
  /\ lists < MaxLists
  /\ nodes' = Replaced(item.graph)
  /\ lists' = lists + 1
  /\ calls' = [calls EXCEPT ![Depth].work =
                  AnswersWith(<<Process("execute", NONE)>>)]
  /\ UNCHANGED <<path, status, left>>

StartRun ==
  /\ Working("process")
  /\ item.previous = NONE
  /\ calls' = [l \in DOMAIN calls |->
                 IF l < Depth THEN [calls[l] EXCEPT !.trail.alone = FALSE]
                 ELSE [top EXCEPT
                        !.trail = [operation |-> item.operation,
                                   visits |-> <<>>, alone |-> TRUE,
                                   since |-> lists],
                        !.work = AnswersWith(
                                   VisitNext(item.operation, Load(0), <<>>))]]
  /\ UNCHANGED <<nodes, path, status, lists, left>>

\* The next node is loaded before the previous one is committed and saved.
Resume ==
  /\ Working("process")
  /\ item.previous \in DOMAIN nodes
  /\ LET previous == nodes[item.previous]
     IN /\ nodes' = Save([previous EXCEPT !.stage = "ready"])
        /\ \E next \in NextNodes(item.operation, previous) :
             calls' = [calls EXCEPT ![Depth].work =
                         AnswersWith(VisitNext(item.operation, next, path))]
  /\ UNCHANGED <<path, status, lists, left>>

\* What a turn of the loop leaves behind, whatever its outcome.
Visited(response) ==
  calls' = [calls EXCEPT
             ![Depth].trail.visits = Append(@, <<item.node.list, item.node.index>>),
             ![Depth].work = AnswersWith(response)]

LocalPath == Append(item.path, item.node.index)

\* The node answers with messages: the run waits until they are delivered.
NodeSendsCommitFirst ==  \* slip: the node is committed before its messages
  /\ Working("visit")
  /\ nodes' = Save([item.node EXCEPT !.stage = "sent"])
  /\ path' = LocalPath
  /\ \E n \in 1 .. MaxMessages :
       Visited(<<Process(item.operation, item.node.index)>>
                 \o [k \in 1 .. n |-> Message])
  /\ UNCHANGED <<status, lists, left>>

NodeSendsUncommitted ==  \* slip: a run that cancels does not commit
  /\ Working("visit")
  /\ nodes' = Save([item.node EXCEPT !.stage = "sent"])
  /\ path' = LocalPath
  /\ \E n \in 1 .. MaxMessages :
       Visited([k \in 1 .. n |-> Message]
                 \o IF item.operation = "cancel" THEN <<>>
                    ELSE <<Process(item.operation, item.node.index)>>)
  /\ UNCHANGED <<status, lists, left>>

NodeSends ==
  /\ Working("visit")
  /\ nodes' = Save([item.node EXCEPT !.stage = "sent"])
  /\ path' = LocalPath
  /\ \E n \in 1 .. MaxMessages :
       Visited([k \in 1 .. n |-> Message]
                 \o <<Process(item.operation, item.node.index)>>)
  /\ UNCHANGED <<status, lists, left>>

\* The node answers with nothing: the loop goes on, and nothing commits it.
NodeIsSilent ==
  /\ Working("visit")
  /\ nodes' = Save(item.node)
  /\ \E next \in NextNodes(item.operation, item.node) :
       Visited(VisitNext(item.operation, next, LocalPath))
  /\ UNCHANGED <<path, status, lists, left>>

\* The node answers with an error: it is committed all the same, in a message
\* of its own.
NodeErrs ==
  /\ Working("visit")
  /\ nodes' = Save(item.node)
  /\ path' = LocalPath
  /\ Visited(<<Process(item.operation, item.node.index)>>)
  /\ UNCHANGED <<status, lists, left>>

\* A message of a node reaches an account that may call back.
DeliverMessage(a) ==
  /\ Working("message")
  /\ Depth < MaxDepth
  /\ calls' = Append([calls EXCEPT ![Depth].work = Tail(@)], Activation(a))
  /\ UNCHANGED <<nodes, path, status, lists, left>>

\* It succeeds or fails without calling back: reply ignores which.
AnswerMessage ==
  /\ Working("message")
  /\ calls' = [calls EXCEPT ![Depth].work = Tail(@)]
  /\ UNCHANGED <<nodes, path, status, lists, left>>

\* A handler of the contracts fails: a list is refused, an arithmetic check
\* aborts it, or it runs out of gas.  All that the present call did is undone.
CallFails ==
  /\ \E kind \in {"process", "visit", "init"} : Working(kind)
  /\ Restore(top.before)
  /\ calls' = [calls EXCEPT ![Depth].work = <<>>, ![Depth].trail = NoTrail]
  /\ UNCHANGED left

Return ==
  /\ Running
  /\ calls' = Front(calls)
  /\ UNCHANGED <<nodes, path, status, lists, left>>

\* The failure of a message's target is caught by the reply of the strategy.
FailRetried ==  \* slip: the reply sends the message again
  /\ Running
  /\ Restore(top.saved)
  /\ calls' = IF Depth = 1 THEN <<>>
              ELSE [Front(calls) EXCEPT ![Depth - 1].work = <<Message>> \o @]
  /\ UNCHANGED left

Fail ==
  /\ Running
  /\ Restore(top.saved)
  /\ calls' = Front(calls)
  /\ UNCHANGED left

Transact ==
  \/ \E g \in Graphs : Instantiate(g) \/ Update(g)
  \/ Execute
  \/ \E s \in Statuses : UpdateStatus(s)
  \/ StoreList
  \/ StartRun
  \/ Resume
  \/ NodeSends
  \/ NodeIsSilent
  \/ NodeErrs
  \/ \E a \in Accounts : DeliverMessage(a)
  \/ AnswerMessage
  \/ CallFails
  \/ Return
  \/ Fail

Next == (\E a \in Accounts : Begin(a)) \/ Transact

Spec == Init /\ [][Next]_vars

\* A chain carries the transaction it has begun through to its end.
FairSpec == Spec /\ WF_vars(Transact)

-----------------------------------------------------------------------------
(* Properties *)

Nodes == [index : Nat, exits : Exits, list : 1 .. MaxLists,
          stage : {"ready", "sent"}]

\* The store has no gaps, and each node knows its own index.
StoreOK(store) ==
  /\ Gapless(store)
  /\ store \in [DOMAIN store -> Nodes]
  /\ \A i \in DOMAIN store : store[i].index = i

WorldOK(w) ==
  /\ StoreOK(w.nodes)
  /\ w.path \in Seq(Nat)
  /\ w.status \in Statuses \cup {"none"}
  /\ w.lists \in 0 .. MaxLists

TypeOK ==
  /\ WorldOK(World)
  /\ left \in 0 .. MaxCalls
  /\ Depth <= MaxDepth
  /\ \A l \in DOMAIN calls :
       /\ calls[l].actor \in Accounts
       /\ WorldOK(calls[l].before) /\ WorldOK(calls[l].saved)

AcyclicStore(store) ==
  \A S \in SUBSET DOMAIN store :
    S # {} => \E i \in S : \A b \in Branches : store[i].exits[b] \notin S

\* No set of stored nodes leads only to itself: the store stays acyclic, with
\* the nodes that shorter lists have left behind in it, although only the list
\* proposed is ever sorted.  A node left behind may lead to a node of the list,
\* but none of the list to it.
StoreAcyclic == AcyclicStore(nodes)

\* No run visits a node of one list twice, even when the list is replaced by a
\* call in the middle of the run.
VisitOnce ==
  \A l \in DOMAIN calls : IsInjective(calls[l].trail.visits)

\* The node the loop works on is the node in the store: what it saves undoes no
\* change made since the node was loaded.
LoadedIsStored ==
  Working("visit") => item.node = nodes[item.node.index]

\* A node whose messages were sent will be committed, however calls nest and
\* whatever fails: a Process message for it is on its way.
CommitIsDue ==
  \A i \in DOMAIN nodes :
    nodes[i].stage = "sent" =>
      \E l \in DOMAIN calls : \E k \in DOMAIN calls[l].work :
        /\ calls[l].work[k].kind = "process"
        /\ calls[l].work[k].previous = i

\* Update replaces the nodes only after it has cancelled every one of them, those
\* that no edge leads to any more included.  A call made by a message of a node it
\* cancels may have stored another list meanwhile: only nodes of such a list, in
\* the places that the run had already been to, are replaced without having been
\* cancelled themselves.
ReplacedAfterCancel ==
  Working("init") /\ top.trail.operation = "cancel" =>
    \A i \in DOMAIN nodes : \E k \in DOMAIN top.trail.visits :
      /\ top.trail.visits[k][2] = i
      /\ \/ top.trail.visits[k][1] = nodes[i].list
         \/ nodes[i].list > top.trail.since

\* A run resumes at the node it visited last, and only when all the messages of
\* that node have been delivered.  A call made by one of them may have replaced
\* the node by that of a later list, never brought back that of an earlier one.
\* The path it picks up is that of the nodes it visited, unless another run came
\* in between: there is one PATH for all of them.
ResumesWhereItStopped ==
  Working("process") /\ item.previous # NONE =>
    /\ \A k \in DOMAIN top.work : top.work[k].kind # "message"
    /\ item.previous \in DOMAIN nodes
    /\ LET last == Last(top.trail.visits)
       IN last[2] = item.previous /\ last[1] <= nodes[item.previous].list
    /\ top.trail.alone =>
         path = [k \in DOMAIN top.trail.visits |-> top.trail.visits[k][2]]

\* The documentation of the statuses: execution is suspended unless the strategy
\* is active.
ExecutesOnlyWhenActive ==
  Working("visit") /\ item.operation = "execute" => status = "active"

\* No chain of nodes, edges, updates and calls keeps a transaction from ending.
TransactionEnds == calls # <<>> ~> calls = <<>>

=============================================================================
