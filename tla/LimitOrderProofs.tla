--------------------------- MODULE LimitOrderProofs ---------------------------
(***************************************************************************)
(* Whatever the pair refuses and however prices move, no order of a        *)
(* strategy is orphaned, cancelling every node leaves none, and a node has *)
(* forgotten an order that is gone when its turn is over.  The coins of    *)
(* the strategy cover every message as it is delivered, no amount is ever  *)
(* negative, and the orders are what the nodes are configured to place.    *)
(***************************************************************************)
EXTENDS LimitOrder, SequenceTheorems, FiniteSetTheorems, TLAPS

-----------------------------------------------------------------------------
(* The work of a run, one item in front of the others *)

Cons(x, s) == <<x>> \o s

IsWork(s) == \E S : s \in Seq(S)

LEMMA ConsProperties ==
  ASSUME NEW x, NEW s, IsWork(s)
  PROVE  /\ IsWork(Cons(x, s))
         /\ Cons(x, s) # <<>>
         /\ Head(Cons(x, s)) = x
         /\ Tail(Cons(x, s)) = s
<1>1. PICK S : s \in Seq(S)
  BY DEF IsWork
<1> DEFINE T == S \cup {x}
           c == <<x>> \o s
<1>2. <<x>> \in Seq(T) /\ Len(<<x>>) = 1 /\ <<x>>[1] = x
  OBVIOUS
<1>3. s \in Seq(T)
  BY <1>1, SeqMonotonic
<1> HIDE DEF T
<1>4. /\ c \in Seq(T)
      /\ Len(c) = 1 + Len(s)
      /\ \A i \in 1 .. Len(c) : c[i] = IF i <= 1 THEN <<x>>[i] ELSE s[i - 1]
  BY <1>2, <1>3, ConcatProperties
<1>5. Len(s) \in Nat /\ s \in [1 .. Len(s) -> T]
  BY <1>3, LenProperties
<1>6. c # <<>> /\ c[1] = x
  BY <1>2, <1>4, <1>5, EmptySeq
<1>7. /\ Head(c) = c[1]
      /\ Tail(c) \in Seq(T)
      /\ Len(Tail(c)) = Len(c) - 1
      /\ \A i \in 1 .. Len(Tail(c)) : Tail(c)[i] = c[i + 1]
  BY <1>4, <1>6, HeadTailProperties
<1>8. Tail(c) = s
  <2>1. Len(Tail(c)) = Len(s)
    BY <1>4, <1>5, <1>7
  <2>2. ASSUME NEW i \in 1 .. Len(s) PROVE Tail(c)[i] = s[i]
    BY <1>2, <1>4, <1>5, <1>7, <2>1
  <2> QED BY <1>3, <1>7, <2>1, <2>2, SeqEqual
<1> QED BY <1>4, <1>6, <1>7, <1>8 DEF Cons, IsWork

LEMMA EmptyWork == IsWork(<<>>)
  BY EmptySeq DEF IsWork

\* The sequences that the actions write, as items in front of others.
LEMMA ConsOne ==
  ASSUME NEW s, IsWork(s), NEW x
  PROVE  /\ <<>> \o s = s
         /\ <<x>> = Cons(x, <<>>)
<1>1. PICK S : s \in Seq(S)
  BY DEF IsWork
<1>2. <<>> \o s = s
  BY <1>1, ConcatEmptySeq
<1>3. <<x>> \in Seq({x})
  OBVIOUS
<1>4. <<x>> \o <<>> = <<x>>
  BY <1>3, ConcatEmptySeq
<1> QED BY <1>2, <1>4 DEF Cons

LEMMA PairOf ==
  ASSUME NEW x, NEW y
  PROVE  <<x>> \o <<y>> = <<x, y>>
<1> DEFINE c == <<x>> \o <<y>>
           T == {x, y}
<1>1. <<x>> \in Seq(T) /\ <<y>> \in Seq(T)
  OBVIOUS
<1>2. /\ c \in Seq(T)
      /\ Len(c) = Len(<<x>>) + Len(<<y>>)
      /\ \A i \in 1 .. Len(c) :
           c[i] = IF i <= Len(<<x>>) THEN <<x>>[i] ELSE <<y>>[i - Len(<<x>>)]
  BY <1>1, ConcatProperties
<1>3. Len(<<x>>) = 1 /\ <<x>>[1] = x /\ Len(<<y>>) = 1 /\ <<y>>[1] = y
  OBVIOUS
<1>4. Len(c) = 2 /\ c[1] = x /\ c[2] = y
  BY <1>2, <1>3
<1>5. /\ <<x, y>> \in Seq(T) /\ Len(<<x, y>>) = 2
      /\ <<x, y>>[1] = x /\ <<x, y>>[2] = y
  OBVIOUS
<1> HIDE DEF c
<1>6. \A i \in 1 .. 2 : c[i] = <<x, y>>[i]
  BY <1>4, <1>5
<1> QED BY <1>2, <1>4, <1>5, <1>6, SeqEqual DEF c

LEMMA ConsTwo ==
  ASSUME NEW s, IsWork(s), NEW x, NEW y
  PROVE  /\ <<x, y>> = Cons(x, Cons(y, <<>>))
         /\ Append(<<x>>, y) \o s = Cons(x, Cons(y, s))
<1>1. PICK S : s \in Seq(S)
  BY DEF IsWork
<1> DEFINE T == S \cup {x, y}
<1>2. x \in T /\ y \in T /\ s \in Seq(T)
  BY <1>1, SeqMonotonic
<1> HIDE DEF T
<1>3. <<x>> \in Seq(T) /\ <<y>> \in Seq(T)
  BY <1>2
<1>4. Append(<<x>>, y) = <<x>> \o <<y>>
  BY <1>2, <1>3, AppendIsConcat
<1>5. (<<x>> \o <<y>>) \o s = <<x>> \o (<<y>> \o s)
  BY <1>2, <1>3, ConcatAssociative
<1>6. <<x, y>> = Cons(x, Cons(y, <<>>))
  BY PairOf, ConsOne, EmptyWork DEF Cons
<1> QED BY <1>4, <1>5, <1>6 DEF Cons

LEMMA ConsThree ==
  ASSUME NEW s, IsWork(s), NEW x, NEW y, NEW z
  PROVE  Append(<<x>> \o <<y>>, z) \o s = Cons(x, Cons(y, Cons(z, s)))
<1>1. PICK S : s \in Seq(S)
  BY DEF IsWork
<1> DEFINE T == S \cup {x, y, z}
<1>2. x \in T /\ y \in T /\ z \in T /\ s \in Seq(T)
  BY <1>1, SeqMonotonic
<1> HIDE DEF T
<1>3. <<x>> \in Seq(T) /\ <<y>> \in Seq(T) /\ <<z>> \in Seq(T)
  BY <1>2
<1>4. <<x>> \o <<y>> \in Seq(T) /\ <<z>> \o s \in Seq(T)
  BY <1>2, <1>3, ConcatProperties
<1>5. Append(<<x>> \o <<y>>, z) = (<<x>> \o <<y>>) \o <<z>>
  BY <1>2, <1>4, AppendIsConcat
<1>6. ((<<x>> \o <<y>>) \o <<z>>) \o s = (<<x>> \o <<y>>) \o (<<z>> \o s)
  BY <1>2, <1>3, <1>4, ConcatAssociative
<1>7. (<<x>> \o <<y>>) \o (<<z>> \o s) = <<x>> \o (<<y>> \o (<<z>> \o s))
  BY <1>3, <1>4, ConcatAssociative
<1> QED BY <1>5, <1>6, <1>7 DEF Cons

-----------------------------------------------------------------------------
(* The inductive invariant *)

NodesOK ==
  \E n \in Nat \ {0} :
    /\ DOMAIN nodes = 1 .. n
    /\ count \in 1 .. n
    /\ \A i \in 1 .. n :
         nodes[i] = [config |-> nodes[i].config, current |-> nodes[i].current]

RunOK ==
  run = [operation |-> run.operation, work |-> run.work, placed |-> run.placed]

Cleared(i) == Holds(i) => ~Exists(i)

\* While the nodes are cancelled, those up to the i-th have no order any more.
ClearedTo(i) ==
  run.operation = "cancel" => \A j \in DOMAIN nodes : j <= i => Cleared(j)

AllCleared ==
  run.operation = "cancel" => \A j \in DOMAIN nodes : Cleared(j)

\* What is left to do when the nodes are done.
Accepted == {g \in Lists : \A i \in DOMAIN g : Initialises(g[i])}

Rest(s) ==
  \/ s = <<>>
  \/ /\ run.operation = "cancel"
     /\ \E g \in Accepted : s = Cons(ReplaceWith(g), <<>>)

Visiting(i, s) ==
  /\ run.work = Cons(Visit(i), s)
  /\ ClearedTo(i - 1)

Committing(i, s) ==
  /\ run.work = Cons(Commit(i), s)
  /\ ClearedTo(i)

\* The last message of a node sets or withdraws the order it remembers.
Setting(i, s, m) ==
  /\ run.work = Cons(m, Cons(Commit(i), s))
  /\ m.kind = "order" /\ m.key = Key(i) /\ Holds(i)
  /\ run.operation = "cancel" => m.offer = 0
  /\ ClearedTo(i - 1)

\* The one before it withdraws the order the node remembered until now.
Withdrawn(i, s, o, m) ==
  /\ run.work = Cons(o, Cons(m, Cons(Commit(i), s)))
  /\ o.kind = "order" /\ o.offer = 0
  /\ m.kind = "order" /\ m.key = Key(i) /\ Holds(i)
  /\ run.operation # "cancel"

Turn(i, s) ==
  \/ Visiting(i, s)
  \/ Committing(i, s)
  \/ \E m : Setting(i, s, m)
  \/ \E o, m : Withdrawn(i, s, o, m)

WorkOK ==
  \/ Rest(run.work) /\ AllCleared
  \/ \E i \in DOMAIN nodes : \E s : Rest(s) /\ Turn(i, s)

Remembered(key) == \E i \in DOMAIN nodes : Holds(i) /\ Key(i) = key

\* Only the message that is delivered next may have to withdraw an order that
\* no node remembers.
TrackedNow ==
  \A key \in DOMAIN book :
    \/ Remembered(key)
    \/ Working("order") /\ item.key = key /\ item.offer = 0

IInv == NodesOK /\ RunOK /\ WorkOK /\ TrackedNow

-----------------------------------------------------------------------------
(* What the head of the work says *)

LEMMA RestIsWork ==
  ASSUME NEW s, Rest(s)
  PROVE  /\ IsWork(s)
         /\ s # <<>> => Head(s).kind = "replace" /\ Tail(s) = <<>>
                        /\ run.operation = "cancel" /\ Head(s).list \in Accepted
<1>1. CASE s = <<>>
  BY <1>1, EmptyWork
<1>2. CASE /\ run.operation = "cancel"
           /\ \E g \in Accepted : s = Cons(ReplaceWith(g), <<>>)
  <2>1. PICK g \in Accepted : s = Cons(ReplaceWith(g), <<>>)
    BY <1>2
  <2>2. IsWork(s) /\ Head(s) = ReplaceWith(g) /\ Tail(s) = <<>>
    BY <2>1, EmptyWork, ConsProperties
  <2> QED BY <1>2, <2>2 DEF ReplaceWith
<1> QED BY <1>1, <1>2 DEF Rest

Heads(i, s) ==
  /\ Rest(s) /\ IsWork(s)
  /\ Turn(i, s)
  /\ Visiting(i, s) => item = Visit(i) /\ Tail(run.work) = s
  /\ Committing(i, s) => item = Commit(i) /\ Tail(run.work) = s
  /\ \A m : Setting(i, s, m) =>
              item = m /\ Tail(run.work) = Cons(Commit(i), s)
  /\ \A o, m : Withdrawn(i, s, o, m) =>
                 item = o /\ Tail(run.work) = Cons(m, Cons(Commit(i), s))

\* One node has its turn, and the head of the work tells how far it is with it.
LEMMA TurnOfWork ==
  ASSUME IInv, run.work # <<>>, item.kind # "replace"
  PROVE  \E i \in DOMAIN nodes : \E s : Heads(i, s)
<1>1. ~Rest(run.work)
  BY RestIsWork DEF item
<1>2. PICK i \in DOMAIN nodes : \E s : Rest(s) /\ Turn(i, s)
  BY <1>1 DEF IInv, WorkOK
<1>3. PICK s : Rest(s) /\ Turn(i, s)
  BY <1>2
<1>4. IsWork(s)
  BY <1>3, RestIsWork
<1>5. IsWork(Cons(Commit(i), s))
  BY <1>4, ConsProperties
<1>6. ASSUME NEW m, NEW t, IsWork(t), run.work = Cons(m, t)
      PROVE  item = m /\ Tail(run.work) = t
  BY <1>6, ConsProperties DEF item
<1>7. /\ Visiting(i, s) => item = Visit(i) /\ Tail(run.work) = s
      /\ Committing(i, s) => item = Commit(i) /\ Tail(run.work) = s
  BY <1>4, <1>6 DEF Visiting, Committing
<1>8. ASSUME NEW m, Setting(i, s, m)
      PROVE  item = m /\ Tail(run.work) = Cons(Commit(i), s)
  BY <1>5, <1>6, <1>8 DEF Setting
<1>9. ASSUME NEW o, NEW m, Withdrawn(i, s, o, m)
      PROVE  item = o /\ Tail(run.work) = Cons(m, Cons(Commit(i), s))
  <2>1. IsWork(Cons(m, Cons(Commit(i), s)))
    BY <1>5, ConsProperties
  <2> QED BY <2>1, <1>6, <1>9 DEF Withdrawn
<1> QED BY <1>3, <1>4, <1>7, <1>8, <1>9 DEF Heads

LEMMA VisitWork ==
  ASSUME IInv, Working("visit")
  PROVE  \E i \in DOMAIN nodes : \E s :
           /\ Rest(s) /\ IsWork(s) /\ ClearedTo(i - 1)
           /\ item.node = i /\ Tail(run.work) = s
<1>0. PICK i \in DOMAIN nodes : \E s : Heads(i, s)
  BY TurnOfWork DEF Working
<1>1. PICK s : Heads(i, s)
  BY <1>0
<1>2. Visiting(i, s)
  BY <1>1 DEF Heads, Turn, Working, Commit, Setting, Withdrawn
<1> QED BY <1>1, <1>2 DEF Heads, Visiting, Visit

LEMMA CommitWork ==
  ASSUME IInv, Working("commit")
  PROVE  \E i \in DOMAIN nodes : \E s :
           /\ Rest(s) /\ IsWork(s) /\ ClearedTo(i)
           /\ item.node = i /\ Tail(run.work) = s
<1>0. PICK i \in DOMAIN nodes : \E s : Heads(i, s)
  BY TurnOfWork DEF Working
<1>1. PICK s : Heads(i, s)
  BY <1>0
<1>2. Committing(i, s)
  BY <1>1 DEF Heads, Turn, Working, Visit, Setting, Withdrawn
<1> QED BY <1>1, <1>2 DEF Heads, Committing, Commit

\* A message that is not the node's last is the withdrawal of what it held.
LEMMA OrderWork ==
  ASSUME IInv, Working("order")
  PROVE  \E i \in DOMAIN nodes : \E s :
           /\ Rest(s) /\ IsWork(s)
           /\ \/ /\ Setting(i, s, item)
                 /\ Tail(run.work) = Cons(Commit(i), s)
              \/ \E m : /\ Withdrawn(i, s, item, m)
                        /\ Tail(run.work) = Cons(m, Cons(Commit(i), s))
<1>0. PICK i \in DOMAIN nodes : \E s : Heads(i, s)
  BY TurnOfWork DEF Working
<1>1. PICK s : Heads(i, s)
  BY <1>0
<1>2. ~Visiting(i, s) /\ ~Committing(i, s)
  BY <1>1 DEF Heads, Working, Visit, Commit
<1> QED BY <1>1, <1>2 DEF Heads, Turn

LEMMA ReplaceWork ==
  ASSUME IInv, Working("replace")
  PROVE  Rest(run.work) /\ AllCleared /\ run.operation = "cancel"
         /\ item.list \in Accepted
<1>1. ASSUME NEW i \in DOMAIN nodes, NEW s, Rest(s), Turn(i, s)
      PROVE  FALSE
  <2>1. IsWork(s)
    BY <1>1, RestIsWork
  <2>2. IsWork(Cons(Commit(i), s))
    BY <2>1, ConsProperties
  <2>3. ASSUME NEW m, NEW t, IsWork(t), run.work = Cons(m, t) PROVE item = m
    BY <2>3, ConsProperties DEF item
  <2>4. ~Visiting(i, s) /\ ~Committing(i, s)
    BY <2>1, <2>3 DEF Visiting, Committing, Working, Visit, Commit
  <2>5. \A m : ~Setting(i, s, m)
    BY <2>2, <2>3 DEF Setting, Working
  <2>6. ASSUME NEW o, NEW m, Withdrawn(i, s, o, m) PROVE FALSE
    <3>1. IsWork(Cons(m, Cons(Commit(i), s)))
      BY <2>2, ConsProperties
    <3> QED BY <2>6, <3>1, <2>3 DEF Withdrawn, Working
  <2> QED BY <1>1, <2>4, <2>5, <2>6 DEF Turn
<1>2. Rest(run.work) /\ AllCleared
  BY <1>1 DEF IInv, WorkOK
<1> QED BY <1>2, RestIsWork DEF Working, item

-----------------------------------------------------------------------------
(* Steps of the work *)

LEMMA Answers ==
  ASSUME IInv, NEW r, AnswersWith(r)
  PROVE  /\ RunOK'
         /\ run'.work = r \o Tail(run.work)
         /\ run'.operation = run.operation
BY DEF IInv, RunOK, AnswersWith

LEMMA SameRest ==
  ASSUME NEW s, Rest(s), run'.operation = run.operation
  PROVE  Rest(s)'
BY DEF Rest

\* A node that is done hands over to a later one or ends the run, and when the
\* nodes are cancelled it does not skip any.
LEMMA GoesOnWork ==
  ASSUME IInv, NEW i \in DOMAIN nodes, NEW s, Rest(s), IsWork(s),
         item.node = i, Tail(run.work) = s,
         GoesOn, DOMAIN nodes' = DOMAIN nodes, ClearedTo(i)'
  PROVE  RunOK' /\ WorkOK'
<1>1. PICK n \in Nat \ {0} : DOMAIN nodes = 1 .. n /\ count \in 1 .. n
  BY DEF IInv, NodesOK
<1>2. PICK next \in NextVisits(i) : AnswersWith(next)
  BY DEF GoesOn
<1>3. /\ RunOK'
      /\ run'.work = next \o s
      /\ run'.operation = run.operation
  BY <1>2, Answers
<1>4. Rest(s)'
  BY <1>3, SameRest
<1>5. CASE next = <<>>
  <2>1. run'.work = s
    BY <1>3, <1>5, ConsOne
  <2>2. run.operation = "cancel" => i + 1 \notin DOMAIN nodes
    BY <1>2, <1>5, <1>1, EmptySeq DEF NextVisits
  <2>3. AllCleared'
    BY <1>1, <1>3, <2>2 DEF AllCleared, ClearedTo
  <2> QED BY <1>3, <1>4, <2>1, <2>3 DEF WorkOK
<1>6. CASE next # <<>>
  <2>1. PICK j \in DOMAIN nodes :
          /\ next = <<Visit(j)>>
          /\ run.operation = "cancel" => j = i + 1
    BY <1>1, <1>2, <1>6 DEF NextVisits
  <2>2. run.operation = "cancel" => j = i + 1
    BY <2>1, Zenon
  <2>3. run'.work = Cons(Visit(j), s)
    BY <1>3, <2>1, Zenon DEF Cons
  <2>4. ClearedTo(j - 1)'
    <3>1. CASE run.operation = "cancel"
      <4>1. j - 1 = i
        BY <1>1, <2>2, <3>1
      <4> QED BY <4>1
    <3>2. CASE run.operation # "cancel"
      BY <1>3, <3>2 DEF ClearedTo
    <3> QED BY <3>1, <3>2
  <2>5. Turn(j, s)'
    BY <2>3, <2>4 DEF Turn, Visiting
  <2> QED BY <1>3, <1>4, <2>1, <2>5 DEF WorkOK
<1> QED BY <1>5, <1>6

\* What a node has in store depends on its own record only.
LEMMA Unmoved ==
  ASSUME nodes' = nodes, DOMAIN book' \subseteq DOMAIN book,
         run'.operation = run.operation
  PROVE  /\ \A i : Cleared(i) => Cleared(i)'
         /\ \A i : ClearedTo(i) => ClearedTo(i)'
         /\ AllCleared => AllCleared'
         /\ \A key : Remembered(key) <=> Remembered(key)'
BY DEF Cleared, ClearedTo, AllCleared, Remembered, Holds, Exists, Key

LEMMA ClearedNext ==
  ASSUME NodesOK, NEW i \in DOMAIN nodes, ClearedTo(i - 1),
         run.operation = "cancel" => Cleared(i)
  PROVE  ClearedTo(i)
<1>1. \A j \in DOMAIN nodes : i \in Nat /\ j \in Nat
  BY DEF NodesOK
<1>2. \A j \in DOMAIN nodes : j <= i => j <= i - 1 \/ j = i
  BY <1>1
<1> QED BY <1>2 DEF ClearedTo

LEMMA RememberedUnlessOrder ==
  ASSUME IInv, ~Working("order")
  PROVE  \A key \in DOMAIN book : Remembered(key)
BY DEF IInv, TrackedNow

-----------------------------------------------------------------------------
(* The steps of Next *)

LEMMA StartStep ==
  ASSUME IInv, Execute \/ Cancel \/ \E g \in Lists : Update(g)
  PROVE  IInv'
<1>1. PICK operation \in {"execute", "cancel"} :
        \E s : /\ IsWork(s)
               /\ \/ s = <<>>
                  \/ /\ operation = "cancel"
                     /\ \E g \in Accepted : s = Cons(ReplaceWith(g), <<>>)
               /\ StartsRun(operation, Cons(Visit(1), s))
  <2>1. /\ <<Visit(1)>> = Cons(Visit(1), <<>>)
        /\ \A g : /\ <<Visit(1), ReplaceWith(g)>> = Cons(Visit(1), Cons(ReplaceWith(g), <<>>))
                  /\ IsWork(Cons(ReplaceWith(g), <<>>))
    <3>1. <<Visit(1)>> = Cons(Visit(1), <<>>)
      BY EmptyWork, ConsOne
    <3>2. ASSUME NEW g
          PROVE  /\ <<Visit(1), ReplaceWith(g)>> = Cons(Visit(1), Cons(ReplaceWith(g), <<>>))
                 /\ IsWork(Cons(ReplaceWith(g), <<>>))
      BY EmptyWork, ConsTwo, ConsProperties
    <3> QED BY <3>1, <3>2
  <2>2. CASE Execute
    BY <2>1, <2>2, EmptyWork DEF Execute
  <2>3. CASE Cancel
    BY <2>1, <2>3, EmptyWork DEF Cancel
  <2>4. CASE \E g \in Lists : Update(g)
    BY <2>1, <2>4 DEF Update, Accepted
  <2> QED BY <2>2, <2>3, <2>4
<1>2. PICK s :
        /\ IsWork(s)
        /\ \/ s = <<>>
           \/ /\ operation = "cancel"
              /\ \E g \in Accepted : s = Cons(ReplaceWith(g), <<>>)
        /\ StartsRun(operation, Cons(Visit(1), s))
  BY <1>1
<1>3. /\ nodes' = nodes /\ count' = count /\ book' = book
      /\ run'.operation = operation
      /\ run'.work = Cons(Visit(1), s)
      /\ RunOK'
      /\ Idle
  BY <1>2 DEF StartsRun, RunOK
<1>4. NodesOK'
  BY <1>3 DEF IInv, NodesOK
<1>5. WorkOK'
  <2>1. 1 \in DOMAIN nodes' /\ \A j \in DOMAIN nodes' : ~(j <= 1 - 1)
    BY <1>4 DEF NodesOK
  <2>2. ClearedTo(1 - 1)'
    BY <2>1 DEF ClearedTo
  <2>3. Turn(1, s)'
    BY <1>3, <2>2 DEF Turn, Visiting
  <2>4. Rest(s)'
    BY <1>2, <1>3 DEF Rest
  <2> QED BY <2>1, <2>3, <2>4 DEF WorkOK
<1>6. TrackedNow'
  <2>1. \A key \in DOMAIN book : Remembered(key)
    BY <1>3, RememberedUnlessOrder DEF Idle, Working
  <2> QED BY <1>3, <2>1 DEF TrackedNow, Remembered, Holds, Key
<1> QED BY <1>3, <1>4, <1>5, <1>6 DEF IInv

LEMMA ReplaceStep ==
  ASSUME LimitOrderAssumption, IInv, Replace
  PROVE  IInv'
<1> DEFINE g == item.list
<1>1. /\ AllCleared /\ run.operation = "cancel" /\ g \in Lists
  BY ReplaceWork DEF Replace, Accepted
<1>2. DOMAIN book = {}
  <2>1. \A key \in DOMAIN book : Remembered(key)
    BY RememberedUnlessOrder DEF Replace, Working
  <2> QED BY <1>1, <2>1 DEF AllCleared, Cleared, Remembered, Exists
<1>3. Len(g) \in Nat \ {0} /\ DOMAIN g = 1 .. Len(g)
  <2>1. g \in Seq(Configs) /\ g # <<>>
    BY <1>1 DEF LimitOrderAssumption
  <2> HIDE DEF g
  <2> QED BY <2>1, EmptySeq, LenProperties
<1>4. /\ nodes' = [i \in DOMAIN nodes \cup DOMAIN g |->
                     IF i \in DOMAIN g THEN [config |-> g[i], current |-> NONE]
                                       ELSE nodes[i]]
      /\ count' = Len(g)
      /\ run' = [operation |-> "execute", work |-> <<Visit(1)>>, placed |-> "no"]
      /\ book' = book
  BY DEF Replace
<1> HIDE DEF g
<1>5. NodesOK'
  <2>1. PICK n \in Nat \ {0} :
          /\ DOMAIN nodes = 1 .. n
          /\ \A i \in 1 .. n : nodes[i] = [config |-> nodes[i].config,
                                           current |-> nodes[i].current]
    BY DEF IInv, NodesOK
  <2> DEFINE m == IF n > Len(g) THEN n ELSE Len(g)
  <2>2. m \in Nat \ {0} /\ DOMAIN nodes' = 1 .. m /\ count' \in 1 .. m
    BY <2>1, <1>3, <1>4
  <2>3. ASSUME NEW i \in 1 .. m
        PROVE  nodes'[i] = [config |-> nodes'[i].config,
                            current |-> nodes'[i].current]
    <3>1. CASE i \in DOMAIN g
      BY <3>1, <1>4
    <3>2. CASE i \notin DOMAIN g
      <4>1. i \in 1 .. n /\ nodes'[i] = nodes[i]
        BY <2>1, <1>3, <1>4, <3>2
      <4> QED BY <2>1, <4>1
    <3> QED BY <3>1, <3>2
  <2> QED BY <2>2, <2>3 DEF NodesOK
<1>6. RunOK' /\ run'.operation = "execute" /\ run'.work = Cons(Visit(1), <<>>)
  BY <1>4, EmptyWork, ConsOne DEF RunOK
<1>7. WorkOK'
  <2>1. Turn(1, <<>>)' /\ Rest(<<>>)' /\ 1 \in DOMAIN nodes'
    BY <1>5, <1>6 DEF Turn, Visiting, ClearedTo, Rest, NodesOK
  <2> QED BY <2>1 DEF WorkOK
<1>8. TrackedNow'
  BY <1>2, <1>4 DEF TrackedNow
<1> QED BY <1>5, <1>6, <1>7, <1>8 DEF IInv

LEMMA ErrsStep ==
  ASSUME IInv, NodeErrs
  PROVE  IInv'
<1>1. PICK i \in DOMAIN nodes : \E s :
        /\ Rest(s) /\ IsWork(s) /\ ClearedTo(i - 1)
        /\ item.node = i /\ Tail(run.work) = s
  BY VisitWork DEF NodeErrs
<1>2. PICK s :
        /\ Rest(s) /\ IsWork(s) /\ ClearedTo(i - 1)
        /\ item.node = i /\ Tail(run.work) = s
  BY <1>1
<1>3. nodes' = nodes /\ count' = count /\ book' = book /\ AnswersWith(<<Commit(i)>>)
  BY <1>2 DEF NodeErrs
<1>4. RunOK' /\ run'.work = Cons(Commit(i), s) /\ run'.operation = run.operation
  BY <1>2, <1>3, Answers DEF Cons
<1>5. ClearedTo(i)
  <2>1. run.operation = "cancel" => Cleared(i)
    BY <1>2 DEF NodeErrs, Executing, Lost, Cleared
  <2> QED BY <2>1, <1>2, ClearedNext DEF IInv
<1>6. WorkOK'
  <2>1. Rest(s)' /\ ClearedTo(i)'
    BY <1>2, <1>3, <1>4, <1>5, SameRest, Unmoved
  <2>2. Turn(i, s)'
    BY <2>1, <1>4 DEF Turn, Committing
  <2> QED BY <2>1, <2>2, <1>3 DEF WorkOK
<1>7. TrackedNow'
  <2>1. \A key \in DOMAIN book : Remembered(key)
    BY RememberedUnlessOrder DEF NodeErrs, Working
  <2> QED BY <1>3, <1>4, <2>1, Unmoved DEF TrackedNow
<1> QED BY <1>3, <1>4, <1>6, <1>7 DEF IInv, NodesOK

LEMMA CancelsStep ==
  ASSUME IInv, NodeCancels
  PROVE  IInv'
<1>1. PICK i \in DOMAIN nodes : \E s :
        /\ Rest(s) /\ IsWork(s) /\ ClearedTo(i - 1)
        /\ item.node = i /\ Tail(run.work) = s
  BY VisitWork DEF NodeCancels, Cancelling
<1>2. PICK s :
        /\ Rest(s) /\ IsWork(s) /\ ClearedTo(i - 1)
        /\ item.node = i /\ Tail(run.work) = s
  BY <1>1
<1>3. nodes' = nodes /\ count' = count /\ book' = book
  BY DEF NodeCancels
<1>4. \A key \in DOMAIN book : Remembered(key)
  BY RememberedUnlessOrder DEF NodeCancels, Cancelling, Working
<1>5. NodesOK'
  BY <1>3 DEF IInv, NodesOK
<1>6. CASE Holds(i)
  <2>1. PICK m : m = Order(nodes[i].config.side, nodes[i].current, 0, 0)
    OBVIOUS
  <2>2. AnswersWith(Append(<<m>>, Commit(i)))
    BY <1>2, <1>6, <2>1 DEF NodeCancels, Withdrawal
  <2>3. m.kind = "order" /\ m.key = Key(i) /\ m.offer = 0
    BY <2>1 DEF Order, Key
  <2>4. Append(<<m>>, Commit(i)) \o s = Cons(m, Cons(Commit(i), s))
    BY <1>2, ConsTwo
  <2>5. /\ RunOK' /\ run'.work = Cons(m, Cons(Commit(i), s))
        /\ run'.operation = run.operation
    BY <1>2, <2>2, <2>4, Answers
  <2>6. Rest(s)' /\ ClearedTo(i - 1)'
    BY <1>2, <1>3, <2>5, SameRest, Unmoved
  <2>7. Setting(i, s, m)'
    BY <1>3, <1>6, <2>3, <2>5, <2>6 DEF Setting, Key, Holds
  <2>8. WorkOK'
    BY <1>3, <2>6, <2>7 DEF WorkOK, Turn
  <2>9. TrackedNow'
    BY <1>3, <1>4, <2>5, Unmoved DEF TrackedNow
  <2> QED BY <1>5, <2>5, <2>8, <2>9 DEF IInv
<1>7. CASE ~Holds(i)
  <2>1. GoesOn
    BY <1>2, <1>7 DEF NodeCancels
  <2>2. run'.operation = run.operation
    BY <2>1, Answers DEF GoesOn
  <2>3. ClearedTo(i)
    BY <1>2, <1>7, ClearedNext DEF IInv, Cleared
  <2>4. ClearedTo(i)'
    BY <1>3, <2>2, <2>3, Unmoved
  <2>5. RunOK' /\ WorkOK'
    BY <1>2, <1>3, <2>1, <2>4, GoesOnWork
  <2>6. TrackedNow'
    BY <1>3, <1>4, <2>2, Unmoved DEF TrackedNow
  <2> QED BY <1>5, <2>5, <2>6 DEF IInv
<1> QED BY <1>6, <1>7

\* Forgetting a lost order disturbs no order on the book.
LEMMA CommitsStep ==
  ASSUME IInv, Commits
  PROVE  IInv'
<1>1. PICK i \in DOMAIN nodes : \E s :
        /\ Rest(s) /\ IsWork(s) /\ ClearedTo(i)
        /\ item.node = i /\ Tail(run.work) = s
  BY CommitWork DEF Commits
<1>2. PICK s :
        /\ Rest(s) /\ IsWork(s) /\ ClearedTo(i)
        /\ item.node = i /\ Tail(run.work) = s
  BY <1>1
<1>3. /\ nodes' = IF Lost(i) THEN [nodes EXCEPT ![i].current = NONE] ELSE nodes
      /\ count' = count /\ book' = book /\ GoesOn
  BY <1>2 DEF Commits
<1>4. PICK n \in Nat \ {0} :
        /\ DOMAIN nodes = 1 .. n
        /\ count \in 1 .. n
        /\ \A j \in 1 .. n :
             nodes[j] = [config |-> nodes[j].config, current |-> nodes[j].current]
  BY DEF IInv, NodesOK
<1>5. /\ DOMAIN nodes' = DOMAIN nodes
      /\ \A j \in DOMAIN nodes : j # i \/ ~Lost(i) => nodes'[j] = nodes[j]
      /\ Lost(i) => nodes'[i] = [config |-> nodes[i].config, current |-> NONE]
  BY <1>3, <1>4
<1>6. NodesOK'
  <2>1. ASSUME NEW j \in 1 .. n
        PROVE  nodes'[j] = [config |-> nodes'[j].config,
                            current |-> nodes'[j].current]
    <3>1. CASE j = i /\ Lost(i)
      BY <1>5, <3>1
    <3>2. CASE j # i \/ ~Lost(i)
      BY <1>4, <1>5, <3>2, <2>1
    <3> QED BY <3>1, <3>2
  <2> QED BY <1>3, <1>4, <1>5, <2>1 DEF NodesOK
<1>7. run'.operation = run.operation
  BY <1>3, Answers DEF GoesOn
<1>8. ClearedTo(i)'
  <2>1. ASSUME NEW j \in DOMAIN nodes, Cleared(j) PROVE Cleared(j)'
    BY <2>1, <1>3, <1>5 DEF Cleared, Holds, Exists, Key
  <2> QED BY <1>2, <1>5, <1>7, <2>1 DEF ClearedTo
<1>9. RunOK' /\ WorkOK'
  BY <1>2, <1>3, <1>5, <1>8, GoesOnWork
<1>10. TrackedNow'
  <2> SUFFICES ASSUME NEW key \in DOMAIN book PROVE Remembered(key)'
    BY <1>3 DEF TrackedNow
  <2>1. Remembered(key)
    BY RememberedUnlessOrder DEF Commits, Working
  <2>2. PICK j \in DOMAIN nodes : Holds(j) /\ Key(j) = key
    BY <2>1 DEF Remembered
  <2>3. j # i \/ ~Lost(i)
    BY <2>2 DEF Lost, Exists
  <2> QED BY <2>2, <2>3, <1>5 DEF Remembered, Holds, Key
<1> QED BY <1>6, <1>9, <1>10 DEF IInv

\* What an execution answers: an order that is moved is withdrawn first.
LEMMA ExecutionMessages ==
  ASSUME NEW i
  PROVE  \E w, m :
    /\ w.kind = "order" /\ w.key = Key(i) /\ w.offer = 0 /\ w.funds = 0
    /\ m.kind = "order" /\ m.key = <<nodes[i].config.side, PriceOf(i)>>
    /\ m.offer = OfferOf(i) /\ m.funds = FundingOf(i)
    /\ \/ /\ Messages(i) = <<>> \o <<>>
          /\ ~Withdraws(i) /\ ~Resets(i)
       \/ /\ Messages(i) = <<w>> \o <<>>
          /\ Withdraws(i) /\ ~Resets(i)
       \/ /\ Messages(i) = <<>> \o <<m>>
          /\ ~Withdraws(i)
       \/ /\ Messages(i) = <<w>> \o <<m>>
          /\ Withdraws(i)
<1>1. PICK w : w = Order(nodes[i].config.side, nodes[i].current, 0, 0)
  OBVIOUS
<1>2. PICK m : m = Order(nodes[i].config.side, PriceOf(i), OfferOf(i), FundingOf(i))
  OBVIOUS
<1>3. Withdrawal(i) = <<w>> /\ Placement(i) = <<m>>
  BY <1>1, <1>2 DEF Withdrawal, Placement
<1>4. /\ w.kind = "order" /\ w.key = Key(i) /\ w.offer = 0 /\ w.funds = 0
      /\ m.kind = "order" /\ m.key = <<nodes[i].config.side, PriceOf(i)>>
      /\ m.offer = OfferOf(i) /\ m.funds = FundingOf(i)
  BY <1>1, <1>2 DEF Order, Key
<1>5. /\ Messages(i) = (IF Withdraws(i) THEN <<w>> ELSE <<>>)
           \o (IF FundingOf(i) = 0 /\ ~Resets(i) THEN <<>> ELSE <<m>>)
  BY <1>3 DEF Messages
<1> QED BY <1>4, <1>5, Zenon

LEMMA ExecutesStep ==
  ASSUME IInv, NodeExecutes
  PROVE  IInv'
<1>1. PICK i \in DOMAIN nodes : \E s :
        /\ Rest(s) /\ IsWork(s) /\ ClearedTo(i - 1)
        /\ item.node = i /\ Tail(run.work) = s
  BY VisitWork DEF NodeExecutes, Executing
<1>2. PICK s :
        /\ Rest(s) /\ IsWork(s) /\ ClearedTo(i - 1)
        /\ item.node = i /\ Tail(run.work) = s
  BY <1>1
<1>3. /\ run.operation = "execute"
      /\ NewPrice(nodes[i].config.pricing) # NONE
      /\ nodes' = [nodes EXCEPT ![i].current = PriceOf(i)]
      /\ IF Messages(i) = <<>> THEN GoesOn
         ELSE AnswersWith(Append(Messages(i), Commit(i)))
      /\ count' = count /\ book' = book
  BY <1>2 DEF NodeExecutes, Executing
<1>4. PICK n \in Nat \ {0} :
        /\ DOMAIN nodes = 1 .. n
        /\ count \in 1 .. n
        /\ \A j \in 1 .. n :
             nodes[j] = [config |-> nodes[j].config, current |-> nodes[j].current]
  BY DEF IInv, NodesOK
<1>5. /\ DOMAIN nodes' = DOMAIN nodes
      /\ \A j \in DOMAIN nodes : j # i => nodes'[j] = nodes[j]
      /\ nodes'[i] = [config |-> nodes[i].config, current |-> PriceOf(i)]
  BY <1>3, <1>4
<1>6. NodesOK'
  <2>1. ASSUME NEW j \in 1 .. n
        PROVE  nodes'[j] = [config |-> nodes'[j].config,
                            current |-> nodes'[j].current]
    <3>1. CASE j = i
      BY <1>5, <3>1
    <3>2. CASE j # i
      BY <1>4, <1>5, <3>2, <2>1
    <3> QED BY <3>1, <3>2
  <2> QED BY <1>3, <1>4, <1>5, <2>1 DEF NodesOK
<1>7. PriceOf(i) # NONE
  BY <1>3 DEF PriceOf, Resets, Holds
<1>8. Holds(i)' /\ Key(i)' = <<nodes[i].config.side, PriceOf(i)>>
  BY <1>5, <1>7 DEF Holds, Key
<1>9. ~Resets(i) => Holds(i) /\ Key(i)' = Key(i)
  BY <1>8 DEF Resets, PriceOf, Key
<1>10. run'.operation = "execute"
  BY <1>3, Answers DEF GoesOn
<1>11. Rest(s)' /\ \A j : ClearedTo(j)'
  BY <1>2, <1>3, <1>10, SameRest DEF ClearedTo
\* Every order is remembered as before, but for the one that i moves.
<1>12. ASSUME NEW key \in DOMAIN book
       PROVE  Remembered(key)' \/ (Resets(i) /\ Holds(i) /\ key = Key(i))
  <2>1. Remembered(key)
    BY RememberedUnlessOrder DEF NodeExecutes, Executing, Working
  <2>2. PICK j \in DOMAIN nodes : Holds(j) /\ Key(j) = key
    BY <2>1 DEF Remembered
  <2>3. CASE j = i
    BY <1>5, <1>8, <1>9, <2>2, <2>3 DEF Remembered
  <2>4. CASE j # i
    BY <1>5, <2>2, <2>4 DEF Remembered, Holds, Key
  <2> QED BY <2>3, <2>4
<1>13. PICK w, m :
    /\ w.kind = "order" /\ w.key = Key(i) /\ w.offer = 0 /\ w.funds = 0
    /\ m.kind = "order" /\ m.key = <<nodes[i].config.side, PriceOf(i)>>
    /\ m.offer = OfferOf(i) /\ m.funds = FundingOf(i)
    /\ \/ /\ Messages(i) = <<>> \o <<>>
          /\ ~Withdraws(i) /\ ~Resets(i)
       \/ /\ Messages(i) = <<w>> \o <<>>
          /\ Withdraws(i) /\ ~Resets(i)
       \/ /\ Messages(i) = <<>> \o <<m>>
          /\ ~Withdraws(i)
       \/ /\ Messages(i) = <<w>> \o <<m>>
          /\ Withdraws(i)
  BY ExecutionMessages
<1>14. ASSUME NEW o, o.kind = "order", o.key = Key(i)', Messages(i) = <<o>>,
              ~Resets(i) \/ ~Holds(i)
       PROVE  IInv'
  <2>0. Append(<<o>>, Commit(i)) \o s = Cons(o, Cons(Commit(i), s))
    BY <1>2, ConsTwo
  <2>1. <<o>> # <<>>
    BY ConsOne, ConsProperties, EmptyWork
  <2>2. RunOK' /\ run'.work = Cons(o, Cons(Commit(i), s))
    BY <1>2, <1>3, <1>14, <2>0, <2>1, Answers
  <2>3. Setting(i, s, o)'
    BY <1>8, <1>10, <1>11, <1>14, <2>2 DEF Setting
  <2>4. WorkOK'
    BY <1>5, <1>11, <2>3 DEF WorkOK, Turn
  <2>5. TrackedNow'
    BY <1>3, <1>12, <1>14 DEF TrackedNow
  <2> QED BY <1>6, <2>2, <2>4, <2>5 DEF IInv
<1>15. CASE Messages(i) = <<>> \o <<>> /\ ~Resets(i)
  <2>1. Messages(i) = <<>>
    BY <1>15, ConsOne, EmptyWork
  <2>2. RunOK' /\ WorkOK'
    BY <1>2, <1>3, <1>5, <1>11, <2>1, GoesOnWork
  <2>3. TrackedNow'
    BY <1>3, <1>12, <1>15 DEF TrackedNow
  <2> QED BY <1>6, <2>2, <2>3 DEF IInv
<1>16. CASE Messages(i) = <<w>> \o <<>> /\ ~Resets(i)
  <2>1. Messages(i) = <<w>>
    BY <1>16, ConsOne, EmptyWork DEF Cons
  <2> QED BY <1>9, <1>13, <1>14, <1>16, <2>1
<1>17. CASE Messages(i) = <<>> \o <<m>> /\ ~Withdraws(i)
  <2>1. IsWork(<<m>>)
    BY EmptyWork, ConsOne, ConsProperties
  <2>2. Messages(i) = <<m>>
    BY <1>17, <2>1, ConsOne
  <2> QED BY <1>8, <1>13, <1>14, <1>17, <2>2 DEF Withdraws
<1>18. CASE Messages(i) = <<w>> \o <<m>>
  <2>1. Append(<<w>> \o <<m>>, Commit(i)) \o s = Cons(w, Cons(m, Cons(Commit(i), s)))
    BY <1>2, ConsThree
  <2>2. IsWork(Cons(Commit(i), s)) /\ IsWork(Cons(m, Cons(Commit(i), s)))
    BY <1>2, ConsProperties
  <2>3. Messages(i) # <<>>
    BY <1>18, EmptyWork, ConsOne, ConsProperties DEF Cons
  <2>4. RunOK' /\ run'.work = Cons(w, Cons(m, Cons(Commit(i), s)))
    BY <1>2, <1>3, <1>18, <2>1, <2>3, Answers
  <2>5. Withdrawn(i, s, w, m)'
    BY <1>8, <1>10, <1>13, <2>4 DEF Withdrawn
  <2>6. WorkOK'
    BY <1>5, <1>11, <2>5 DEF WorkOK, Turn
  <2>7. Working("order")' /\ item' = w
    BY <1>13, <2>2, <2>4, ConsProperties DEF Working, item
  <2>8. TrackedNow'
    BY <1>3, <1>12, <1>13, <2>7 DEF TrackedNow
  <2> QED BY <1>6, <2>4, <2>6, <2>8 DEF IInv
<1> QED BY <1>13, <1>15, <1>16, <1>17, <1>18

\* A message that leaves no orphan, when it is delivered or refused: the node is
\* left with its commit, or with the message that sets its new order.
LEMMA MessageStep ==
  ASSUME IInv, Working("order"), nodes' = nodes, count' = count,
         RunOK', run'.operation = run.operation, run'.work = Tail(run.work),
         item.offer = 0 \/ run.operation # "cancel",
         DOMAIN book' \subseteq DOMAIN book
           \cup (IF item.offer = 0 THEN {} ELSE {item.key}),
         item.offer = 0 => item.key \notin DOMAIN book'
  PROVE  IInv'
<1>1. PICK i \in DOMAIN nodes : \E s :
        /\ Rest(s) /\ IsWork(s)
        /\ \/ /\ Setting(i, s, item)
              /\ Tail(run.work) = Cons(Commit(i), s)
           \/ \E m : /\ Withdrawn(i, s, item, m)
                     /\ Tail(run.work) = Cons(m, Cons(Commit(i), s))
  BY OrderWork
<1>2. PICK s :
        /\ Rest(s) /\ IsWork(s)
        /\ \/ /\ Setting(i, s, item)
              /\ Tail(run.work) = Cons(Commit(i), s)
           \/ \E m : /\ Withdrawn(i, s, item, m)
                     /\ Tail(run.work) = Cons(m, Cons(Commit(i), s))
  BY <1>1
<1>3. NodesOK'
  BY DEF IInv, NodesOK
<1>4. Rest(s)'
  BY <1>2, SameRest
<1>5. \A key : Remembered(key) => Remembered(key)'
  BY DEF Remembered, Holds, Key
<1>6. TrackedNow'
  <2> SUFFICES ASSUME NEW key \in DOMAIN book' PROVE Remembered(key)'
    BY DEF TrackedNow
  <2>1. CASE key \in DOMAIN book /\ ~(item.key = key /\ item.offer = 0)
    BY <1>5, <2>1 DEF IInv, TrackedNow
  <2>2. CASE item.key = key /\ item.offer # 0
    <3>1. Setting(i, s, item)
      BY <1>2, <2>2 DEF Withdrawn
    <3>2. Remembered(key)
      BY <2>2, <3>1 DEF Setting, Remembered
    <3> QED BY <1>5, <3>2
  <2> QED BY <2>1, <2>2
<1>7. CASE Setting(i, s, item) /\ Tail(run.work) = Cons(Commit(i), s)
  <2>1. ClearedTo(i)'
    <3>1. CASE run.operation = "cancel"
      <4>1. item.offer = 0 /\ DOMAIN book' \subseteq DOMAIN book
        BY <3>1
      <4>2. Key(i) \notin DOMAIN book'
        BY <1>7, <4>1 DEF Setting
      <4>3. ClearedTo(i - 1)'
        BY <1>7, <4>1, Unmoved DEF Setting
      <4>4. \A j \in DOMAIN nodes : j <= i => j <= i - 1 \/ j = i
        <5>1. \A j \in DOMAIN nodes : i \in Nat /\ j \in Nat
          BY DEF IInv, NodesOK
        <5> QED BY <5>1
      <4>5. Cleared(i)'
        BY <4>2 DEF Cleared, Exists, Key
      <4> QED BY <4>3, <4>4, <4>5 DEF ClearedTo
    <3>2. CASE run.operation # "cancel"
      BY <3>2 DEF ClearedTo
    <3> QED BY <3>1, <3>2
  <2>2. Turn(i, s)'
    BY <1>7, <2>1 DEF Turn, Committing
  <2> QED BY <1>3, <1>4, <1>6, <2>2 DEF IInv, WorkOK
<1>8. ASSUME NEW m, Withdrawn(i, s, item, m),
             Tail(run.work) = Cons(m, Cons(Commit(i), s))
      PROVE  IInv'
  <2>1. Setting(i, s, m)'
    BY <1>8 DEF Withdrawn, Setting, Holds, Key, ClearedTo
  <2>2. Turn(i, s)'
    BY <2>1 DEF Turn
  <2> QED BY <1>3, <1>4, <1>6, <2>2 DEF IInv, WorkOK
<1> QED BY <1>2, <1>7, <1>8

\* The pair never sets an order to something while the nodes are cancelled.
LEMMA CancelSendsWithdrawals ==
  ASSUME IInv, Working("order"), run.operation = "cancel"
  PROVE  item.offer = 0
BY OrderWork DEF Setting, Withdrawn

LEMMA PairStep ==
  ASSUME IInv, PairWithdraws \/ PairSets \/ PairRefuses
  PROVE  IInv'
<1>1. Working("order") /\ nodes' = nodes /\ count' = count
  BY DEF PairWithdraws, PairSets, PairRefuses
<1>2. RunOK' /\ run'.operation = run.operation /\ run'.work = Tail(run.work)
  <2>1. CASE PairWithdraws
    BY <2>1 DEF PairWithdraws, IInv, RunOK
  <2>2. CASE PairRefuses
    BY <2>2 DEF PairRefuses, IInv, RunOK
  <2>3. CASE PairSets
    <3>1. PICK traded : run' = [run EXCEPT !.work = Tail(@),
                                   !.placed = IF traded = 0 THEN "rests" ELSE "no"]
      BY <2>3 DEF PairSets
    <3> QED BY <3>1 DEF IInv, RunOK
  <2> QED BY <2>1, <2>2, <2>3
<1>3. item.offer = 0 \/ run.operation # "cancel"
  BY <1>1, CancelSendsWithdrawals
<1>4. /\ DOMAIN book' \subseteq DOMAIN book
           \cup (IF item.offer = 0 THEN {} ELSE {item.key})
      /\ item.offer = 0 => item.key \notin DOMAIN book'
  <2>1. CASE PairWithdraws
    BY <2>1 DEF PairWithdraws
  <2>2. CASE PairRefuses
    BY <2>2 DEF PairRefuses
  <2>3. CASE PairSets
    <3>0. item.offer > 0
      BY <2>3, Zenon DEF PairSets
    <3>1. item.offer # 0
      BY <3>0
    <3>2. DOMAIN book' \subseteq DOMAIN book \cup {item.key}
      BY <2>3 DEF PairSets
    <3> QED BY <3>1, <3>2
  <2> QED BY <2>1, <2>2, <2>3
<1> QED BY <1>1, <1>2, <1>3, <1>4, MessageStep

\* What happens outside the run, and stuttering.
LEMMA OutsideStep ==
  ASSUME IInv, nodes' = nodes, count' = count, run' = run,
         DOMAIN book' = DOMAIN book
  PROVE  IInv'
<1>1. NodesOK' /\ RunOK'
  BY DEF IInv, NodesOK, RunOK
<1>2. TrackedNow'
  BY DEF IInv, TrackedNow, Remembered, Holds, Key, Working, item
<1>3. \A j : ClearedTo(j) => ClearedTo(j)'
  BY Unmoved
<1>4. ASSUME Rest(run.work), AllCleared
      PROVE  WorkOK'
  <2>1. AllCleared'
    BY <1>4, Unmoved
  <2>2. Rest(run.work)'
    BY <1>4 DEF Rest
  <2> QED BY <2>1, <2>2 DEF WorkOK
<1>5. ASSUME NEW i \in DOMAIN nodes, NEW s, Rest(s), Turn(i, s)
      PROVE  WorkOK'
  <2>1. Rest(s)'
    BY <1>5, SameRest
  <2>2. Turn(i, s)'
    BY <1>3, <1>5 DEF Turn, Visiting, Committing, Setting, Withdrawn, Key, Holds
  <2> QED BY <2>1, <2>2 DEF WorkOK
<1> QED BY <1>1, <1>2, <1>4, <1>5 DEF IInv, WorkOK

-----------------------------------------------------------------------------
(* The theorems *)

LEMMA InitIInv ==
  ASSUME LimitOrderAssumption, Init
  PROVE  IInv
<1>1. PICK g \in Lists : nodes = [i \in DOMAIN g |-> [config |-> g[i], current |-> NONE]]
  BY DEF Init
<1>2. g \in Seq(Configs) /\ g # <<>>
  BY DEF LimitOrderAssumption
<1>3. Len(g) \in Nat \ {0} /\ DOMAIN g = 1 .. Len(g)
  BY <1>2, EmptySeq, LenProperties
<1>4. Len(nodes) = Len(g)
  <2> DEFINE S == {nodes[i] : i \in 1 .. Len(g)}
  <2>1. nodes \in [1 .. Len(g) -> S]
    BY <1>1, <1>3
  <2>2. nodes \in Seq(S)
    BY <1>3, <2>1, IsASeq
  <2>3. DOMAIN nodes = 1 .. Len(nodes) /\ Len(nodes) \in Nat
    BY <2>2, LenProperties
  <2> QED BY <1>1, <1>3, <2>3
<1>5. NodesOK
  <2>1. count \in 1 .. Len(g)
    BY <1>3, <1>4 DEF Init
  <2> QED BY <1>1, <1>3, <2>1 DEF NodesOK
<1>6. /\ run = [operation |-> "none", work |-> <<>>, placed |-> "no"]
      /\ DOMAIN book = {}
  BY DEF Init
<1> QED BY <1>5, <1>6 DEF IInv, RunOK, WorkOK, Rest, AllCleared, TrackedNow

\* Each step of the nodes, of the pair and of the world keeps the invariant.
LEMMA NextIInv ==
  ASSUME LimitOrderAssumption, IInv, [Next]_vars
  PROVE  IInv'
<1>1. CASE Execute \/ Cancel \/ \E g \in Lists : Update(g)
  BY <1>1, StartStep
<1>2. CASE Replace
  BY <1>2, ReplaceStep
<1>3. CASE NodeErrs
  BY <1>3, ErrsStep
<1>4. CASE NodeExecutes
  BY <1>4, ExecutesStep
<1>5. CASE NodeCancels
  BY <1>5, CancelsStep
<1>6. CASE Commits
  BY <1>6, CommitsStep
<1>7. CASE PairWithdraws \/ PairSets \/ PairRefuses
  BY <1>7, PairStep
<1>8. CASE \E key \in DOMAIN book : \E n \in 1 .. MaxCoins : Fill(key, n)
  BY <1>8, OutsideStep DEF Fill
<1>9. CASE \E side \in Sides :
             \/ Deposit(side)
             \/ Withdraw(side)
             \/ \E price \in Quotes \cup {NONE} : MarketMoves(side, price)
  <2>1. nodes' = nodes /\ count' = count /\ run' = run /\ book' = book
    BY <1>9 DEF Deposit, Withdraw, MarketMoves
  <2> QED BY <2>1, OutsideStep
<1>10. CASE UNCHANGED vars
  BY <1>10, OutsideStep DEF vars
<1> QED BY <1>1, <1>2, <1>3, <1>4, <1>5, <1>6, <1>7, <1>8, <1>9, <1>10 DEF Next

LEMMA Invariance == Spec => []IInv
<1>1. Init => IInv
  BY LimitOrderAssumption, InitIInv
<1>2. IInv /\ [Next]_vars => IInv'
  BY LimitOrderAssumption, NextIInv
<1> QED BY <1>1, <1>2, PTL DEF Spec

LEMMA HeadOfWork ==
  ASSUME IInv, Working("order")
  PROVE  item = run.work[1] /\ 1 \in DOMAIN run.work
<1>1. PICK i \in DOMAIN nodes : \E s :
        /\ Rest(s) /\ IsWork(s)
        /\ \/ /\ Setting(i, s, item)
              /\ Tail(run.work) = Cons(Commit(i), s)
           \/ \E m : /\ Withdrawn(i, s, item, m)
                     /\ Tail(run.work) = Cons(m, Cons(Commit(i), s))
  BY OrderWork
<1>2. IsWork(run.work)
  BY <1>1, ConsProperties DEF Setting, Withdrawn
<1>3. PICK S : run.work \in Seq(S)
  BY <1>2 DEF IsWork
<1> QED BY <1>3, HeadTailProperties, EmptySeq, LenProperties DEF Working, item

\* No order is orphaned: whatever placements the pair refuses, however often
\* prices move and whichever nodes share a price, each order on the book is
\* remembered by a node or is about to be withdrawn.
THEOREM NothingOrphaned == Spec => []Tracked
<1>1. IInv => Tracked
  <2> SUFFICES ASSUME IInv, NEW key \in DOMAIN book, ~Remembered(key)
               PROVE  Withdrawing(key)
    BY DEF Tracked, Remembered
  <2>1. Working("order") /\ item.key = key /\ item.offer = 0
    BY DEF IInv, TrackedNow
  <2>2. item = run.work[1] /\ 1 \in DOMAIN run.work
    BY <2>1, HeadOfWork
  <2>3. /\ run.work[1].kind = "order"
        /\ run.work[1].key = key
        /\ run.work[1].offer = 0
    BY <2>1, <2>2, Zenon DEF Working
  <2> QED BY <2>2, <2>3, Zenon DEF Withdrawing
<1> QED BY <1>1, Invariance, PTL

\* When every node has been cancelled no order of the strategy is on the book,
\* neither when the nodes are about to be replaced nor when it is at rest.
THEOREM CancelledForGood == Spec => []CancelledLeavesNothing
<1>1. IInv => CancelledLeavesNothing
  <2> SUFFICES ASSUME IInv, Idle \/ Working("replace"), run.operation = "cancel"
               PROVE  DOMAIN book = {}
    BY DEF CancelledLeavesNothing
  <2>1. AllCleared
    <3>1. CASE Working("replace")
      BY <3>1, ReplaceWork
    <3>2. CASE Idle
      <4>1. ASSUME NEW i \in DOMAIN nodes, NEW s, Rest(s), Turn(i, s)
            PROVE  FALSE
        <5>1. IsWork(s) /\ IsWork(Cons(Commit(i), s))
          BY <4>1, RestIsWork, ConsProperties
        <5>2. \A m, t : IsWork(t) => run.work # Cons(m, t)
          BY <3>2, ConsProperties DEF Idle
        <5>3. \A m : IsWork(Cons(m, Cons(Commit(i), s)))
          BY <5>1, ConsProperties
        <5> QED BY <4>1, <5>1, <5>2, <5>3
                DEF Turn, Visiting, Committing, Setting, Withdrawn
      <4> QED BY <4>1 DEF IInv, WorkOK
    <3> QED BY <3>1, <3>2
  <2>2. \A key \in DOMAIN book : Remembered(key)
    BY RememberedUnlessOrder DEF Working, Idle
  <2> QED BY <2>1, <2>2 DEF AllCleared, Cleared, Remembered, Exists
<1> QED BY <1>1, Invariance, PTL

-----------------------------------------------------------------------------
(* Coins on the book *)

CoinsIn(b, side) ==
  UNION {{key} \X (1 .. Part(side, key, b[key])) : key \in DOMAIN b}

OtherCoins(b, side, key) == {c \in CoinsIn(b, side) : c[1] # key}

\* What the order at a price, if there is one, brings to a side.
PartAt(b, side, key) == IF key \in DOMAIN b THEN Part(side, key, b[key]) ELSE 0

DifferAt(b, d, key) ==
  \A k : k # key => /\ k \in DOMAIN b <=> k \in DOMAIN d
                    /\ k \in DOMAIN b => d[k] = b[k]

LEMMA Coin ==
  ASSUME NEW b, NEW side, NEW c
  PROVE  c \in CoinsIn(b, side) <=>
           \E key \in DOMAIN b : c \in {key} \X (1 .. Part(side, key, b[key]))
BY DEF CoinsIn

LEMMA SplitCoins ==
  ASSUME NEW b, NEW side, NEW key
  PROVE  /\ CoinsIn(b, side) =
              OtherCoins(b, side, key) \cup ({key} \X (1 .. PartAt(b, side, key)))
         /\ OtherCoins(b, side, key) \cap ({key} \X (1 .. PartAt(b, side, key))) = {}
<1> DEFINE own == {key} \X (1 .. PartAt(b, side, key))
<1>1. \A c \in own : c[1] = key
  OBVIOUS
<1>2. OtherCoins(b, side, key) \cap own = {}
  BY <1>1 DEF OtherCoins
<1>3. ASSUME NEW c \in CoinsIn(b, side), c[1] = key PROVE c \in own
  <2>1. PICK k \in DOMAIN b : c \in {k} \X (1 .. Part(side, k, b[k]))
    BY Coin
  <2>2. c[1] = k
    BY <2>1
  <2> QED BY <1>3, <2>1, <2>2 DEF PartAt
<1>4. ASSUME NEW c \in own PROVE c \in CoinsIn(b, side)
  <2>1. CASE key \in DOMAIN b
    BY <2>1, Coin DEF PartAt
  <2>2. CASE key \notin DOMAIN b
    <3>1. 1 .. PartAt(b, side, key) = {}
      BY <2>2 DEF PartAt
    <3> QED BY <3>1
  <2> QED BY <2>1, <2>2
<1>5. ASSUME NEW c PROVE c \in CoinsIn(b, side) <=> c \in OtherCoins(b, side, key) \cup own
  BY <1>3, <1>4 DEF OtherCoins
<1>6. CoinsIn(b, side) = OtherCoins(b, side, key) \cup own
  BY <1>5
<1> QED BY <1>2, <1>6

\* The coins of one order count for themselves.
LEMMA CountCoins ==
  ASSUME NEW b, NEW side, NEW key, PartAt(b, side, key) \in Nat,
         IsFiniteSet(OtherCoins(b, side, key))
  PROVE  /\ IsFiniteSet(CoinsIn(b, side))
         /\ Cardinality(OtherCoins(b, side, key)) \in Nat
         /\ Cardinality(CoinsIn(b, side)) =
              Cardinality(OtherCoins(b, side, key)) + PartAt(b, side, key)
<1> DEFINE n == PartAt(b, side, key)
           O == OtherCoins(b, side, key)
           own == {key} \X (1 .. n)
<1>1. IsFiniteSet(1 .. n) /\ Cardinality(1 .. n) = n
  <2>1. 1 \in Int /\ n \in Int
    OBVIOUS
  <2>2. /\ IsFiniteSet(1 .. n)
        /\ Cardinality(1 .. n) = IF 1 > n THEN 0 ELSE n - 1 + 1
    BY <2>1, FS_Interval
  <2> QED BY <2>2
<1>2. IsFiniteSet({key}) /\ Cardinality({key}) = 1
  BY FS_Singleton
<1> HIDE DEF n
<1>3. /\ IsFiniteSet(own)
      /\ Cardinality(own) = Cardinality({key}) * Cardinality(1 .. n)
  BY <1>1, <1>2, FS_Product
<1>4. Cardinality(own) = n
  BY <1>1, <1>2, <1>3 DEF n
<1> HIDE DEF own, O
<1>5. CoinsIn(b, side) = O \cup own /\ O \cap own = {}
  BY SplitCoins DEF O, own, n
<1>6. IsFiniteSet(O)
  BY DEF O
<1>7. /\ IsFiniteSet(O \cup own)
      /\ Cardinality(O \cup own) =
           Cardinality(O) + Cardinality(own) - Cardinality(O \cap own)
  BY <1>3, <1>6, FS_Union
<1>8. Cardinality(O) \in Nat /\ Cardinality({}) = 0
  BY <1>6, FS_CardinalityType, FS_EmptySet
<1>9. Cardinality(O \cup own) = Cardinality(O) + n
  <2>1. Cardinality(O \cap own) = 0
    BY <1>5, <1>8
  <2>2. n \in Nat
    BY DEF n
  <2> QED BY <1>4, <1>7, <1>8, <2>1, <2>2
<1> QED BY <1>5, <1>7, <1>8, <1>9 DEF O, n

LEMMA SameOtherCoins ==
  ASSUME NEW b, NEW d, NEW side, NEW key, DifferAt(b, d, key)
  PROVE  OtherCoins(d, side, key) = OtherCoins(b, side, key)
<1>1. ASSUME NEW c PROVE c \in OtherCoins(d, side, key) <=> c \in OtherCoins(b, side, key)
  <2>1. ASSUME c \in OtherCoins(b, side, key) PROVE c \in OtherCoins(d, side, key)
    <3>1. PICK k \in DOMAIN b : c \in {k} \X (1 .. Part(side, k, b[k]))
      BY <2>1, Coin DEF OtherCoins
    <3>2. c[1] = k /\ k # key
      BY <2>1, <3>1 DEF OtherCoins
    <3>3. k \in DOMAIN d /\ d[k] = b[k]
      BY <3>2 DEF DifferAt
    <3> QED BY <3>1, <3>2, <3>3, Coin DEF OtherCoins
  <2>2. ASSUME c \in OtherCoins(d, side, key) PROVE c \in OtherCoins(b, side, key)
    <3>1. PICK k \in DOMAIN d : c \in {k} \X (1 .. Part(side, k, d[k]))
      BY <2>2, Coin DEF OtherCoins
    <3>2. c[1] = k /\ k # key
      BY <2>2, <3>1 DEF OtherCoins
    <3>3. k \in DOMAIN b /\ d[k] = b[k]
      BY <3>2 DEF DifferAt
    <3> QED BY <3>1, <3>2, <3>3, Coin DEF OtherCoins
  <2> QED BY <2>1, <2>2
<1> QED BY <1>1

\* A change at one price changes what is on the book by what changes there.
LEMMA CoinsChange ==
  ASSUME NEW b, NEW d, NEW side, NEW key, DifferAt(b, d, key),
         IsFiniteSet(CoinsIn(b, side)),
         PartAt(b, side, key) \in Nat, PartAt(d, side, key) \in Nat
  PROVE  /\ IsFiniteSet(CoinsIn(d, side))
         /\ Cardinality(CoinsIn(b, side)) \in Nat
         /\ Cardinality(CoinsIn(d, side)) \in Nat
         /\ Cardinality(CoinsIn(d, side)) + PartAt(b, side, key) =
              Cardinality(CoinsIn(b, side)) + PartAt(d, side, key)
<1> DEFINE O == OtherCoins(b, side, key)
<1>1. IsFiniteSet(O)
  <2>1. O \in SUBSET CoinsIn(b, side)
    BY DEF OtherCoins
  <2> QED BY <2>1, FS_Subset
<1>2. OtherCoins(d, side, key) = O
  BY SameOtherCoins
<1>3. /\ Cardinality(O) \in Nat
      /\ Cardinality(CoinsIn(b, side)) = Cardinality(O) + PartAt(b, side, key)
  BY <1>1, CountCoins
<1>4. /\ IsFiniteSet(CoinsIn(d, side))
      /\ Cardinality(CoinsIn(d, side)) = Cardinality(O) + PartAt(d, side, key)
  BY <1>1, <1>2, CountCoins
<1> HIDE DEF O
<1> QED BY <1>3, <1>4

LEMMA CoinsOfOne ==
  ASSUME NEW b, NEW side, NEW key, PartAt(b, side, key) \in Nat,
         DOMAIN b \subseteq {key}
  PROVE  Cardinality(CoinsIn(b, side)) = PartAt(b, side, key)
<1>1. OtherCoins(b, side, key) = {}
  <2> SUFFICES ASSUME NEW c \in OtherCoins(b, side, key) PROVE FALSE
    OBVIOUS
  <2>1. PICK k \in DOMAIN b : c \in {k} \X (1 .. Part(side, k, b[k]))
    BY Coin DEF OtherCoins
  <2>2. c[1] = k /\ k # key
    BY <2>1 DEF OtherCoins
  <2> QED BY <2>2
<1>2. IsFiniteSet({}) /\ Cardinality({}) = 0
  BY FS_EmptySet
<1>3. Cardinality(CoinsIn(b, side)) =
        Cardinality(OtherCoins(b, side, key)) + PartAt(b, side, key)
  BY <1>1, <1>2, CountCoins
<1> QED BY <1>1, <1>2, <1>3

-----------------------------------------------------------------------------
(* The invariant of the amounts *)

BookOrders == [offer : Nat, remaining : Nat, filled : Nat]

NodesTyped ==
  /\ nodes \in [DOMAIN nodes -> [config : Configs, current : Nat \cup {NONE}]]
  /\ \A i \in DOMAIN nodes : Initialises(nodes[i].config)

Typed(b) ==
  /\ DOMAIN b \subseteq Sides \X Nat
  /\ \A k \in DOMAIN b : b[k] \in BookOrders
  /\ \A side \in Sides : IsFiniteSet(CoinsIn(b, side))

PurseOK ==
  /\ balance \in [Sides -> Nat]
  /\ market \in [Sides -> Quotes \cup {NONE}]

\* A message computed from the coins there are as it is delivered.
SettingFits(i, m) ==
  /\ m.offer \in {0, OfferOf(i)}
  /\ m.funds = Smaller(balance[nodes[i].config.side], m.offer)

\* One computed from those there will be when the withdrawal before it is.
WithdrawnFits(i, o, m) ==
  /\ o.key \in DOMAIN book /\ o.key[1] = nodes[i].config.side /\ o.funds = 0
  /\ m.offer = OfferOf(i)
  /\ m.funds = Smaller(balance[nodes[i].config.side] + book[o.key].remaining,
                       m.offer)

OrderFits ==
  Working("order") =>
    \E i \in DOMAIN nodes : \E s :
      /\ Rest(s) /\ IsWork(s)
      /\ \/ /\ Setting(i, s, item) /\ SettingFits(i, item)
            /\ Tail(run.work) = Cons(Commit(i), s)
         \/ \E m : /\ Withdrawn(i, s, item, m) /\ WithdrawnFits(i, item, m)
                   /\ Tail(run.work) = Cons(m, Cons(Commit(i), s))

CommitFits ==
  Working("commit") /\ run.placed = "rests" =>
    book[Key(item.node)].remaining = OfferOf(item.node)

InBid(i, n) ==
  nodes[i].config.bid.kind = "fixed" => n <= nodes[i].config.bid.value

\* Each order is within the bid of a node that remembers it, unless it is to be
\* withdrawn at once.
BidsHold ==
  \A key \in DOMAIN book :
    \/ Working("order") /\ item.key = key /\ item.offer = 0
    \/ \E i \in DOMAIN nodes :
         Holds(i) /\ Key(i) = key /\ InBid(i, book[key].remaining)

Fits ==
  /\ NodesTyped /\ Typed(book) /\ PurseOK
  /\ OrderFits /\ CommitFits /\ BidsHold

AmountInv == IInv /\ Fits

-----------------------------------------------------------------------------
(* What the amounts are *)

LEMMA AvailableFacts ==
  ASSUME Typed(book), PurseOK, NEW side \in Sides
  PROVE  /\ Available(side) = balance[side] + Cardinality(CoinsIn(book, side))
         /\ Cardinality(CoinsIn(book, side)) \in Nat
         /\ balance[side] \in Nat /\ Available(side) \in Nat
<1>1. Cardinality(CoinsIn(book, side)) \in Nat
  BY FS_CardinalityType DEF Typed
<1>2. OnBook(side) = CoinsIn(book, side)
  BY DEF OnBook, CoinsIn
<1> QED BY <1>1, <1>2 DEF Available, PurseOK

LEMMA PartFacts ==
  ASSUME NEW b, Typed(b), NEW key, NEW side
  PROVE  /\ PartAt(b, side, key) \in Nat
         /\ key \in DOMAIN b => /\ b[key].remaining \in Nat /\ b[key].filled \in Nat
                                /\ b[key].offer \in Nat
                                /\ key[1] \in Sides /\ key[2] \in Nat
BY DEF Typed, PartAt, Part, BookOrders

LEMMA PercentOfNumber ==
  ASSUME NEW a \in Nat, NEW v \in Nat
  PROVE  /\ Percent(a, v) \in Nat
         /\ v <= 100 => Percent(a, v) <= a
<1> DEFINE p == a * v
           q == p \div 100
<1>1. p \in Nat
  OBVIOUS
<1>2. v <= 100 => p <= a * 100
  BY Z3
<1> HIDE DEF p
<1>3. q \in Nat /\ 100 * q <= p
  BY <1>1
<1> QED BY <1>2, <1>3 DEF Percent, p

\* A bid comes to no more than there is, nor to more than was fixed.
LEMMA OfferBounds ==
  ASSUME NEW config \in Configs, Initialises(config), NEW n \in Nat
  PROVE  /\ FinalOffer(config, n) \in Nat
         /\ FinalOffer(config, n) <= n
         /\ config.bid.kind = "fixed" => FinalOffer(config, n) <= config.bid.value
<1>1. config.bid.value \in Nat /\ config.bid.kind \in {"fixed", "percent"}
  BY DEF Configs, Bids
<1>2. CASE config.bid.kind = "fixed"
  BY <1>1, <1>2 DEF FinalOffer, Smaller
<1>3. CASE config.bid.kind = "percent"
  <2>1. config.bid.value <= 100
    BY <1>1, <1>3 DEF Initialises
  <2>2. FinalOffer(config, n) = Percent(n, config.bid.value)
    BY <1>3 DEF FinalOffer
  <2> QED BY <1>1, <1>3, <2>1, <2>2, PercentOfNumber
<1> QED BY <1>1, <1>2, <1>3

LEMMA NodeFacts ==
  ASSUME NodesTyped, NEW i \in DOMAIN nodes
  PROVE  /\ nodes[i].config \in Configs /\ Initialises(nodes[i].config)
         /\ nodes[i].config.side \in Sides
         /\ nodes[i].current \in Nat \cup {NONE}
         /\ Holds(i) => nodes[i].current \in Nat
         /\ Key(i)[1] = nodes[i].config.side /\ Key(i)[2] = nodes[i].current
BY DEF NodesTyped, Configs, Holds, Key

LEMMA OfferFacts ==
  ASSUME NodesTyped, Typed(book), PurseOK, NEW i \in DOMAIN nodes
  PROVE  /\ OfferOf(i) \in Nat
         /\ OfferOf(i) <= Available(nodes[i].config.side)
         /\ InBid(i, OfferOf(i))
<1>1. /\ nodes[i].config \in Configs /\ Initialises(nodes[i].config)
      /\ Available(nodes[i].config.side) \in Nat
  BY NodeFacts, AvailableFacts
<1> QED BY <1>1, OfferBounds DEF OfferOf, InBid

\* A price that was computed is a price.
LEMMA PriceFacts ==
  ASSUME LimitOrderAssumption, NodesTyped, PurseOK, NEW i \in DOMAIN nodes,
         NewPrice(nodes[i].config.pricing) # NONE
  PROVE  PriceOf(i) \in Nat
<1> DEFINE pricing == nodes[i].config.pricing
<1>1. pricing \in Pricings
  BY NodeFacts DEF Configs
<1> HIDE DEF pricing
<1>2. CASE pricing.kind = "fixed"
  <2>1. NewPrice(pricing) \in Nat
    BY <1>1, <1>2 DEF NewPrice, Pricings
  <2> QED BY <2>1, NodeFacts DEF PriceOf, Resets, pricing
<1>3. CASE pricing.kind = "offset"
  <2>1. /\ pricing.side \in Sides /\ pricing.direction \in {"above", "below"}
        /\ pricing.offset.kind \in {"exact", "percent"}
        /\ pricing.offset.value \in Nat
    BY <1>1, <1>3 DEF Pricings, Offsets
  <2> DEFINE p == market[pricing.side]
  <2>2. NewPrice(pricing) # NONE
    BY DEF pricing
  <2>3. p \in Nat /\ NewPrice(pricing) = Moved(p, pricing.direction, pricing.offset)
    BY <1>3, <2>1, <2>2 DEF NewPrice, PurseOK, LimitOrderAssumption
  <2> HIDE DEF p
  <2> DEFINE v == pricing.offset.value
             d == SatSub(100, v)
  <2>4. v \in Nat /\ d \in Nat /\ 100 + v \in Nat
    BY <2>1 DEF SatSub
  <2>5. Percent(p, d) \in Nat /\ Percent(p, 100 + v) \in Nat
    <3> HIDE DEF d
    <3> QED BY <2>3, <2>4, PercentOfNumber
  <2>6. p + v \in Nat /\ SatSub(p, v) \in Nat
    BY <2>3, <2>4 DEF SatSub
  <2>7. Moved(p, pricing.direction, pricing.offset) \in Nat
    BY <2>1, <2>5, <2>6, Zenon DEF Moved
  <2>8. NewPrice(pricing) \in Nat
    BY <2>3, <2>7
  <2> QED BY <2>8, NodeFacts DEF PriceOf, Resets, pricing
<1> QED BY <1>1, <1>2, <1>3 DEF Pricings

\* What a change at one price and of the balances leaves of the coins there are.
LEMMA AvailableChange ==
  ASSUME Typed(book), Typed(book'), PurseOK, PurseOK', NEW side \in Sides,
         NEW key, DifferAt(book, book', key),
         balance'[side] + PartAt(book', side, key)
           = balance[side] + PartAt(book, side, key)
  PROVE  Available(side)' = Available(side)
<1>1. /\ Available(side) = balance[side] + Cardinality(CoinsIn(book, side))
      /\ Available(side)' = balance'[side] + Cardinality(CoinsIn(book', side))
      /\ balance[side] \in Nat /\ balance'[side] \in Nat
  <2>1. OnBook(side) = CoinsIn(book, side) /\ OnBook(side)' = CoinsIn(book', side)
    BY DEF OnBook, CoinsIn
  <2> QED BY <2>1 DEF Available, PurseOK
<1> DEFINE m == Cardinality(CoinsIn(book, side))
           n == Cardinality(CoinsIn(book', side))
           p == PartAt(book, side, key)
           q == PartAt(book', side, key)
<1>2. p \in Nat /\ q \in Nat
  BY PartFacts
<1>3. m \in Nat /\ n \in Nat /\ n + p = m + q
  BY <1>2, CoinsChange DEF Typed
<1> DEFINE x == balance[side]
           y == balance'[side]
<1>4. x \in Nat /\ y \in Nat /\ y + q = x + p
  BY <1>1
<1> HIDE DEF m, n, p, q, x, y
<1>5. y + n = x + m
  BY <1>2, <1>3, <1>4
<1> QED BY <1>1, <1>5 DEF m, n, x, y

\* A book that differs at one price is a book if the order there is one.
LEMMA TypedChange ==
  ASSUME Typed(book), NEW d, NEW key \in Sides \X Nat, DifferAt(book, d, key),
         key \in DOMAIN d => d[key] \in BookOrders
  PROVE  Typed(d)
<1>1. ASSUME NEW k \in DOMAIN d PROVE k \in Sides \X Nat /\ d[k] \in BookOrders
  <2>1. CASE k = key
    BY <2>1
  <2>2. CASE k # key
    BY <2>2 DEF DifferAt, Typed
  <2> QED BY <2>1, <2>2
<1>2. ASSUME NEW side \in Sides PROVE IsFiniteSet(CoinsIn(d, side))
  <2>1. PartAt(d, side, key) \in Nat
    BY <1>1 DEF PartAt, Part, BookOrders
  <2>2. PartAt(book, side, key) \in Nat
    BY PartFacts
  <2> QED BY <2>1, <2>2, CoinsChange DEF Typed
<1> QED BY <1>1, <1>2 DEF Typed

-----------------------------------------------------------------------------
(* The steps keep the amounts *)

LEMMA HeadOf ==
  ASSUME NEW x, NEW s, IsWork(s), run'.work = Cons(x, s)
  PROVE  /\ item' = x /\ Tail(run'.work) = s
         /\ \A kind : Working(kind)' <=> x.kind = kind
BY ConsProperties DEF Working, item

\* After a node the work is another node, the new list, or none.
LEMMA GoesOnHead ==
  ASSUME IInv, NEW i, item.node = i, NEW s, Rest(s), IsWork(s),
         Tail(run.work) = s, GoesOn
  PROVE  /\ ~Working("order")' /\ ~Working("commit")'
         /\ run'.operation = run.operation
<1>1. PICK next \in NextVisits(i) : AnswersWith(next)
  BY DEF GoesOn
<1>2. run'.work = next \o s /\ run'.operation = run.operation
  BY <1>1, Answers
<1>3. next = <<>> \/ \E j : next = <<Visit(j)>>
  BY <1>1 DEF NextVisits
<1>4. CASE next = <<>>
  <2>1. run'.work = s
    BY <1>2, <1>4, ConsOne
  <2> QED BY <1>2, <2>1, RestIsWork DEF Working, item
<1>5. ASSUME NEW j, next = <<Visit(j)>>
      PROVE  ~Working("order")' /\ ~Working("commit")'
  <2>1. run'.work = Cons(Visit(j), s)
    BY <1>2, <1>5 DEF Cons
  <2>2. Visit(j).kind = "visit"
    BY DEF Visit
  <2> QED BY <2>1, <2>2, HeadOf
<1> QED BY <1>2, <1>3, <1>4, <1>5

LEMMA QuietFits ==
  ASSUME AmountInv, ~Working("order"), ~Working("order")',
         run'.placed = "no" \/ ~Working("commit")',
         nodes' = nodes, Typed(book'), PurseOK', DOMAIN book' = DOMAIN book,
         \A k \in DOMAIN book : book'[k].remaining <= book[k].remaining
  PROVE  Fits'
<1>1. NodesTyped' /\ OrderFits' /\ CommitFits'
  BY DEF AmountInv, Fits, NodesTyped, OrderFits, CommitFits
<1>2. BidsHold'
  <2> SUFFICES ASSUME NEW key \in DOMAIN book
               PROVE  \E i \in DOMAIN nodes :
                        (Holds(i) /\ Key(i) = key /\ InBid(i, book[key].remaining))'
    BY DEF BidsHold
  <2>1. PICK i \in DOMAIN nodes :
          Holds(i) /\ Key(i) = key /\ InBid(i, book[key].remaining)
    BY DEF AmountInv, Fits, BidsHold
  <2>2. /\ book[key].remaining \in Nat /\ book'[key].remaining \in Nat
        /\ book'[key].remaining <= book[key].remaining
    BY DEF AmountInv, Fits, Typed, BookOrders
  <2>3. nodes[i].config.bid.value \in Nat
    BY NodeFacts DEF AmountInv, Fits, Configs, Bids
  <2>4. InBid(i, book[key].remaining)'
    BY <2>1, <2>2, <2>3 DEF InBid
  <2> QED BY <2>1, <2>4 DEF Holds, Key
<1> QED BY <1>1, <1>2 DEF Fits

LEMMA SameAmounts ==
  ASSUME AmountInv, book' = book, balance' = balance, market' = market
  PROVE  /\ Typed(book') /\ PurseOK' /\ DOMAIN book' = DOMAIN book
         /\ \A k \in DOMAIN book : book'[k].remaining <= book[k].remaining
         /\ \A side : Available(side)' = Available(side)
         /\ \A i \in DOMAIN nodes : nodes'[i].config = nodes[i].config
                                      => OfferOf(i)' = OfferOf(i)
<1>1. Typed(book') /\ PurseOK' /\ DOMAIN book' = DOMAIN book
  BY DEF AmountInv, Fits, PurseOK
<1>2. \A k \in DOMAIN book : book'[k].remaining <= book[k].remaining
  <2>1. \A k \in DOMAIN book : book[k].remaining \in Nat
    BY DEF AmountInv, Fits, Typed, BookOrders
  <2> QED BY <2>1
<1>3. \A side : Available(side)' = Available(side)
  BY DEF Available, OnBook
<1> QED BY <1>1, <1>2, <1>3 DEF OfferOf

LEMMA StartFits ==
  ASSUME AmountInv, Execute \/ Cancel \/ \E g \in Lists : Update(g)
  PROVE  Fits'
<1>1. \E operation, s : StartsRun(operation, Cons(Visit(1), s)) /\ IsWork(s)
  <2>1. CASE Execute
    BY <2>1, EmptyWork, ConsOne DEF Execute
  <2>2. CASE Cancel
    BY <2>2, EmptyWork, ConsOne DEF Cancel
  <2>3. ASSUME NEW g \in Lists, Update(g)
        PROVE  \E operation, s : StartsRun(operation, Cons(Visit(1), s)) /\ IsWork(s)
    <3>1. <<Visit(1), ReplaceWith(g)>> = Cons(Visit(1), Cons(ReplaceWith(g), <<>>))
      BY EmptyWork, ConsTwo
    <3>2. IsWork(Cons(ReplaceWith(g), <<>>))
      BY EmptyWork, ConsProperties
    <3> QED BY <2>3, <3>1, <3>2 DEF Update
  <2> QED BY <2>1, <2>2, <2>3
<1>2. PICK operation, s : StartsRun(operation, Cons(Visit(1), s)) /\ IsWork(s)
  BY <1>1
<1>3. /\ run'.work = Cons(Visit(1), s) /\ run'.placed = "no" /\ Idle
      /\ nodes' = nodes /\ book' = book /\ balance' = balance /\ market' = market
  BY <1>2 DEF StartsRun
<1>4. ~Working("order")'
  <2>1. Visit(1).kind = "visit"
    BY DEF Visit
  <2> QED BY <1>2, <1>3, <2>1, HeadOf
<1>5. ~Working("order")
  BY <1>3 DEF Idle, Working
<1> QED BY <1>3, <1>4, <1>5, SameAmounts, QuietFits

LEMMA ReplaceFits ==
  ASSUME LimitOrderAssumption, AmountInv, Replace
  PROVE  Fits'
<1> DEFINE g == item.list
<1>1. /\ AllCleared /\ run.operation = "cancel" /\ g \in Accepted
  BY ReplaceWork DEF Replace, AmountInv
<1>2. DOMAIN book = {}
  <2>1. \A key \in DOMAIN book : Remembered(key)
    BY RememberedUnlessOrder DEF Replace, Working, AmountInv
  <2> QED BY <1>1, <2>1 DEF AllCleared, Cleared, Remembered, Exists
<1>3. g \in Seq(Configs) /\ \A i \in DOMAIN g : Initialises(g[i])
  BY <1>1 DEF LimitOrderAssumption, Accepted
<1>4. /\ nodes' = [i \in DOMAIN nodes \cup DOMAIN g |->
                     IF i \in DOMAIN g THEN [config |-> g[i], current |-> NONE]
                                       ELSE nodes[i]]
      /\ run' = [operation |-> "execute", work |-> <<Visit(1)>>, placed |-> "no"]
      /\ book' = book /\ balance' = balance /\ market' = market
  BY DEF Replace
<1> HIDE DEF g
<1>5. \A i \in DOMAIN g : g[i] \in Configs
  BY <1>3, ElementOfSeq, LenProperties
<1>6. NodesTyped'
  <2>1. ASSUME NEW i \in DOMAIN nodes \cup DOMAIN g
        PROVE  /\ nodes'[i] \in [config : Configs, current : Nat \cup {NONE}]
               /\ Initialises(nodes'[i].config)
    <3>1. CASE i \in DOMAIN g
      BY <3>1, <1>3, <1>4, <1>5
    <3>2. CASE i \notin DOMAIN g
      <4>1. i \in DOMAIN nodes /\ nodes'[i] = nodes[i]
        BY <1>4, <3>2
      <4> QED BY <4>1 DEF AmountInv, Fits, NodesTyped
    <3> QED BY <3>1, <3>2
  <2>2. DOMAIN nodes' = DOMAIN nodes \cup DOMAIN g
    BY <1>4
  <2>3. nodes' \in [DOMAIN nodes' -> [config : Configs, current : Nat \cup {NONE}]]
    BY <1>4, <2>1, <2>2
  <2> QED BY <2>1, <2>2, <2>3 DEF NodesTyped
<1>7. ~Working("order")' /\ ~Working("commit")'
  <2>1. run'.work = Cons(Visit(1), <<>>)
    BY <1>4, EmptyWork, ConsOne
  <2>2. Visit(1).kind = "visit"
    BY DEF Visit
  <2> QED BY <2>1, <2>2, EmptyWork, HeadOf
<1>8. BidsHold'
  BY <1>2, <1>4 DEF BidsHold
<1> QED BY <1>4, <1>6, <1>7, <1>8, SameAmounts DEF Fits, OrderFits, CommitFits

LEMMA ErrsFits ==
  ASSUME AmountInv, NodeErrs
  PROVE  Fits'
<1>1. PICK i \in DOMAIN nodes : \E s :
        /\ Rest(s) /\ IsWork(s) /\ ClearedTo(i - 1)
        /\ item.node = i /\ Tail(run.work) = s
  BY VisitWork DEF NodeErrs, AmountInv
<1>2. PICK s : IsWork(s) /\ item.node = i /\ Tail(run.work) = s
  BY <1>1
<1>3. /\ nodes' = nodes /\ book' = book /\ balance' = balance /\ market' = market
      /\ AnswersWith(<<Commit(i)>>) /\ ~Working("order")
  BY <1>2 DEF NodeErrs, Working
<1>4. run'.work = Cons(Commit(i), s)
  BY <1>2, <1>3, Answers DEF Cons, AmountInv
<1>5. run'.placed = "no"
  BY <1>3 DEF AnswersWith, AmountInv, IInv, RunOK
<1>6. ~Working("order")'
  <2>1. Commit(i).kind = "commit"
    BY DEF Commit
  <2> QED BY <1>2, <1>4, <2>1, HeadOf
<1> QED BY <1>3, <1>5, <1>6, SameAmounts, QuietFits

LEMMA CommitsFits ==
  ASSUME AmountInv, Commits
  PROVE  Fits'
<1>1. PICK i \in DOMAIN nodes : \E s :
        /\ Rest(s) /\ IsWork(s) /\ ClearedTo(i)
        /\ item.node = i /\ Tail(run.work) = s
  BY CommitWork DEF Commits, AmountInv
<1>2. PICK s : Rest(s) /\ IsWork(s) /\ item.node = i /\ Tail(run.work) = s
  BY <1>1
<1>3. /\ nodes' = IF Lost(i) THEN [nodes EXCEPT ![i].current = NONE] ELSE nodes
      /\ book' = book /\ balance' = balance /\ market' = market
      /\ GoesOn /\ ~Working("order")
  BY <1>2 DEF Commits, Working
<1>4. ~Working("order")' /\ ~Working("commit")'
  BY <1>2, <1>3, GoesOnHead DEF AmountInv
<1>5. nodes \in [DOMAIN nodes -> [config : Configs, current : Nat \cup {NONE}]]
  BY DEF AmountInv, Fits, NodesTyped
<1>6. /\ DOMAIN nodes' = DOMAIN nodes
      /\ \A j \in DOMAIN nodes : nodes'[j].config = nodes[j].config
      /\ \A j \in DOMAIN nodes : j # i \/ ~Lost(i) => nodes'[j] = nodes[j]
      /\ nodes' \in [DOMAIN nodes -> [config : Configs, current : Nat \cup {NONE}]]
  BY <1>3, <1>5
<1>7. NodesTyped'
  BY <1>6 DEF AmountInv, Fits, NodesTyped
<1>8. BidsHold'
  <2> SUFFICES ASSUME NEW key \in DOMAIN book
               PROVE  \E j \in DOMAIN nodes' :
                        (Holds(j) /\ Key(j) = key /\ InBid(j, book[key].remaining))'
    BY <1>3 DEF BidsHold
  <2>1. PICK j \in DOMAIN nodes :
          Holds(j) /\ Key(j) = key /\ InBid(j, book[key].remaining)
    BY <1>3 DEF AmountInv, Fits, BidsHold
  <2>2. j # i \/ ~Lost(i)
    BY <2>1 DEF Lost, Exists
  <2> QED BY <2>1, <2>2, <1>3, <1>6 DEF Holds, Key, InBid
<1> QED BY <1>3, <1>4, <1>7, <1>8, SameAmounts DEF Fits, OrderFits, CommitFits

\* A withdrawal carries no coins.
LEMMA CancelsFits ==
  ASSUME AmountInv, NodeCancels
  PROVE  Fits'
<1>1. PICK i \in DOMAIN nodes : \E s :
        /\ Rest(s) /\ IsWork(s) /\ ClearedTo(i - 1)
        /\ item.node = i /\ Tail(run.work) = s
  BY VisitWork DEF NodeCancels, Cancelling, AmountInv
<1>2. PICK s :
        /\ Rest(s) /\ IsWork(s) /\ ClearedTo(i - 1)
        /\ item.node = i /\ Tail(run.work) = s
  BY <1>1
<1>3. /\ nodes' = nodes /\ book' = book /\ balance' = balance /\ market' = market
      /\ ~Working("order")
  BY DEF NodeCancels, Cancelling, Working
<1>4. CASE ~Holds(i)
  <2>1. GoesOn
    BY <1>2, <1>4 DEF NodeCancels
  <2>2. ~Working("order")' /\ ~Working("commit")'
    BY <1>2, <2>1, GoesOnHead DEF AmountInv
  <2> QED BY <1>3, <2>2, SameAmounts, QuietFits
<1>5. CASE Holds(i)
  <2>1. PICK m : m = Order(nodes[i].config.side, nodes[i].current, 0, 0)
    OBVIOUS
  <2>2. AnswersWith(Append(<<m>>, Commit(i)))
    BY <1>2, <1>5, <2>1 DEF NodeCancels, Withdrawal
  <2>3. m.kind = "order" /\ m.key = Key(i) /\ m.offer = 0 /\ m.funds = 0
    BY <2>1 DEF Order, Key
  <2>4. Append(<<m>>, Commit(i)) \o s = Cons(m, Cons(Commit(i), s))
    BY <1>2, ConsTwo
  <2>5. /\ run'.work = Cons(m, Cons(Commit(i), s)) /\ run'.operation = run.operation
    BY <1>2, <2>2, <2>4, Answers DEF AmountInv
  <2>6. Rest(s)' /\ ClearedTo(i - 1)'
    BY <1>2, <1>3, <2>5, SameRest, Unmoved
  <2>7. Setting(i, s, m)'
    BY <1>3, <1>5, <2>3, <2>5, <2>6 DEF Setting, Key, Holds
  <2>8. SettingFits(i, m)'
    <3>1. balance[nodes[i].config.side] \in Nat
      BY NodeFacts DEF AmountInv, Fits, PurseOK
    <3> QED BY <1>3, <2>3, <3>1 DEF SettingFits, Smaller
  <2>9. IsWork(Cons(Commit(i), s))
    BY <1>2, ConsProperties
  <2>10. /\ item' = m /\ Tail(run'.work) = Cons(Commit(i), s)
         /\ ~Working("commit")'
    BY <2>3, <2>5, <2>9, HeadOf
  <2>11. OrderFits'
    BY <1>2, <1>3, <2>6, <2>7, <2>8, <2>10 DEF OrderFits
  <2>12. CommitFits' /\ NodesTyped'
    BY <1>3, <2>10 DEF CommitFits, NodesTyped, AmountInv, Fits
  <2>13. BidsHold'
    <3> SUFFICES ASSUME NEW key \in DOMAIN book
                 PROVE  \E j \in DOMAIN nodes :
                          (Holds(j) /\ Key(j) = key /\ InBid(j, book[key].remaining))'
      BY <1>3 DEF BidsHold
    <3>1. PICK j \in DOMAIN nodes :
            Holds(j) /\ Key(j) = key /\ InBid(j, book[key].remaining)
      BY <1>3 DEF AmountInv, Fits, BidsHold
    <3> QED BY <1>3, <3>1 DEF Holds, Key, InBid
  <2> QED BY <1>3, <2>11, <2>12, <2>13, SameAmounts DEF Fits
<1> QED BY <1>4, <1>5


LEMMA ExecutesFits ==
  ASSUME LimitOrderAssumption, AmountInv, NodeExecutes
  PROVE  Fits'
<1>1. PICK i \in DOMAIN nodes : \E s :
        /\ Rest(s) /\ IsWork(s) /\ ClearedTo(i - 1)
        /\ item.node = i /\ Tail(run.work) = s
  BY VisitWork DEF NodeExecutes, Executing, AmountInv
<1>2. PICK s :
        /\ Rest(s) /\ IsWork(s) /\ ClearedTo(i - 1)
        /\ item.node = i /\ Tail(run.work) = s
  BY <1>1
<1>3. /\ run.operation = "execute" /\ ~Lost(i) /\ ~Working("order")
      /\ NewPrice(nodes[i].config.pricing) # NONE
      /\ nodes' = [nodes EXCEPT ![i].current = PriceOf(i)]
      /\ IF Messages(i) = <<>> THEN GoesOn
         ELSE AnswersWith(Append(Messages(i), Commit(i)))
      /\ book' = book /\ balance' = balance /\ market' = market
  BY <1>2 DEF NodeExecutes, Executing, Working
<1>4. IInv /\ NodesTyped /\ Typed(book) /\ PurseOK /\ BidsHold
  BY DEF AmountInv, Fits
<1>5. nodes \in [DOMAIN nodes -> [config : Configs, current : Nat \cup {NONE}]]
  BY <1>4 DEF NodesTyped
<1>6. PriceOf(i) \in Nat /\ PriceOf(i) # NONE
  BY <1>3, <1>4, PriceFacts DEF LimitOrderAssumption
<1>7. /\ DOMAIN nodes' = DOMAIN nodes
      /\ \A j \in DOMAIN nodes : nodes'[j].config = nodes[j].config
      /\ \A j \in DOMAIN nodes : j # i => nodes'[j] = nodes[j]
      /\ nodes'[i].current = PriceOf(i)
      /\ nodes' \in [DOMAIN nodes -> [config : Configs, current : Nat \cup {NONE}]]
  BY <1>3, <1>5, <1>6
<1>8. NodesTyped'
  BY <1>4, <1>7 DEF NodesTyped
<1>9. Holds(i)' /\ Key(i)' = <<nodes[i].config.side, PriceOf(i)>>
  BY <1>6, <1>7 DEF Holds, Key
<1>10. ~Resets(i) => Holds(i) /\ Key(i)' = Key(i)
  BY <1>9 DEF Resets, PriceOf, Key
<1>11. /\ OfferOf(i)' = OfferOf(i) /\ OfferOf(i) \in Nat
       /\ nodes'[i].config.side = nodes[i].config.side
       /\ balance[nodes[i].config.side] \in Nat
  BY <1>3, <1>4, <1>7, SameAmounts, OfferFacts, NodeFacts DEF PurseOK
\* Every order is within a bid as before, but for the one that i moves.
<1>12. ASSUME NEW key \in DOMAIN book, ~(Resets(i) /\ Holds(i) /\ key = Key(i))
       PROVE  \E j \in DOMAIN nodes' :
                (Holds(j) /\ Key(j) = key /\ InBid(j, book[key].remaining))'
  <2>1. PICK j \in DOMAIN nodes :
          Holds(j) /\ Key(j) = key /\ InBid(j, book[key].remaining)
    BY <1>3, <1>4 DEF BidsHold
  <2>2. InBid(j, book[key].remaining)'
    BY <1>3, <1>7, <2>1 DEF InBid
  <2>3. CASE j = i
    <3>1. Holds(j)' /\ Key(j)' = key
      BY <1>9, <1>10, <1>12, <2>1, <2>3
    <3> QED BY <1>7, <2>2, <3>1
  <2>4. CASE j # i
    BY <1>7, <2>1, <2>2, <2>4 DEF Holds, Key
  <2> QED BY <2>3, <2>4
<1>13. ASSUME ~(Resets(i) /\ Holds(i)) PROVE BidsHold'
  BY <1>3, <1>12, <1>13 DEF BidsHold
<1>14. PICK w, m :
    /\ w.kind = "order" /\ w.key = Key(i) /\ w.offer = 0 /\ w.funds = 0
    /\ m.kind = "order" /\ m.key = <<nodes[i].config.side, PriceOf(i)>>
    /\ m.offer = OfferOf(i) /\ m.funds = FundingOf(i)
    /\ \/ /\ Messages(i) = <<>> \o <<>>
          /\ ~Withdraws(i) /\ ~Resets(i)
       \/ /\ Messages(i) = <<w>> \o <<>>
          /\ Withdraws(i) /\ ~Resets(i)
       \/ /\ Messages(i) = <<>> \o <<m>>
          /\ ~Withdraws(i)
       \/ /\ Messages(i) = <<w>> \o <<m>>
          /\ Withdraws(i)
  BY ExecutionMessages
<1>15. ASSUME NEW o, o.kind = "order", o.key = Key(i)', Messages(i) = <<o>>,
              ~Resets(i) \/ ~Holds(i), SettingFits(i, o)'
       PROVE  Fits'
  <2>0. Append(<<o>>, Commit(i)) \o s = Cons(o, Cons(Commit(i), s))
    BY <1>2, ConsTwo
  <2>1. <<o>> # <<>>
    BY ConsOne, ConsProperties, EmptyWork
  <2>2. /\ run'.work = Cons(o, Cons(Commit(i), s))
        /\ run'.operation = run.operation
    BY <1>2, <1>3, <1>4, <1>15, <2>0, <2>1, Answers
  <2>3. Setting(i, s, o)'
    BY <1>3, <1>9, <1>15, <2>2 DEF Setting, ClearedTo
  <2>4. IsWork(Cons(Commit(i), s))
    BY <1>2, ConsProperties
  <2>5. /\ item' = o /\ Tail(run'.work) = Cons(Commit(i), s)
        /\ ~Working("commit")'
    BY <1>15, <2>2, <2>4, HeadOf
  <2>6. Rest(s)'
    BY <1>2, <2>2, SameRest
  <2>7. OrderFits'
    BY <1>2, <1>7, <1>15, <2>3, <2>5, <2>6 DEF OrderFits
  <2> QED BY <1>3, <1>8, <1>13, <1>15, <2>5, <2>7, SameAmounts DEF Fits, CommitFits
<1>16. CASE Messages(i) = <<>> \o <<>> /\ ~Resets(i)
  <2>1. Messages(i) = <<>>
    BY <1>16, ConsOne, EmptyWork
  <2>2. ~Working("order")' /\ ~Working("commit")'
    BY <1>2, <1>3, <1>4, <2>1, GoesOnHead
  <2> QED BY <1>3, <1>8, <1>13, <1>16, <2>2, SameAmounts
          DEF Fits, OrderFits, CommitFits
<1>17. CASE Messages(i) = <<w>> \o <<>> /\ ~Resets(i)
  <2>1. Messages(i) = <<w>>
    BY <1>17, ConsOne, EmptyWork DEF Cons
  <2>2. SettingFits(i, w)'
    BY <1>3, <1>11, <1>14 DEF SettingFits, Smaller
  <2> QED BY <1>10, <1>14, <1>15, <1>17, <2>1, <2>2
<1>18. CASE Messages(i) = <<>> \o <<m>> /\ ~Withdraws(i)
  <2>1. IsWork(<<m>>)
    BY EmptyWork, ConsOne, ConsProperties
  <2>2. Messages(i) = <<m>>
    BY <1>18, <2>1, ConsOne
  <2>3. m.funds = Smaller(balance[nodes[i].config.side], m.offer)
    BY <1>11, <1>14, <1>18 DEF FundingOf
  <2>4. SettingFits(i, m)'
    BY <1>3, <1>11, <1>14, <2>3 DEF SettingFits
  <2> QED BY <1>9, <1>14, <1>15, <1>18, <2>2, <2>4 DEF Withdraws
<1>19. CASE Messages(i) = <<w>> \o <<m>> /\ Withdraws(i)
  <2>1. Append(<<w>> \o <<m>>, Commit(i)) \o s = Cons(w, Cons(m, Cons(Commit(i), s)))
    BY <1>2, ConsThree
  <2>2. IsWork(Cons(m, Cons(Commit(i), s)))
    BY <1>2, ConsProperties
  <2>3. Messages(i) # <<>>
    BY <1>19, EmptyWork, ConsOne, ConsProperties DEF Cons
  <2>4. /\ run'.work = Cons(w, Cons(m, Cons(Commit(i), s)))
        /\ run'.operation = run.operation
    BY <1>2, <1>3, <1>4, <1>19, <2>1, <2>3, Answers
  <2>5. Withdrawn(i, s, w, m)'
    BY <1>3, <1>9, <1>14, <2>4 DEF Withdrawn
  <2>6. Key(i) \in DOMAIN book /\ Key(i)[1] = nodes[i].config.side
    BY <1>3, <1>19, NodeFacts, <1>4 DEF Withdraws, Lost, Exists
  <2>7. m.funds = Smaller(balance[nodes[i].config.side] + book[Key(i)].remaining, m.offer)
    BY <1>14, <1>19 DEF FundingOf
  <2>8. WithdrawnFits(i, w, m)'
    BY <1>3, <1>11, <1>14, <2>6, <2>7 DEF WithdrawnFits
  <2>9. /\ Working("order")' /\ item' = w /\ ~Working("commit")'
        /\ Tail(run'.work) = Cons(m, Cons(Commit(i), s))
    BY <1>14, <2>2, <2>4, HeadOf
  <2>10. Rest(s)'
    BY <1>2, <2>4, SameRest
  <2>11. OrderFits'
    BY <1>2, <1>7, <2>5, <2>8, <2>9, <2>10 DEF OrderFits
  <2>12. BidsHold'
    BY <1>3, <1>12, <1>14, <2>9 DEF BidsHold
  <2> QED BY <1>3, <1>8, <2>9, <2>11, <2>12, SameAmounts DEF Fits, CommitFits
<1> QED BY <1>14, <1>16, <1>17, <1>18, <1>19

\* A message on its way: the last of its node, or the withdrawal before that.
LEMMA MessageFacts ==
  ASSUME AmountInv, Working("order"), nodes' = nodes, run'.work = Tail(run.work),
         run'.operation = run.operation
  PROVE  \E i \in DOMAIN nodes : \E s :
           /\ Rest(s)' /\ IsWork(s)
           /\ item.kind = "order"
           /\ \/ /\ Setting(i, s, item) /\ SettingFits(i, item)
                 /\ item.key = Key(i)
                 /\ ~Working("order")' /\ item'.node = i
              \/ \E m : /\ WithdrawnFits(i, item, m)
                        /\ item.offer = 0
                        /\ m.kind = "order"
                        /\ Setting(i, s, m)'
                        /\ Tail(run'.work) = Cons(Commit(i), s)
                        /\ item' = m /\ ~Working("commit")'
<1>1. PICK i \in DOMAIN nodes : \E s :
        /\ Rest(s) /\ IsWork(s)
        /\ \/ /\ Setting(i, s, item) /\ SettingFits(i, item)
              /\ Tail(run.work) = Cons(Commit(i), s)
           \/ \E m : /\ Withdrawn(i, s, item, m) /\ WithdrawnFits(i, item, m)
                     /\ Tail(run.work) = Cons(m, Cons(Commit(i), s))
  BY DEF AmountInv, Fits, OrderFits
<1>2. PICK s :
        /\ Rest(s) /\ IsWork(s)
        /\ \/ /\ Setting(i, s, item) /\ SettingFits(i, item)
              /\ Tail(run.work) = Cons(Commit(i), s)
           \/ \E m : /\ Withdrawn(i, s, item, m) /\ WithdrawnFits(i, item, m)
                     /\ Tail(run.work) = Cons(m, Cons(Commit(i), s))
  BY <1>1
<1>3. Rest(s)' /\ IsWork(Cons(Commit(i), s)) /\ item.kind = "order"
  BY <1>2, SameRest, ConsProperties DEF Working
<1>4. Commit(i).kind = "commit" /\ Commit(i).node = i
  BY DEF Commit
<1>5. ASSUME Setting(i, s, item), SettingFits(i, item),
             Tail(run.work) = Cons(Commit(i), s)
      PROVE  item.key = Key(i) /\ ~Working("order")' /\ item'.node = i
  <2>1. run'.work = Cons(Commit(i), s)
    BY <1>5
  <2> QED BY <1>2, <1>4, <1>5, <2>1, HeadOf DEF Setting
<1>6. ASSUME NEW m, Withdrawn(i, s, item, m), WithdrawnFits(i, item, m),
             Tail(run.work) = Cons(m, Cons(Commit(i), s))
      PROVE  /\ item.offer = 0 /\ m.kind = "order" /\ Setting(i, s, m)'
             /\ Tail(run'.work) = Cons(Commit(i), s)
             /\ item' = m /\ ~Working("commit")'
  <2>1. run'.work = Cons(m, Cons(Commit(i), s))
    BY <1>6
  <2>2. item.offer = 0 /\ m.kind = "order"
    BY <1>6 DEF Withdrawn
  <2>3. Setting(i, s, m)'
    BY <1>6, <2>1 DEF Withdrawn, Setting, Holds, Key, ClearedTo
  <2>4. item' = m /\ Tail(run'.work) = Cons(Commit(i), s)
    BY <1>3, <2>1, HeadOf
  <2>5. ~Working("commit")'
    <3>1. item'.kind = "order"
      BY <2>2, <2>4
    <3> QED BY <3>1 DEF Working
  <2> QED BY <2>2, <2>3, <2>4, <2>5
<1> QED BY <1>2, <1>3, <1>5, <1>6

LEMMA WithdrawsFits ==
  ASSUME AmountInv, PairWithdraws
  PROVE  Fits'
<1> DEFINE key == item.key
<1>1. /\ Working("order") /\ key \in DOMAIN book /\ item.offer = 0
      /\ book' = [k \in DOMAIN book \ {key} |-> book[k]]
      /\ balance' = [balance EXCEPT ![key[1]] = @ + book[key].remaining,
                                    ![Other(key[1])] = @ + book[key].filled]
      /\ nodes' = nodes /\ market' = market /\ run'.work = Tail(run.work)
      /\ run'.operation = run.operation /\ run'.placed = "no"
  BY DEF PairWithdraws, AmountInv, IInv, RunOK
<1>2. NodesTyped /\ Typed(book) /\ PurseOK /\ BidsHold
  BY DEF AmountInv, Fits
<1>3. PICK i \in DOMAIN nodes : \E s :
           /\ Rest(s)' /\ IsWork(s)
           /\ item.kind = "order"
           /\ \/ /\ Setting(i, s, item) /\ SettingFits(i, item)
                 /\ item.key = Key(i)
                 /\ ~Working("order")' /\ item'.node = i
              \/ \E m : /\ WithdrawnFits(i, item, m)
                        /\ item.offer = 0
                        /\ m.kind = "order"
                        /\ Setting(i, s, m)'
                        /\ Tail(run'.work) = Cons(Commit(i), s)
                        /\ item' = m /\ ~Working("commit")'
  BY <1>1, MessageFacts
<1>4. PICK s :
           /\ Rest(s)' /\ IsWork(s)
           /\ item.kind = "order"
           /\ \/ /\ Setting(i, s, item) /\ SettingFits(i, item)
                 /\ item.key = Key(i)
                 /\ ~Working("order")' /\ item'.node = i
              \/ \E m : /\ WithdrawnFits(i, item, m)
                        /\ item.offer = 0
                        /\ m.kind = "order"
                        /\ Setting(i, s, m)'
                        /\ Tail(run'.work) = Cons(Commit(i), s)
                        /\ item' = m /\ ~Working("commit")'
  BY <1>3
<1> HIDE DEF key
<1>5. /\ key[1] \in Sides /\ key \in Sides \X Nat
      /\ book[key].remaining \in Nat /\ book[key].filled \in Nat
  BY <1>1, <1>2, PartFacts DEF Typed
<1>6. Other(key[1]) \in Sides /\ Other(key[1]) # key[1]
  BY <1>5 DEF Other, Sides
<1>7. /\ balance \in [Sides -> Nat]
      /\ balance'[key[1]] = balance[key[1]] + book[key].remaining
      /\ balance'[Other(key[1])] = balance[Other(key[1])] + book[key].filled
      /\ balance' \in [Sides -> Nat]
  BY <1>1, <1>2, <1>5, <1>6 DEF PurseOK
<1>8. PurseOK'
  BY <1>1, <1>2, <1>7 DEF PurseOK
<1>9. DifferAt(book, book', key) /\ key \notin DOMAIN book'
  BY <1>1 DEF DifferAt
<1>10. Typed(book')
  BY <1>2, <1>5, <1>9, TypedChange
<1>11. ASSUME NEW side \in Sides, side = key[1] PROVE Available(side)' = Available(side)
  <2>1. /\ PartAt(book', side, key) = 0
        /\ PartAt(book, side, key) = book[key].remaining
    BY <1>1, <1>9, <1>11 DEF PartAt, Part
  <2>2. balance'[side] + PartAt(book', side, key)
          = balance[side] + PartAt(book, side, key)
    BY <1>5, <1>7, <1>11, <2>1
  <2> QED BY <1>2, <1>8, <1>9, <1>10, <2>2, AvailableChange
<1>12. BidsHold'
  <2> SUFFICES ASSUME NEW k \in DOMAIN book'
               PROVE  \E j \in DOMAIN nodes' :
                        (Holds(j) /\ Key(j) = k /\ InBid(j, book[k].remaining))'
    BY DEF BidsHold
  <2>1. k \in DOMAIN book /\ book'[k] = book[k] /\ k # key
    BY <1>1
  <2>2. PICK j \in DOMAIN nodes :
          Holds(j) /\ Key(j) = k /\ InBid(j, book[k].remaining)
    BY <1>2, <2>1 DEF BidsHold, key
  <2> QED BY <1>1, <2>1, <2>2 DEF Holds, Key, InBid
<1>13. NodesTyped' /\ CommitFits'
  BY <1>1, <1>2 DEF NodesTyped, CommitFits
<1>14. CASE ~Working("order")'
  BY <1>8, <1>10, <1>12, <1>13, <1>14 DEF Fits, OrderFits
<1>15. ASSUME NEW m, WithdrawnFits(i, item, m), Setting(i, s, m)',
              Tail(run'.work) = Cons(Commit(i), s), item' = m
       PROVE  Fits'
  <2> DEFINE side == nodes[i].config.side
  <2>1. /\ side = key[1] /\ side \in Sides
        /\ m.offer = OfferOf(i)
        /\ m.funds = Smaller(balance[side] + book[key].remaining, m.offer)
    BY <1>2, <1>15, NodeFacts DEF WithdrawnFits, key
  <2>2. OfferOf(i)' = OfferOf(i)
    BY <1>1, <1>11, <2>1 DEF OfferOf
  <2>3. SettingFits(i, m)'
    BY <1>1, <1>7, <2>1, <2>2 DEF SettingFits
  <2>4. OrderFits'
    BY <1>1, <1>4, <1>15, <2>3 DEF OrderFits
  <2> QED BY <1>8, <1>10, <1>12, <1>13, <2>4 DEF Fits
<1> QED BY <1>4, <1>14, <1>15

\* What the pair takes, returns and keeps adds up.
LEMMA SetsFits ==
  ASSUME AmountInv, PairSets
  PROVE  Fits'
<1> DEFINE key == item.key
           inc == Increase(item)
           offer == item.offer
<1>1. PICK traded \in 0 .. inc :
          /\ book' = [k \in (IF offer - traded = 0 THEN DOMAIN book \ {key}
                                                   ELSE DOMAIN book \cup {key}) |->
                        IF k = key
                        THEN [offer |-> offer - traded, remaining |-> offer - traded,
                              filled |-> 0]
                        ELSE book[k]]
          /\ balance' = [balance EXCEPT
               ![key[1]] = @ - inc + SatSub(Resting(key), offer),
               ![Other(key[1])] = @ + Claimable(key) + traded]
          /\ run' = [run EXCEPT !.work = Tail(@),
                        !.placed = IF traded = 0 THEN "rests" ELSE "no"]
  BY DEF PairSets
<1> DEFINE rest == offer - traded
<1>2. /\ Working("order") /\ offer > 0 /\ inc <= item.funds
      /\ item.funds <= balance[key[1]]
      /\ nodes' = nodes /\ market' = market
  BY DEF PairSets, Affords
<1>3. /\ run'.work = Tail(run.work) /\ run'.operation = run.operation
      /\ run'.placed = IF traded = 0 THEN "rests" ELSE "no"
  BY <1>1 DEF AmountInv, IInv, RunOK
<1>4. NodesTyped /\ Typed(book) /\ PurseOK /\ BidsHold
  BY DEF AmountInv, Fits
<1>5. PICK i \in DOMAIN nodes :
        /\ item.key = Key(i) /\ Holds(i) /\ SettingFits(i, item)
        /\ ~Working("order")' /\ item'.node = i
  <2>1. item.offer # 0
    <3>1. ASSUME item.offer = 0 PROVE FALSE
      BY <1>2, <3>1
    <3> QED BY <3>1
  <2> HIDE DEF key, inc, offer
  <2> QED BY <1>2, <1>3, <2>1, MessageFacts DEF Setting
<1>6. /\ Typed(book) /\ key \in Sides \X Nat /\ key[1] \in Sides
      /\ key[1] = nodes[i].config.side
  <2>1. nodes[i].config.side \in Sides /\ nodes[i].current \in Nat
    BY <1>4, <1>5, NodeFacts
  <2> QED BY <1>4, <1>5, <2>1 DEF Key
<1>7. offer = OfferOf(i) /\ offer \in Nat \ {0} /\ InBid(i, offer)
      /\ item.funds = Smaller(balance[key[1]], offer)
  <2>1. OfferOf(i) \in Nat /\ InBid(i, OfferOf(i))
    BY <1>4, OfferFacts
  <2>2. item.offer \in {0, OfferOf(i)}
        /\ item.funds = Smaller(balance[nodes[i].config.side], item.offer)
    BY <1>5 DEF SettingFits
  <2>3. offer = OfferOf(i) /\ offer # 0
    BY <1>2, <2>1, <2>2
  <2> QED BY <1>6, <2>1, <2>2, <2>3
<1> DEFINE resting == Resting(key)
           claimable == Claimable(key)
<1>8. resting \in Nat /\ claimable \in Nat
  BY <1>4, PartFacts DEF Resting, Claimable
<1>9. inc = SatSub(offer, resting)
  BY DEF Increase
<1> HIDE DEF key, offer, inc, resting, claimable
<1>10. /\ inc \in Nat /\ inc <= offer /\ traded \in Nat /\ traded <= inc
       /\ rest \in Nat /\ rest <= offer
       /\ SatSub(resting, offer) \in Nat
       /\ traded = 0 => rest = offer
       /\ SatSub(resting, offer) + offer = resting + inc
  BY <1>1, <1>7, <1>8, <1>9 DEF SatSub
<1>11. Other(key[1]) \in Sides /\ Other(key[1]) # key[1]
  BY <1>6 DEF Other, Sides
<1> DEFINE side == key[1]
           other == Other(side)
           back == SatSub(resting, offer)
<1>12. /\ balance \in [Sides -> Nat] /\ side \in Sides /\ other \in Sides
       /\ other # side /\ inc <= balance[side]
  <2>1. balance \in [Sides -> Nat]
    BY <1>4 DEF PurseOK
  <2>2. balance[side] \in Nat /\ item.funds \in Nat
    BY <1>6, <1>7, <2>1 DEF Smaller
  <2>3. inc <= item.funds /\ item.funds <= balance[side]
    BY <1>2 DEF key, inc
  <2> QED BY <1>6, <1>10, <1>11, <2>1, <2>2, <2>3
<1>13. balance' = [balance EXCEPT ![side] = @ - inc + back,
                                  ![other] = @ + claimable + traded]
  BY <1>1 DEF key, inc, offer, resting, claimable
<1> HIDE DEF side, other, back
<1>14. /\ balance'[side] = balance[side] - inc + back
       /\ balance' \in [Sides -> Nat]
  <2>1. back \in Nat
    BY <1>10 DEF back
  <2>2. balance[side] \in Nat /\ balance[other] \in Nat
    BY <1>12
  <2>3. balance[side] - inc + back \in Nat /\ balance[other] + claimable + traded \in Nat
    BY <1>8, <1>10, <1>12, <2>1, <2>2
  <2> QED BY <1>12, <1>13, <2>3
<1>15. PurseOK'
  BY <1>2, <1>4, <1>14 DEF PurseOK
<1>16. /\ DOMAIN book' = IF rest = 0 THEN DOMAIN book \ {key}
                                     ELSE DOMAIN book \cup {key}
       /\ \A k \in DOMAIN book' : book'[k] =
            IF k = key THEN [offer |-> rest, remaining |-> rest, filled |-> 0]
            ELSE book[k]
  BY <1>1 DEF key, offer
<1> HIDE DEF rest
<1>17. /\ DifferAt(book, book', key)
       /\ key \in DOMAIN book' => book'[key] \in BookOrders
  BY <1>10, <1>16 DEF DifferAt, BookOrders
<1>18. Typed(book')
  BY <1>4, <1>6, <1>17, TypedChange
<1>19. BidsHold'
  <2> SUFFICES ASSUME NEW k \in DOMAIN book'
               PROVE  \E j \in DOMAIN nodes' :
                        (Holds(j) /\ Key(j) = k /\ InBid(j, book[k].remaining))'
    BY DEF BidsHold
  <2>1. CASE k = key
    <3>1. book'[k].remaining = rest
      BY <1>16, <2>1
    <3>2. nodes[i].config.bid.value \in Nat
      BY <1>4, NodeFacts DEF Configs, Bids
    <3>3. InBid(i, book[k].remaining)'
      BY <1>2, <1>7, <1>10, <3>1, <3>2 DEF InBid
    <3>4. Key(i) = k
      BY <1>5, <2>1 DEF key
    <3> QED BY <1>2, <1>5, <3>3, <3>4 DEF Holds, Key
  <2>2. CASE k # key
    <3>1. k \in DOMAIN book /\ book'[k] = book[k]
      BY <1>16, <2>2
    <3>2. PICK j \in DOMAIN nodes :
            Holds(j) /\ Key(j) = k /\ InBid(j, book[k].remaining)
      BY <1>4, <2>2, <3>1 DEF BidsHold, key
    <3> QED BY <1>2, <3>1, <3>2 DEF Holds, Key, InBid
  <2> QED BY <2>1, <2>2
<1>20. CommitFits'
  <2> SUFFICES ASSUME traded = 0
               PROVE  book'[Key(i)'].remaining = OfferOf(i)'
    BY <1>3, <1>5 DEF CommitFits
  <2>1. Key(i)' = key
    BY <1>2, <1>5 DEF Key, key
  <2>2. rest = offer /\ rest # 0 /\ key \in DOMAIN book' /\ book'[key].remaining = rest
    BY <1>7, <1>10, <1>16
  <2>3. /\ PartAt(book', side, key) = rest
        /\ PartAt(book, side, key) = resting
    BY <2>2 DEF PartAt, Part, side, Resting, resting
  <2>4. balance'[side] + rest = balance[side] + resting
    <3>1. back + offer = resting + inc
      BY <1>10 DEF back
    <3>2. balance[side] \in Nat /\ back \in Nat
      BY <1>10, <1>12 DEF back
    <3> QED BY <1>7, <1>8, <1>10, <1>14, <2>2, <3>1, <3>2
  <2>5. ASSUME NEW sd \in Sides, sd = side PROVE Available(sd)' = Available(sd)
    <3>1. balance'[sd] + PartAt(book', sd, key) = balance[sd] + PartAt(book, sd, key)
      BY <2>3, <2>4, <2>5
    <3> QED BY <1>4, <1>15, <1>17, <1>18, <3>1, AvailableChange
  <2>6. OfferOf(i)' = OfferOf(i)
    <3>1. nodes[i].config.side \in Sides /\ nodes[i].config.side = side
      BY <1>6 DEF side
    <3>2. Available(nodes[i].config.side)' = Available(nodes[i].config.side)
      BY <1>2, <2>5, <3>1
    <3> QED BY <1>2, <3>2 DEF OfferOf
  <2> QED BY <1>7, <2>1, <2>2, <2>6
<1>21. NodesTyped'
  BY <1>2, <1>4 DEF NodesTyped
<1> QED BY <1>5, <1>15, <1>18, <1>19, <1>20, <1>21 DEF Fits, OrderFits

\* No withdrawal that another message waits for is refused.
LEMMA RefusesFits ==
  ASSUME AmountInv, PairRefuses
  PROVE  Fits'
<1>1. /\ Working("order") /\ (item.offer # 0 \/ item.key \notin DOMAIN book)
      /\ nodes' = nodes /\ book' = book /\ balance' = balance /\ market' = market
      /\ run'.work = Tail(run.work) /\ run'.operation = run.operation
      /\ run'.placed = "no"
  BY DEF PairRefuses, AmountInv, IInv, RunOK
<1>2. ~Working("order")'
  BY <1>1, MessageFacts DEF WithdrawnFits
<1>3. BidsHold'
  <2> SUFFICES ASSUME NEW key \in DOMAIN book
               PROVE  \E j \in DOMAIN nodes' :
                        (Holds(j) /\ Key(j) = key /\ InBid(j, book[key].remaining))'
    BY <1>1 DEF BidsHold
  <2>1. PICK j \in DOMAIN nodes :
          Holds(j) /\ Key(j) = key /\ InBid(j, book[key].remaining)
    BY <1>1 DEF AmountInv, Fits, BidsHold
  <2> QED BY <1>1, <2>1 DEF Holds, Key, InBid
<1>4. NodesTyped' /\ OrderFits' /\ CommitFits'
  BY <1>1, <1>2 DEF AmountInv, Fits, NodesTyped, OrderFits, CommitFits
<1> QED BY <1>1, <1>3, <1>4, SameAmounts DEF Fits

LEMMA FillFits ==
  ASSUME AmountInv, NEW key \in DOMAIN book, NEW n \in 1 .. MaxCoins, Fill(key, n),
         MaxCoins \in Nat
  PROVE  Fits'
<1>1. /\ Outside /\ n <= book[key].remaining /\ run' = run /\ nodes' = nodes
      /\ balance' = balance /\ market' = market
      /\ book' = [book EXCEPT ![key].remaining = @ - n, ![key].filled = @ + n]
  BY DEF Fill
<1>2. ~Working("order") /\ ~Working("commit")
  BY <1>1 DEF Outside, Idle, Working
<1>3. ~Working("order")' /\ ~Working("commit")'
  BY <1>1, <1>2 DEF Working, item
<1>4. Typed(book) /\ PurseOK /\ PurseOK'
  BY <1>1 DEF AmountInv, Fits, PurseOK
<1>5. /\ key \in Sides \X Nat /\ book[key] \in BookOrders
  BY <1>4 DEF Typed
<1>6. /\ DOMAIN book' = DOMAIN book
      /\ \A k \in DOMAIN book : k # key => book'[k] = book[k]
      /\ book'[key] = [book[key] EXCEPT !.remaining = @ - n, !.filled = @ + n]
  BY <1>1
<1>7. /\ book'[key] \in BookOrders
      /\ book'[key].remaining <= book[key].remaining
  BY <1>1, <1>5, <1>6 DEF BookOrders
<1>8. Typed(book')
  BY <1>4, <1>5, <1>6, <1>7, TypedChange DEF DifferAt
<1>9. \A k \in DOMAIN book : book'[k].remaining <= book[k].remaining
  <2>1. \A k \in DOMAIN book : book[k].remaining \in Nat
    BY <1>4 DEF Typed, BookOrders
  <2> SUFFICES ASSUME NEW k \in DOMAIN book
               PROVE  book'[k].remaining <= book[k].remaining
    OBVIOUS
  <2>2. CASE k = key
    BY <1>7, <2>2
  <2>3. CASE k # key
    BY <1>6, <2>1, <2>3
  <2> QED BY <2>2, <2>3
<1> QED BY <1>1, <1>2, <1>3, <1>4, <1>6, <1>8, <1>9, QuietFits

LEMMA OthersFit ==
  ASSUME LimitOrderAssumption, AmountInv, NEW side \in Sides,
         \/ Deposit(side)
         \/ Withdraw(side)
         \/ \E price \in Quotes \cup {NONE} : MarketMoves(side, price)
  PROVE  Fits'
<1>1. /\ Outside /\ run' = run /\ nodes' = nodes /\ book' = book
  BY DEF Deposit, Withdraw, MarketMoves
<1>2. ~Working("order") /\ ~Working("commit")
  BY <1>1 DEF Outside, Idle, Working
<1>3. ~Working("order")' /\ ~Working("commit")'
  BY <1>1, <1>2 DEF Working, item
<1>4. Typed(book) /\ PurseOK
  BY DEF AmountInv, Fits
<1>5. PurseOK'
  <2>1. CASE Deposit(side)
    BY <1>4, <2>1 DEF Deposit, PurseOK
  <2>2. CASE Withdraw(side)
    BY <1>4, <2>2 DEF Withdraw, PurseOK
  <2>3. CASE \E price \in Quotes \cup {NONE} : MarketMoves(side, price)
    BY <1>4, <2>3 DEF MarketMoves, PurseOK
  <2> QED BY <2>1, <2>2, <2>3
<1>6. \A k \in DOMAIN book : book[k].remaining \in Nat
  BY <1>4 DEF Typed, BookOrders
<1>7. \A k \in DOMAIN book : book'[k].remaining <= book[k].remaining
  BY <1>1, <1>6
<1> QED BY <1>1, <1>2, <1>3, <1>4, <1>5, <1>7, QuietFits


LEMMA InitAmounts ==
  ASSUME LimitOrderAssumption, Init
  PROVE  AmountInv
<1>1. PICK g \in Lists :
        /\ \A i \in DOMAIN g : Initialises(g[i])
        /\ nodes = [i \in DOMAIN g |-> [config |-> g[i], current |-> NONE]]
  BY DEF Init
<1>2. g \in Seq(Configs)
  BY DEF LimitOrderAssumption
<1>3. \A i \in DOMAIN g : g[i] \in Configs
  BY <1>2, ElementOfSeq, LenProperties
<1>4. NodesTyped
  BY <1>1, <1>3 DEF NodesTyped
<1>5. /\ DOMAIN book = {} /\ balance \in [Sides -> 0 .. MaxCoins]
      /\ market \in [Sides -> Quotes \cup {NONE}] /\ run.work = <<>>
  BY DEF Init
<1>6. Typed(book)
  <2> SUFFICES ASSUME NEW side \in Sides PROVE IsFiniteSet(CoinsIn(book, side))
    BY <1>5 DEF Typed
  <2>1. CoinsIn(book, side) = {}
    BY <1>5, Coin
  <2> QED BY <2>1, FS_EmptySet
<1>7. PurseOK
  <2>1. 0 .. MaxCoins \subseteq Nat
    BY DEF LimitOrderAssumption
  <2> QED BY <1>5, <2>1 DEF PurseOK
<1>8. OrderFits /\ CommitFits /\ BidsHold
  BY <1>5 DEF OrderFits, CommitFits, BidsHold, Working
<1> QED BY <1>4, <1>6, <1>7, <1>8, InitIInv DEF AmountInv, Fits

LEMMA NextAmounts ==
  ASSUME LimitOrderAssumption, AmountInv, [Next]_vars
  PROVE  AmountInv'
<1>1. IInv'
  BY NextIInv DEF AmountInv
<1>2. CASE Execute \/ Cancel \/ \E g \in Lists : Update(g)
  BY <1>1, <1>2, StartFits DEF AmountInv
<1>3. CASE Replace
  BY <1>1, <1>3, ReplaceFits DEF AmountInv
<1>4. CASE NodeErrs
  BY <1>1, <1>4, ErrsFits DEF AmountInv
<1>5. CASE NodeExecutes
  BY <1>1, <1>5, ExecutesFits DEF AmountInv
<1>6. CASE NodeCancels
  BY <1>1, <1>6, CancelsFits DEF AmountInv
<1>7. CASE Commits
  BY <1>1, <1>7, CommitsFits DEF AmountInv
<1>8. CASE PairWithdraws
  BY <1>1, <1>8, WithdrawsFits DEF AmountInv
<1>9. CASE PairSets
  BY <1>1, <1>9, SetsFits DEF AmountInv
<1>10. CASE PairRefuses
  BY <1>1, <1>10, RefusesFits DEF AmountInv
<1>11. CASE \E key \in DOMAIN book : \E n \in 1 .. MaxCoins : Fill(key, n)
  BY <1>1, <1>11, FillFits DEF AmountInv, LimitOrderAssumption
<1>12. CASE \E side \in Sides :
             \/ Deposit(side)
             \/ Withdraw(side)
             \/ \E price \in Quotes \cup {NONE} : MarketMoves(side, price)
  BY <1>1, <1>12, OthersFit DEF AmountInv
<1>13. CASE UNCHANGED vars
  <2>1. /\ nodes' = nodes /\ book' = book /\ balance' = balance
        /\ market' = market /\ run' = run
    BY <1>13 DEF vars
  <2>2. Working("order")' <=> Working("order")
    BY <2>1 DEF Working, item
  <2>3. Working("commit")' <=> Working("commit")
    BY <2>1 DEF Working, item
  <2>4. item' = item
    BY <2>1 DEF item
  <2>5. /\ \A i : Holds(i)' <=> Holds(i)
        /\ \A i : Key(i)' = Key(i)
        /\ \A i : OfferOf(i)' = OfferOf(i)
        /\ \A i, n : InBid(i, n)' <=> InBid(i, n)
        /\ \A s : Rest(s)' <=> Rest(s)
    BY <2>1 DEF Holds, Key, OfferOf, Available, OnBook, InBid, Rest
  <2>6. \A i, m : SettingFits(i, m)' <=> SettingFits(i, m)
    BY <2>1, <2>5 DEF SettingFits
  <2>7. \A i, o, m : WithdrawnFits(i, o, m)' <=> WithdrawnFits(i, o, m)
    BY <2>1, <2>5 DEF WithdrawnFits
  <2>8. \A i, s, m : Setting(i, s, m)' <=> Setting(i, s, m)
    BY <2>1, <2>5 DEF Setting, ClearedTo, Cleared, Exists
  <2>9. \A i, s, o, m : Withdrawn(i, s, o, m)' <=> Withdrawn(i, s, o, m)
    BY <2>1, <2>5 DEF Withdrawn
  <2>10. OrderFits'
    BY <2>1, <2>2, <2>4, <2>5, <2>6, <2>7, <2>8, <2>9 DEF AmountInv, Fits, OrderFits
  <2>11. CommitFits'
    BY <2>1, <2>3, <2>4, <2>5 DEF AmountInv, Fits, CommitFits
  <2>12. BidsHold'
    BY <2>1, <2>2, <2>4, <2>5 DEF AmountInv, Fits, BidsHold
  <2>13. NodesTyped' /\ Typed(book') /\ PurseOK'
    BY <2>1 DEF AmountInv, Fits, NodesTyped, PurseOK
  <2> QED BY <1>1, <2>10, <2>11, <2>12, <2>13 DEF AmountInv, Fits
<1> QED BY <1>2, <1>3, <1>4, <1>5, <1>6, <1>7, <1>8, <1>9, <1>10, <1>11, <1>12,
           <1>13 DEF Next

LEMMA AmountsFit == Spec => []AmountInv
<1>1. Init => AmountInv
  BY LimitOrderAssumption, InitAmounts
<1>2. AmountInv /\ [Next]_vars => AmountInv'
  BY LimitOrderAssumption, NextAmounts
<1> QED BY <1>1, <1>2, PTL DEF Spec

\* The prices remembered, the orders and the balances are what they should be,
\* however the messages of a node are answered: no price, coin or offer is ever
\* negative, and no message takes more than there is.
THEOREM TypeCorrect == Spec => []TypeOK
<1>1. AmountInv => TypeOK
  <2> SUFFICES ASSUME AmountInv PROVE TypeOK
    OBVIOUS
  <2>1. PICK n \in Nat \ {0} : DOMAIN nodes = 1 .. n /\ count \in 1 .. n
    BY DEF AmountInv, IInv, NodesOK
  <2> DEFINE S == [config : Configs, current : Nat \cup {NONE}]
  <2>2. nodes \in [1 .. n -> S]
    BY <2>1 DEF AmountInv, Fits, NodesTyped
  <2>3. nodes \in Seq(S)
    <3> HIDE DEF S
    <3> QED BY <2>1, <2>2, IsASeq
  <2>4. Len(nodes) = n
    <3> HIDE DEF S
    <3>1. Len(nodes) \in Nat /\ DOMAIN nodes = 1 .. Len(nodes)
      BY <2>3, LenProperties
    <3> QED BY <2>1, <3>1
  <2>5. \A i \in DOMAIN nodes : /\ nodes[i].config \in Configs
                                /\ nodes[i].current \in Nat \cup {NONE}
    BY <2>1, <2>2
  <2> QED BY <2>1, <2>4, <2>5 DEF TypeOK, AmountInv, Fits, Typed, PurseOK, BookOrders
<1> QED BY <1>1, AmountsFit, PTL

\* A message of a node carries no more than the bank holds for the strategy as it
\* is delivered, though it was computed before the withdrawal that fills the bank
\* was; and a strategy with no other order on the book sends all its order needs.
THEOREM FundsSuffice == Spec => []FundingCovered
<1>1. AmountInv => FundingCovered
  <2> SUFFICES ASSUME AmountInv, Working("order")
               PROVE  /\ item.funds <= balance[item.key[1]]
                      /\ DOMAIN book \subseteq {item.key} =>
                           Increase(item) <= item.funds
    BY DEF FundingCovered
  <2>1. NodesTyped /\ Typed(book) /\ PurseOK /\ OrderFits
    BY DEF AmountInv, Fits
  <2>2. PICK i \in DOMAIN nodes :
          \/ item.key = Key(i) /\ SettingFits(i, item)
          \/ /\ item.offer = 0 /\ item.funds = 0
             /\ item.key \in DOMAIN book
    BY <2>1 DEF OrderFits, Setting, Withdrawn, WithdrawnFits
  <2> DEFINE resting == Resting(item.key)
  <2>3. resting \in Nat
    BY <2>1, PartFacts DEF Resting
  <2>4. CASE item.offer = 0 /\ item.funds = 0 /\ item.key \in DOMAIN book
    <3>1. balance[item.key[1]] \in Nat
      BY <2>1, <2>4, PartFacts DEF PurseOK
    <3>2. Increase(item) = 0
      BY <2>3, <2>4 DEF Increase, SatSub
    <3> QED BY <2>4, <3>1, <3>2
  <2>5. CASE item.key = Key(i) /\ SettingFits(i, item)
    <3> DEFINE side == nodes[i].config.side
    <3>1. side \in Sides /\ item.key[1] = side /\ balance[side] \in Nat
      BY <2>1, <2>5, NodeFacts DEF PurseOK
    <3>2. OfferOf(i) \in Nat /\ OfferOf(i) <= Available(side)
      BY <2>1, OfferFacts
    <3>3. item.offer \in {0, OfferOf(i)} /\ item.funds = Smaller(balance[side], item.offer)
      BY <2>5 DEF SettingFits
    <3>4. DOMAIN book \subseteq {item.key} => Available(side) = balance[side] + resting
      <4>1. SUFFICES ASSUME DOMAIN book \subseteq {item.key}
                     PROVE  Available(side) = balance[side] + resting
        OBVIOUS
      <4>2. PartAt(book, side, item.key) = resting
        BY <3>1 DEF PartAt, Part, Resting
      <4>3. Cardinality(CoinsIn(book, side)) = PartAt(book, side, item.key)
        BY <2>1, <4>1, PartFacts, CoinsOfOne
      <4>4. Available(side) = balance[side] + Cardinality(CoinsIn(book, side))
        BY <2>1, <3>1, AvailableFacts
      <4> QED BY <4>2, <4>3, <4>4
    <3>5. Available(side) \in Nat
      BY <2>1, <3>1, AvailableFacts
    <3> DEFINE offer == item.offer
               b == balance[side]
               a == Available(side)
    <3>6. offer \in Nat /\ offer <= a /\ b \in Nat /\ a \in Nat
      BY <3>1, <3>2, <3>3, <3>5
    <3>7. Increase(item) = SatSub(offer, resting)
      BY DEF Increase
    <3>8. item.funds = Smaller(b, offer)
      BY <3>3
    <3>9. DOMAIN book \subseteq {item.key} => a = b + resting
      BY <3>4
    <3> HIDE DEF offer, b, a, resting
    <3>10. item.funds <= b
      BY <3>6, <3>8 DEF Smaller
    <3>11. DOMAIN book \subseteq {item.key} => Increase(item) <= item.funds
      BY <2>3, <3>6, <3>7, <3>8, <3>9 DEF Smaller, SatSub
    <3> QED BY <3>1, <3>10, <3>11 DEF b
  <2> QED BY <2>2, <2>4, <2>5
<1> QED BY <1>1, AmountsFit, PTL

\* An order that was accepted, and of which nothing traded, is the bid of its
\* node as counted after the messages; and no order of one node alone exceeds
\* the node's fixed bid, unless its withdrawal is on its way.
THEOREM OffersAsConfigured == Spec => []OfferIsAsConfigured
<1>1. AmountInv => OfferIsAsConfigured
  <2> SUFFICES ASSUME AmountInv PROVE OfferIsAsConfigured
    OBVIOUS
  <2>1. Working("commit") /\ run.placed = "rests" =>
          book[Key(item.node)].remaining =
            FinalOffer(nodes[item.node].config,
                       Available(nodes[item.node].config.side))
    BY DEF AmountInv, Fits, CommitFits, OfferOf
  <2>2. ASSUME NEW i \in DOMAIN nodes, Holds(i), Exists(i),
               nodes[i].config.bid.kind = "fixed",
               \A j \in DOMAIN nodes \ {i} : Key(j) # Key(i),
               ~Withdrawing(Key(i))
        PROVE  book[Key(i)].remaining <= nodes[i].config.bid.value
    <3>1. ~(Working("order") /\ item.key = Key(i) /\ item.offer = 0)
      <4> SUFFICES ASSUME Working("order"), item.key = Key(i), item.offer = 0
                   PROVE  FALSE
        OBVIOUS
      <4>1. item = run.work[1] /\ 1 \in DOMAIN run.work
        BY HeadOfWork DEF AmountInv
      <4>2. /\ run.work[1].kind = "order" /\ run.work[1].key = Key(i)
            /\ run.work[1].offer = 0
        BY <4>1, Zenon DEF Working
      <4> QED BY <2>2, <4>1, <4>2, Zenon DEF Withdrawing
    <3>2. PICK j \in DOMAIN nodes :
            Holds(j) /\ Key(j) = Key(i) /\ InBid(j, book[Key(i)].remaining)
      BY <2>2, <3>1 DEF AmountInv, Fits, BidsHold, Exists
    <3> QED BY <2>2, <3>2 DEF InBid
  <2> QED BY <2>1, <2>2 DEF OfferIsAsConfigured
<1> QED BY <1>1, AmountsFit, PTL


-----------------------------------------------------------------------------
(* A node's turn, told from the work alone *)

Doing(w, i) ==
  w # <<>> /\ Head(w).kind \in {"visit", "order", "commit"} /\
    \E k \in DOMAIN w :
      /\ \A j \in 1 .. k - 1 : w[j].kind = "order"
      /\ w[k].kind \in {"visit", "commit"}
      /\ w[k].node = i

\* What is left of a turn, in front of what comes after it.
Stage(w, i, s) ==
  \/ w = Cons(Visit(i), s)
  \/ w = Cons(Commit(i), s)
  \/ \E m : m.kind = "order" /\ w = Cons(m, Cons(Commit(i), s))
  \/ \E o, m : /\ o.kind = "order" /\ m.kind = "order"
               /\ w = Cons(o, Cons(m, Cons(Commit(i), s)))

LEMMA ConsElements ==
  ASSUME NEW x, NEW s, IsWork(s)
  PROVE  /\ Len(s) \in Nat /\ DOMAIN s = 1 .. Len(s)
         /\ Cons(x, s) # <<>> /\ Head(Cons(x, s)) = x
         /\ DOMAIN Cons(x, s) = 1 .. Len(s) + 1
         /\ Len(Cons(x, s)) = Len(s) + 1
         /\ Cons(x, s)[1] = x
         /\ \A k \in 1 .. Len(s) : Cons(x, s)[k + 1] = s[k]
<1> DEFINE c == Cons(x, s)
<1>1. PICK S : s \in Seq(S)
  BY DEF IsWork
<1>2. PICK T : c \in Seq(T)
  BY ConsProperties DEF IsWork
<1>3. Head(c) = x /\ Tail(c) = s /\ c # <<>>
  BY ConsProperties
<1> HIDE DEF c
<1>4. Len(s) \in Nat /\ DOMAIN s = 1 .. Len(s)
  BY <1>1, LenProperties
<1>5. Len(c) \in Nat /\ DOMAIN c = 1 .. Len(c)
  BY <1>2, LenProperties
<1>6. /\ c[1] = x
      /\ Len(s) = Len(c) - 1
      /\ \A k \in 1 .. Len(s) : s[k] = c[k + 1]
  BY <1>2, <1>3, HeadTailProperties
<1>7. Len(c) = Len(s) + 1
  BY <1>4, <1>5, <1>6
<1> QED BY <1>3, <1>4, <1>5, <1>6, <1>7 DEF c

\* An order before it does not change whose turn it is; a node's own item begins it.
LEMMA DoingCons ==
  ASSUME NEW x, NEW s, IsWork(s), NEW i
  PROVE  /\ x.kind \in {"visit", "commit"} => (Doing(Cons(x, s), i) <=> x.node = i)
         /\ x.kind = "order" /\ s # <<>> /\ Head(s).kind \in {"order", "commit"}
              => (Doing(Cons(x, s), i) <=> Doing(s, i))
<1> DEFINE c == Cons(x, s)
           n == Len(s)
<1>1. /\ n \in Nat /\ DOMAIN s = 1 .. n
      /\ c # <<>> /\ Head(c) = x /\ DOMAIN c = 1 .. n + 1 /\ c[1] = x
      /\ \A k \in 1 .. n : c[k + 1] = s[k]
  BY ConsElements
<1> HIDE DEF c, n
<1>2. ASSUME x.kind \in {"visit", "commit"} PROVE Doing(c, i) <=> x.node = i
  <2>1. ASSUME x.node = i PROVE Doing(c, i)
    <3>1. 1 \in DOMAIN c /\ 1 .. 1 - 1 = {}
      BY <1>1
    <3> QED BY <1>1, <1>2, <2>1, <3>1 DEF Doing
  <2>2. ASSUME Doing(c, i) PROVE x.node = i
    <3>1. PICK k \in DOMAIN c :
            /\ \A j \in 1 .. k - 1 : c[j].kind = "order"
            /\ c[k].node = i
      BY <2>2 DEF Doing
    <3>2. c[1].kind # "order"
      BY <1>1, <1>2
    <3>3. k = 1
      BY <1>1, <3>1, <3>2
    <3> QED BY <1>1, <3>1, <3>3
  <2> QED BY <2>1, <2>2
<1>3. ASSUME x.kind = "order", s # <<>>, Head(s).kind \in {"order", "commit"}
      PROVE  Doing(c, i) <=> Doing(s, i)
  <2>1. ASSUME Doing(s, i) PROVE Doing(c, i)
    <3>1. PICK k \in DOMAIN s :
            /\ \A j \in 1 .. k - 1 : s[j].kind = "order"
            /\ s[k].kind \in {"visit", "commit"} /\ s[k].node = i
      BY <2>1 DEF Doing
    <3>2. k + 1 \in DOMAIN c /\ c[k + 1] = s[k]
      BY <1>1
    <3>3. ASSUME NEW j \in 1 .. (k + 1) - 1 PROVE c[j].kind = "order"
      <4>1. CASE j = 1
        BY <1>1, <1>3, <4>1
      <4>2. CASE j # 1
        <5>1. j - 1 \in 1 .. k - 1 /\ j - 1 \in 1 .. n /\ c[(j - 1) + 1] = s[j - 1]
          BY <1>1, <3>3, <4>2
        <5>2. (j - 1) + 1 = j
          BY <1>1, <3>3
        <5> QED BY <3>1, <5>1, <5>2
      <4> QED BY <4>1, <4>2
    <3> QED BY <1>1, <1>3, <3>1, <3>2, <3>3 DEF Doing
  <2>2. ASSUME Doing(c, i) PROVE Doing(s, i)
    <3>1. PICK k \in DOMAIN c :
            /\ \A j \in 1 .. k - 1 : c[j].kind = "order"
            /\ c[k].kind \in {"visit", "commit"} /\ c[k].node = i
      BY <2>2 DEF Doing
    <3>2. k # 1
      BY <1>1, <1>3, <3>1
    <3>3. k - 1 \in 1 .. n /\ (k - 1) + 1 = k
      BY <1>1, <3>2
    <3>4. c[k] = s[k - 1] /\ k - 1 \in DOMAIN s
      BY <1>1, <3>3
    <3>5. ASSUME NEW j \in 1 .. (k - 1) - 1 PROVE s[j].kind = "order"
      <4>1. j \in 1 .. n /\ j + 1 \in 1 .. k - 1
        BY <1>1, <3>3, <3>5
      <4> QED BY <1>1, <3>1, <4>1
    <3> QED BY <1>3, <3>1, <3>4, <3>5 DEF Doing
  <2> QED BY <2>1, <2>2
<1> QED BY <1>2, <1>3 DEF c

LEMMA StageTells ==
  ASSUME NEW w, NEW i, NEW s, IsWork(s), Stage(w, i, s), NEW j
  PROVE  Doing(w, j) <=> j = i
<1> DEFINE c == Cons(Commit(i), s)
<1>1. Visit(i).kind = "visit" /\ Visit(i).node = i
  BY DEF Visit
<1>2. Commit(i).kind = "commit" /\ Commit(i).node = i
  BY DEF Commit
<1>3. IsWork(c) /\ c # <<>> /\ Head(c) = Commit(i)
  BY ConsProperties
<1>4. Doing(Cons(Visit(i), s), j) <=> j = i
  BY <1>1, DoingCons
<1>5. Doing(c, j) <=> j = i
  BY <1>2, DoingCons
<1> HIDE DEF c
<1>6. ASSUME NEW m, m.kind = "order"
      PROVE  /\ Doing(Cons(m, c), j) <=> j = i
             /\ IsWork(Cons(m, c)) /\ Cons(m, c) # <<>> /\ Head(Cons(m, c)) = m
  <2>1. Head(c).kind \in {"order", "commit"}
    BY <1>2, <1>3
  <2> QED BY <1>3, <1>5, <1>6, <2>1, DoingCons, ConsProperties
<1>7. ASSUME NEW o, NEW m, o.kind = "order", m.kind = "order"
      PROVE  Doing(Cons(o, Cons(m, c)), j) <=> j = i
  <2> DEFINE d == Cons(m, c)
  <2>1. (Doing(d, j) <=> j = i) /\ IsWork(d) /\ d # <<>> /\ Head(d) = m
    BY <1>6, <1>7
  <2> HIDE DEF d
  <2>2. Head(d).kind \in {"order", "commit"}
    BY <1>7, <2>1
  <2>3. Doing(Cons(o, d), j) <=> j = i
    BY <1>7, <2>1, <2>2, DoingCons
  <2> QED BY <2>3 DEF d
<1> QED BY <1>4, <1>5, <1>6, <1>7 DEF Stage, c

\* When it is a node's turn the work is a stage of it.
LEMMA WhoseTurn ==
  ASSUME IInv, NEW j, TurnOf(j)
  PROVE  j \in DOMAIN nodes /\ \E s : Heads(j, s) /\ Stage(run.work, j, s)
<1>1. Doing(run.work, j) /\ run.work # <<>> /\ item.kind # "replace"
  BY DEF TurnOf, Doing, item
<1>2. PICK i \in DOMAIN nodes : \E s : Heads(i, s)
  BY <1>1, TurnOfWork
<1>3. PICK s : Heads(i, s)
  BY <1>2
<1>4. Stage(run.work, i, s) /\ IsWork(s)
  BY <1>3 DEF Heads, Turn, Visiting, Committing, Setting, Withdrawn, Stage
<1>5. j = i
  BY <1>1, <1>4, StageTells
<1> QED BY <1>2, <1>3, <1>4, <1>5

LEMMA TurnGoesOn ==
  ASSUME NEW i, NEW s, IsWork(s), Stage(run'.work, i, s)
  PROVE  TurnOf(i)'
<1>1. Doing(run'.work, i)
  BY StageTells
<1> QED BY <1>1 DEF Doing, TurnOf, item

\* A node that answers keeps its turn; one that does not has an order or no price.
LEMMA AnswerKeepsTurn ==
  ASSUME IInv, NEW i \in DOMAIN nodes, NEW s, Heads(i, s), Working("visit"),
         NodeErrs \/ NodeExecutes \/ NodeCancels
  PROVE  TurnOf(i)' \/ ~Lost(i)'
<1>1. item.node = i /\ Tail(run.work) = s /\ IsWork(s)
  <2>1. Visiting(i, s)
    BY DEF Heads, Turn, Working, Commit, Setting, Withdrawn
  <2> QED BY <2>1 DEF Heads, Visit
<1>2. CASE NodeErrs
  <2>1. run'.work = Cons(Commit(i), s)
    BY <1>1, <1>2, Answers DEF NodeErrs, Cons
  <2> QED BY <1>1, <2>1, TurnGoesOn DEF Stage
<1>3. CASE NodeCancels
  <2>1. CASE Holds(i)
    <3>1. PICK m : m = Order(nodes[i].config.side, nodes[i].current, 0, 0)
      OBVIOUS
    <3>2. AnswersWith(Append(<<m>>, Commit(i)))
      BY <1>1, <1>3, <2>1, <3>1 DEF NodeCancels, Withdrawal
    <3>3. Append(<<m>>, Commit(i)) \o s = Cons(m, Cons(Commit(i), s))
      BY <1>1, ConsTwo
    <3>4. run'.work = Cons(m, Cons(Commit(i), s))
      BY <1>1, <3>2, <3>3, Answers
    <3>5. m.kind = "order"
      BY <3>1 DEF Order
    <3>6. Stage(run'.work, i, s)
      BY <3>4, <3>5 DEF Stage
    <3> QED BY <1>1, <3>6, TurnGoesOn
  <2>2. CASE ~Holds(i)
    BY <1>3, <2>2 DEF NodeCancels, Lost, Holds
  <2> QED BY <2>1, <2>2
<1>4. CASE NodeExecutes
  <2>1. /\ ~Lost(i) /\ book' = book
        /\ nodes' = [nodes EXCEPT ![i].current = PriceOf(i)]
        /\ Messages(i) = <<>> \/ AnswersWith(Append(Messages(i), Commit(i)))
    BY <1>1, <1>4 DEF NodeExecutes
  <2>2. PICK w, m :
    /\ w.kind = "order" /\ w.key = Key(i) /\ w.offer = 0 /\ w.funds = 0
    /\ m.kind = "order" /\ m.key = <<nodes[i].config.side, PriceOf(i)>>
    /\ m.offer = OfferOf(i) /\ m.funds = FundingOf(i)
    /\ \/ /\ Messages(i) = <<>> \o <<>>
          /\ ~Withdraws(i) /\ ~Resets(i)
       \/ /\ Messages(i) = <<w>> \o <<>>
          /\ Withdraws(i) /\ ~Resets(i)
       \/ /\ Messages(i) = <<>> \o <<m>>
          /\ ~Withdraws(i)
       \/ /\ Messages(i) = <<w>> \o <<m>>
          /\ Withdraws(i)
    BY ExecutionMessages
  <2>3. ASSUME NEW o, o.kind = "order", Messages(i) = <<o>>
        PROVE  TurnOf(i)'
    <3>1. <<o>> # <<>>
      BY ConsOne, ConsProperties, EmptyWork
    <3>2. Append(<<o>>, Commit(i)) \o s = Cons(o, Cons(Commit(i), s))
      BY <1>1, ConsTwo
    <3>3. run'.work = Cons(o, Cons(Commit(i), s))
      BY <1>1, <2>1, <2>3, <3>1, <3>2, Answers
    <3>4. Stage(run'.work, i, s)
      BY <2>3, <3>3 DEF Stage
    <3> QED BY <1>1, <3>4, TurnGoesOn
  <2>4. CASE Messages(i) = <<>> \o <<>> /\ ~Resets(i)
    <3>1. PriceOf(i) = nodes[i].current /\ Holds(i)
      BY <2>4 DEF PriceOf, Resets
    <3>2. /\ nodes'[i].current = nodes[i].current
          /\ nodes'[i].config = nodes[i].config
      BY <2>1, <3>1 DEF IInv, NodesOK
    <3> QED BY <2>1, <3>2 DEF Lost, Holds, Exists, Key
  <2>5. CASE Messages(i) = <<w>> \o <<>>
    <3>1. Messages(i) = <<w>>
      BY <2>5, ConsOne, EmptyWork DEF Cons
    <3> QED BY <2>2, <2>3, <3>1
  <2>6. CASE Messages(i) = <<>> \o <<m>>
    <3>1. IsWork(<<m>>)
      BY EmptyWork, ConsOne, ConsProperties
    <3>2. Messages(i) = <<m>>
      BY <2>6, <3>1, ConsOne
    <3> QED BY <2>2, <2>3, <3>2
  <2>7. CASE Messages(i) = <<w>> \o <<m>>
    <3>1. Append(<<w>> \o <<m>>, Commit(i)) \o s = Cons(w, Cons(m, Cons(Commit(i), s)))
      BY <1>1, ConsThree
    <3>2. Messages(i) # <<>>
      BY <2>7, EmptyWork, ConsOne, ConsProperties DEF Cons
    <3>3. run'.work = Cons(w, Cons(m, Cons(Commit(i), s)))
      BY <1>1, <2>1, <2>7, <3>1, <3>2, Answers
    <3>4. Stage(run'.work, i, s)
      BY <2>2, <3>3 DEF Stage
    <3> QED BY <1>1, <3>4, TurnGoesOn
  <2> QED BY <2>2, <2>4, <2>5, <2>6, <2>7
<1> QED BY <1>2, <1>3, <1>4

\* A message that is answered leaves the rest of the turn.
LEMMA MessageKeepsTurn ==
  ASSUME IInv, NEW i \in DOMAIN nodes, NEW s, Heads(i, s), Working("order"),
         run'.work = Tail(run.work)
  PROVE  TurnOf(i)'
<1>1. IsWork(s) /\ ~Visiting(i, s) /\ ~Committing(i, s)
  BY DEF Heads, Working, Visit, Commit
<1>2. \/ Tail(run.work) = Cons(Commit(i), s)
      \/ \E m : m.kind = "order" /\ Tail(run.work) = Cons(m, Cons(Commit(i), s))
  BY <1>1 DEF Heads, Turn, Withdrawn
<1>3. Stage(run'.work, i, s)
  BY <1>2 DEF Stage
<1> QED BY <1>1, <1>3, TurnGoesOn

\* A node is committed at the price of an order, or at none.
LEMMA CommitForgets ==
  ASSUME IInv, NEW i \in DOMAIN nodes, NEW s, Heads(i, s), Working("commit"), Commits
  PROVE  ~Lost(i)'
<1>1. item.node = i
  <2>1. Committing(i, s)
    BY DEF Heads, Turn, Working, Visit, Setting, Withdrawn
  <2> QED BY <2>1 DEF Heads, Commit
<1>2. /\ nodes' = IF Lost(i) THEN [nodes EXCEPT ![i].current = NONE] ELSE nodes
      /\ book' = book
  BY <1>1 DEF Commits
<1>3. CASE Lost(i)
  <2>1. nodes'[i].current = NONE
    BY <1>2, <1>3 DEF IInv, NodesOK
  <2> QED BY <2>1 DEF Lost, Holds
<1>4. CASE ~Lost(i)
  BY <1>2, <1>4 DEF Lost, Holds, Exists, Key
<1> QED BY <1>3, <1>4

LEMMA TurnEndsForgotten ==
  ASSUME IInv, Next, NEW i, TurnOf(i), ~TurnOf(i)'
  PROVE  ~Lost(i)'
<1>1. PICK s : i \in DOMAIN nodes /\ Heads(i, s)
  BY WhoseTurn
<1>2. run.work # <<>> /\ item.kind # "replace"
  BY DEF TurnOf
<1>3. CASE Execute \/ Cancel \/ (\E g \in Lists : Update(g)) \/ Replace
  BY <1>2, <1>3 DEF Execute, Cancel, Update, StartsRun, Idle, Replace, Working
<1>4. CASE NodeErrs \/ NodeExecutes \/ NodeCancels
  <2>1. Working("visit")
    BY <1>4 DEF NodeErrs, NodeExecutes, NodeCancels, Executing, Cancelling
  <2> QED BY <1>1, <1>4, <2>1, AnswerKeepsTurn
<1>5. CASE Commits
  <2>1. Working("commit")
    BY <1>5 DEF Commits
  <2> QED BY <1>1, <1>5, <2>1, CommitForgets
<1>6. CASE PairWithdraws \/ PairSets \/ PairRefuses
  <2>1. Working("order")
    BY <1>6 DEF PairWithdraws, PairSets, PairRefuses
  <2>2. run'.work = Tail(run.work)
    <3>1. CASE PairWithdraws \/ PairRefuses
      BY <3>1 DEF PairWithdraws, PairRefuses, IInv, RunOK
    <3>2. CASE PairSets
      <4>1. PICK traded : run' = [run EXCEPT !.work = Tail(@),
                                     !.placed = IF traded = 0 THEN "rests" ELSE "no"]
        BY <3>2 DEF PairSets
      <4> QED BY <4>1 DEF IInv, RunOK
    <3> QED BY <1>6, <3>1, <3>2
  <2> QED BY <1>1, <2>1, <2>2, MessageKeepsTurn
<1>7. CASE \/ \E key \in DOMAIN book : \E n \in 1 .. MaxCoins : Fill(key, n)
           \/ \E side \in Sides :
                \/ Deposit(side)
                \/ Withdraw(side)
                \/ \E price \in Quotes \cup {NONE} : MarketMoves(side, price)
  <2>1. run' = run
    BY <1>7 DEF Fill, Deposit, Withdraw, MarketMoves
  <2> QED BY <2>1 DEF TurnOf, item
<1> QED BY <1>3, <1>4, <1>5, <1>6, <1>7 DEF Next

\* A node whose order is gone, filled as it was placed, refused, or withdrawn by
\* another node of the same price, has forgotten it when its turn is over.
THEOREM ForgottenByTheEnd == Spec => ForgetsLostOrders
<1>1. IInv /\ [Next]_vars =>
        [\A i \in DOMAIN nodes : TurnOf(i) /\ ~TurnOf(i)' => ~Lost(i)']_vars
  BY TurnEndsForgotten
<1> QED BY <1>1, Invariance, PTL DEF Spec, ForgetsLostOrders

=============================================================================
