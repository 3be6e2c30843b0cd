--------------------------- MODULE SchedulerProofs ---------------------------
(***************************************************************************)
(* The scheduler is solvent at every moment of every transaction, and each *)
(* trigger has one fate, whatever its targets do; and a keeper is told of  *)
(* the triggers that are due.                                              *)
(***************************************************************************)
EXTENDS Scheduler, FiniteSetTheorems, SequenceTheorems, TLAPS

Stores ==
  UNION {[D -> Trigger] : D \in {E \in SUBSET Nat : IsFiniteSet(E)}}

Worlds == [triggers : Stores,
           bank     : [Accounts \cup {SCHEDULER} -> Int],
           stranded : Nat,
           created  : 0 .. MaxCreated,
           fate     : [1 .. MaxCreated -> Fates]]

Activations == [actor    : Accounts,
                ids      : Seq(Nat),
                messages : Seq(Message),
                sent     : Nat,
                saved    : Worlds]

Fits(c) ==
  /\ Len(c.messages) + 2 * Len(c.ids) <= 2 * MaxBatch
  /\ c.sent <= Len(c.messages)

TypeInv ==
  /\ World \in Worlds
  /\ calls \in Seq(Activations)
  /\ Depth <= MaxDepth
  /\ \A l \in 1 .. Depth : Fits(calls[l])
  /\ height \in 0 .. MaxHeight
  /\ time \in Nat

SavedSolvent ==
  \A l \in 1 .. Depth :
    calls[l].saved.bank[SCHEDULER] = Owed(calls[l].saved, calls, l - 1)

IInv == TypeInv /\ Solvency /\ SavedSolvent

-----------------------------------------------------------------------------
(* Coins in escrow *)

LEMMA CoinsOf ==
  ASSUME NEW x, NEW r \in Nat
  PROVE  /\ IsFiniteSet({x} \X (1 .. r))
         /\ Cardinality({x} \X (1 .. r)) = r
<1>1. IsFiniteSet({x}) /\ Cardinality({x}) = 1
  BY FS_Singleton
<1>2. IsFiniteSet(1 .. r) /\ Cardinality(1 .. r) = r
  BY FS_Interval
<1>3. /\ IsFiniteSet({x} \X (1 .. r))
      /\ Cardinality({x} \X (1 .. r)) = Cardinality({x}) * Cardinality(1 .. r)
  BY <1>1, <1>2, FS_Product
<1>4. Cardinality({x} \X (1 .. r)) = 1 * r
  BY <1>1, <1>2, <1>3, Zenon
<1> QED BY <1>3, <1>4

LEMMA DisjointUnion ==
  ASSUME NEW S, NEW T, IsFiniteSet(S), IsFiniteSet(T), S \cap T = {}
  PROVE  /\ IsFiniteSet(S \cup T)
         /\ Cardinality(S \cup T) = Cardinality(S) + Cardinality(T)
         /\ Cardinality(S) \in Nat /\ Cardinality(T) \in Nat
<1>1. Cardinality(S \cap T) = 0
  BY FS_EmptySet
<1>2. Cardinality(S) \in Nat /\ Cardinality(T) \in Nat
  BY FS_CardinalityType
<1>3. /\ IsFiniteSet(S \cup T)
      /\ Cardinality(S \cup T) =
           Cardinality(S) + Cardinality(T) - Cardinality(S \cap T)
  BY FS_Union
<1> QED BY <1>1, <1>2, <1>3

LEMMA EscrowFinite ==
  ASSUME NEW ts \in Stores
  PROVE  IsFiniteSet(Escrowed(ts)) /\ Cardinality(Escrowed(ts)) \in Nat
<1>1. IsFiniteSet(DOMAIN ts)
  BY DEF Stores
<1>2. IsFiniteSet(1 .. MaxRebate)
  BY SchedulerAssumption, FS_Interval
<1>3. IsFiniteSet((DOMAIN ts) \X (1 .. MaxRebate))
  BY <1>1, <1>2, FS_Product
<1>4. IsFiniteSet(Escrowed(ts))
  BY <1>3, FS_Subset DEF Escrowed
<1> QED BY <1>4, FS_CardinalityType

StoreWithout(ts, id) == [i \in DOMAIN ts \ {id} |-> ts[i]]

LEMMA StoreWithoutType ==
  ASSUME NEW ts \in Stores, NEW id
  PROVE  StoreWithout(ts, id) \in Stores
<1>1. IsFiniteSet(DOMAIN ts \ {id}) /\ DOMAIN ts \in SUBSET Nat
      /\ ts \in [DOMAIN ts -> Trigger]
  BY FS_RemoveElement DEF Stores
<1>2. StoreWithout(ts, id) \in [DOMAIN ts \ {id} -> Trigger]
  BY <1>1 DEF StoreWithout
<1> QED BY <1>1, <1>2 DEF Stores

\* Deleting a trigger takes exactly its rebate out of escrow.
LEMMA EscrowDelete ==
  ASSUME NEW ts \in Stores, NEW id \in DOMAIN ts
  PROVE  Cardinality(Escrowed(ts)) =
           Cardinality(Escrowed(StoreWithout(ts, id))) + ts[id].execution_rebate
<1> DEFINE r == ts[id].execution_rebate
           Rest == Escrowed(StoreWithout(ts, id))
           Coins == {id} \X (1 .. r)
<1>1. r \in 0 .. MaxRebate /\ r \in Nat /\ ts \in [DOMAIN ts -> Trigger]
  BY SchedulerAssumption DEF Stores, Trigger, Amounts
<1>2. Escrowed(ts) = Rest \cup Coins
  <2>1. ASSUME NEW c \in Escrowed(ts) PROVE c \in Rest \cup Coins
    BY <1>1 DEF Escrowed, StoreWithout
  <2>2. Rest \subseteq Escrowed(ts)
    BY DEF Escrowed, StoreWithout
  <2>3. Coins \subseteq Escrowed(ts)
    BY <1>1, SchedulerAssumption DEF Escrowed
  <2> QED BY <2>1, <2>2, <2>3
<1>3. Rest \cap Coins = {}
  BY DEF Escrowed, StoreWithout
<1>4. IsFiniteSet(Rest)
  BY StoreWithoutType, EscrowFinite
<1>5. IsFiniteSet(Coins) /\ Cardinality(Coins) = r
  BY <1>1, CoinsOf
<1> HIDE DEF Rest, Coins, r
<1> QED BY <1>2, <1>3, <1>4, <1>5, DisjointUnion DEF Rest, r

\* Storing a trigger under an id puts exactly its rebate into escrow.
LEMMA EscrowInsert ==
  ASSUME NEW ts \in Stores, NEW id \in Nat, NEW t \in Trigger
  PROVE  LET us == [i \in DOMAIN ts \cup {id} |-> IF i = id THEN t ELSE ts[i]]
         IN /\ us \in Stores
            /\ Cardinality(Escrowed(us)) =
                 Cardinality(Escrowed(StoreWithout(ts, id)))
                   + t.execution_rebate
<1> DEFINE us == [i \in DOMAIN ts \cup {id} |-> IF i = id THEN t ELSE ts[i]]
<1>1. us \in Stores
  <2>1. IsFiniteSet(DOMAIN ts \cup {id}) /\ DOMAIN ts \in SUBSET Nat
        /\ ts \in [DOMAIN ts -> Trigger]
    BY FS_AddElement DEF Stores
  <2>2. us \in [DOMAIN ts \cup {id} -> Trigger]
    BY <2>1
  <2> QED BY <2>1, <2>2 DEF Stores
<1>2. StoreWithout(us, id) = StoreWithout(ts, id)
  BY DEF StoreWithout
<1>3. us[id] = t /\ id \in DOMAIN us
  OBVIOUS
<1> HIDE DEF us
<1>4. Cardinality(Escrowed(us)) =
        Cardinality(Escrowed(StoreWithout(us, id))) + us[id].execution_rebate
  BY <1>1, <1>3, EscrowDelete
<1> QED BY <1>1, <1>2, <1>3, <1>4 DEF us

-----------------------------------------------------------------------------
(* Coins about to be sent *)

\* The coins activation l has still to send, of messages ms of which n are sent.
Due(l, ms, n) ==
  {c \in ({l} \X (1 .. 2 * MaxBatch)) \X (1 .. MaxRebate) :
     /\ c[1][2] > n
     /\ c[1][2] <= Len(ms)
     /\ ms[c[1][2]].kind = "send"
     /\ c[2] <= ms[c[1][2]].amount}

LEMMA GridFinite ==
  ASSUME NEW S, IsFiniteSet(S)
  PROVE  IsFiniteSet((S \X (1 .. 2 * MaxBatch)) \X (1 .. MaxRebate))
<1>1. IsFiniteSet(1 .. 2 * MaxBatch) /\ IsFiniteSet(1 .. MaxRebate)
  BY SchedulerAssumption, FS_Interval
<1>2. IsFiniteSet(S \X (1 .. 2 * MaxBatch))
  BY <1>1, FS_Product
<1> QED BY <1>1, <1>2, FS_Product

LEMMA PayableFinite ==
  ASSUME NEW cs, NEW d \in Nat
  PROVE  IsFiniteSet(Payable(cs, d)) /\ Cardinality(Payable(cs, d)) \in Nat
<1>1. IsFiniteSet(1 .. d)
  BY FS_Interval
<1>2. IsFiniteSet(((1 .. d) \X (1 .. 2 * MaxBatch)) \X (1 .. MaxRebate))
  BY <1>1, GridFinite
<1>3. IsFiniteSet(Payable(cs, d))
  BY <1>2, FS_Subset DEF Payable
<1> QED BY <1>3, FS_CardinalityType

LEMMA DueFinite ==
  ASSUME NEW l, NEW ms, NEW n
  PROVE  IsFiniteSet(Due(l, ms, n)) /\ Cardinality(Due(l, ms, n)) \in Nat
<1>1. IsFiniteSet({l})
  BY FS_Singleton
<1>2. IsFiniteSet(({l} \X (1 .. 2 * MaxBatch)) \X (1 .. MaxRebate))
  BY <1>1, GridFinite
<1>3. IsFiniteSet(Due(l, ms, n))
  BY <1>2, FS_Subset DEF Due
<1> QED BY <1>3, FS_CardinalityType

\* What a stack has to send is what its top has, and what the rest has.
LEMMA PayableSplit ==
  ASSUME NEW cs, NEW d \in Nat \ {0}
  PROVE  Cardinality(Payable(cs, d)) =
           Cardinality(Payable(cs, d - 1)) + Cardinality(Due(d, cs[d].messages, cs[d].sent))
<1>1. Payable(cs, d) = Payable(cs, d - 1) \cup Due(d, cs[d].messages, cs[d].sent)
  <2>1. ASSUME NEW c \in Payable(cs, d)
        PROVE  c \in Payable(cs, d - 1) \cup Due(d, cs[d].messages, cs[d].sent)
    <3>1. CASE c[1][1] = d
      BY <2>1, <3>1 DEF Payable, Due, Unsent, MessageAt
    <3>2. CASE c[1][1] \in 1 .. (d - 1)
      BY <2>1, <3>2 DEF Payable, Unsent, MessageAt
    <3> QED BY <2>1, <3>1, <3>2 DEF Payable
  <2>2. Payable(cs, d - 1) \subseteq Payable(cs, d)
    BY DEF Payable, Unsent, MessageAt
  <2>3. Due(d, cs[d].messages, cs[d].sent) \subseteq Payable(cs, d)
    BY DEF Payable, Due, Unsent, MessageAt
  <2> QED BY <2>1, <2>2, <2>3
<1>2. Payable(cs, d - 1) \cap Due(d, cs[d].messages, cs[d].sent) = {}
  BY DEF Payable, Due
<1>3. IsFiniteSet(Payable(cs, d - 1)) /\ IsFiniteSet(Due(d, cs[d].messages, cs[d].sent))
  BY PayableFinite, DueFinite
<1> QED BY <1>1, <1>2, <1>3, DisjointUnion

\* The coins of a stack depend on its messages and on how far they are sent.
LEMMA PayableSame ==
  ASSUME NEW cs, NEW ds, NEW d \in Nat,
         \A l \in 1 .. d : /\ cs[l].messages = ds[l].messages
                           /\ cs[l].sent = ds[l].sent
  PROVE  Payable(cs, d) = Payable(ds, d)
BY DEF Payable, Unsent, MessageAt

LEMMA NoneDue ==
  ASSUME NEW l, NEW ms \in Seq(Message), NEW n \in Nat, n >= Len(ms)
  PROVE  Cardinality(Due(l, ms, n)) = 0
<1>1. Due(l, ms, n) = {}
  BY SchedulerAssumption DEF Due
<1> QED BY <1>1, FS_EmptySet

MessageCoins(m) == IF m.kind = "send" THEN m.amount ELSE 0

LEMMA MessageAmount ==
  ASSUME NEW m \in Message
  PROVE  /\ MessageCoins(m) \in 0 .. MaxRebate
         /\ m.kind = "send" => m.amount = MessageCoins(m)
BY SchedulerAssumption DEF Message, MessageCoins

\* Sending the next message takes its coins, and no others, out of what is due.
LEMMA DueAfterSend ==
  ASSUME NEW l, NEW ms \in Seq(Message), NEW n \in Nat,
         n < Len(ms), Len(ms) <= 2 * MaxBatch
  PROVE  Cardinality(Due(l, ms, n)) =
           Cardinality(Due(l, ms, n + 1)) + MessageCoins(ms[n + 1])
<1> DEFINE m == ms[n + 1]
           Coins == {<<l, n + 1>>} \X (1 .. MessageCoins(m))
<1>1. m \in Message
  OBVIOUS
<1>2. MessageCoins(m) \in 0 .. MaxRebate /\ MessageCoins(m) \in Nat
  BY <1>1, MessageAmount, SchedulerAssumption
<1>3. Due(l, ms, n) = Due(l, ms, n + 1) \cup Coins
  <2>1. ASSUME NEW c \in Due(l, ms, n)
        PROVE  c \in Due(l, ms, n + 1) \cup Coins
    <3>1. CASE c[1][2] = n + 1
      BY <1>1, <2>1, <3>1 DEF Due, MessageCoins
    <3>2. CASE c[1][2] > n + 1
      BY <2>1, <3>2 DEF Due
    <3> QED BY <2>1, <3>1, <3>2 DEF Due
  <2>2. Due(l, ms, n + 1) \subseteq Due(l, ms, n)
    BY DEF Due
  <2>3. Coins \subseteq Due(l, ms, n)
    <3>1. CASE m.kind = "send"
      BY <1>1, <1>2, <3>1, SchedulerAssumption DEF Due, MessageCoins
    <3>2. CASE m.kind # "send"
      BY <3>2 DEF MessageCoins
    <3> QED BY <3>1, <3>2
  <2> QED BY <2>1, <2>2, <2>3
<1>4. Due(l, ms, n + 1) \cap Coins = {}
  BY DEF Due
<1>5. IsFiniteSet(Coins) /\ Cardinality(Coins) = MessageCoins(m)
  BY <1>2, CoinsOf
<1>6. IsFiniteSet(Due(l, ms, n + 1))
  BY DueFinite
<1> HIDE DEF Coins, m
<1> QED BY <1>3, <1>4, <1>5, <1>6, DisjointUnion DEF m

\* A message added at the end adds its coins to what is due.
LEMMA DueAfterAppend ==
  ASSUME NEW l, NEW ms \in Seq(Message), NEW n \in Nat, NEW m \in Message,
         n <= Len(ms), Len(ms) < 2 * MaxBatch
  PROVE  Cardinality(Due(l, Append(ms, m), n)) =
           Cardinality(Due(l, ms, n)) + MessageCoins(m)
<1> DEFINE new == Append(ms, m)
           Coins == {<<l, Len(ms) + 1>>} \X (1 .. MessageCoins(m))
<1>1. /\ new \in Seq(Message) /\ Len(new) = Len(ms) + 1
      /\ \A i \in 1 .. Len(ms) : new[i] = ms[i]
      /\ new[Len(ms) + 1] = m
  OBVIOUS
<1>2. MessageCoins(m) \in 0 .. MaxRebate /\ MessageCoins(m) \in Nat
  BY MessageAmount, SchedulerAssumption
<1> HIDE DEF new
<1>3. Due(l, new, n) = Due(l, ms, n) \cup Coins
  <2>1. ASSUME NEW c \in Due(l, new, n)
        PROVE  c \in Due(l, ms, n) \cup Coins
    <3>1. CASE c[1][2] = Len(ms) + 1
      BY <1>1, <2>1, <3>1 DEF Due, MessageCoins
    <3>2. CASE c[1][2] <= Len(ms)
      BY <1>1, <2>1, <3>2 DEF Due
    <3> QED BY <1>1, <2>1, <3>1, <3>2 DEF Due
  <2>2. Due(l, ms, n) \subseteq Due(l, new, n)
    BY <1>1 DEF Due
  <2>3. Coins \subseteq Due(l, new, n)
    <3>1. CASE m.kind = "send"
      BY <1>1, <1>2, <3>1, SchedulerAssumption DEF Due, MessageCoins
    <3>2. CASE m.kind # "send"
      BY <3>2 DEF MessageCoins
    <3> QED BY <3>1, <3>2
  <2> QED BY <2>1, <2>2, <2>3
<1>4. Due(l, ms, n) \cap Coins = {}
  BY DEF Due
<1>5. IsFiniteSet(Coins) /\ Cardinality(Coins) = MessageCoins(m)
  BY <1>2, CoinsOf
<1>6. IsFiniteSet(Due(l, ms, n))
  BY DueFinite
<1> HIDE DEF Coins
<1> QED BY <1>3, <1>4, <1>5, <1>6, DisjointUnion DEF new

\* An executed trigger's messages carry its rebate, a replaced trigger's the
\* refund of it.
LEMMA DueAfterTake ==
  ASSUME NEW l, NEW ms \in Seq(Message), NEW n \in Nat, NEW t \in Trigger,
         top.actor \in Accounts,
         n <= Len(ms), Len(ms) + 2 <= 2 * MaxBatch
  PROVE  /\ ms \o CallAndRebate(t) \in Seq(Message)
         /\ Len(ms \o CallAndRebate(t)) \in Len(ms) .. (Len(ms) + 2)
         /\ Cardinality(Due(l, ms \o CallAndRebate(t), n)) =
              Cardinality(Due(l, ms, n)) + t.execution_rebate
<1> DEFINE call == [kind |-> "call", to |-> t.contract_address, amount |-> 0,
                    born |-> t.born]
           rebate == [kind |-> "send", to |-> top.actor,
                      amount |-> t.execution_rebate, born |-> t.born]
           mid == Append(ms, call)
<1>1. call \in Message /\ MessageCoins(call) = 0
  BY DEF Message, MessageCoins, Trigger
<1>2. t.execution_rebate \in 0 .. MaxRebate
  BY DEF Trigger, Amounts
<1>3. t.execution_rebate # 0 =>
        rebate \in Message /\ MessageCoins(rebate) = t.execution_rebate
  BY <1>2, SchedulerAssumption DEF Message, MessageCoins, Trigger
<1>4. CallAndRebate(t) =
        IF t.execution_rebate = 0 THEN <<call>> ELSE <<call, rebate>>
  BY DEF CallAndRebate
<1> HIDE DEF call, rebate
<1>5. mid \in Seq(Message) /\ Len(mid) = Len(ms) + 1
  BY <1>1
<1>6. Cardinality(Due(l, mid, n)) = Cardinality(Due(l, ms, n))
  <2>1. Cardinality(Due(l, ms, n)) \in Nat
    BY DueFinite
  <2>2. Cardinality(Due(l, mid, n)) =
          Cardinality(Due(l, ms, n)) + MessageCoins(call)
    <3>1. Len(ms) < 2 * MaxBatch
      BY SchedulerAssumption
    <3> QED BY <1>1, <3>1, DueAfterAppend, Zenon
  <2> QED BY <1>1, <2>1, <2>2
<1>7. CASE t.execution_rebate = 0
  <2>1. ms \o CallAndRebate(t) = mid
    BY <1>1, <1>4, <1>7
  <2>2. Cardinality(Due(l, ms, n)) \in Nat
    BY DueFinite
  <2> QED BY <1>5, <1>6, <1>7, <2>1, <2>2
<1>8. CASE t.execution_rebate # 0
  <2>1. ms \o CallAndRebate(t) = Append(mid, rebate)
    <3>1. call \in Message /\ rebate \in Message
      BY <1>1, <1>3, <1>8
    <3>2. ms \o <<call, rebate>> = Append(Append(ms, call), rebate)
      <4> DEFINE q == <<call, rebate>>
                 a == ms \o q
                 b == Append(Append(ms, call), rebate)
      <4>1. q \in Seq(Message) /\ Len(q) = 2 /\ q[1] = call /\ q[2] = rebate
        BY <3>1
      <4> HIDE DEF q
      <4>2. /\ a \in Seq(Message) /\ Len(a) = Len(ms) + 2
            /\ \A i \in 1 .. Len(ms) + 2 :
                 a[i] = IF i <= Len(ms) THEN ms[i] ELSE q[i - Len(ms)]
        <5>1. /\ a \in Seq(Message) /\ Len(a) = Len(ms) + Len(q)
              /\ \A i \in 1 .. Len(ms) + Len(q) :
                   a[i] = IF i <= Len(ms) THEN ms[i] ELSE q[i - Len(ms)]
          BY <4>1, ConcatProperties, Zenon
        <5> QED BY <4>1, <5>1, Zenon
      <4>3. /\ b \in Seq(Message) /\ Len(b) = Len(ms) + 2
            /\ \A i \in 1 .. Len(ms) : b[i] = ms[i]
            /\ b[Len(ms) + 1] = call /\ b[Len(ms) + 2] = rebate
        BY <3>1
      <4> HIDE DEF a, b
      <4>4. ASSUME NEW i \in 1 .. Len(a) PROVE a[i] = b[i]
        <5>1. CASE i <= Len(ms)
          BY <4>2, <4>3, <5>1
        <5>2. CASE i = Len(ms) + 1
          BY <4>1, <4>2, <4>3, <5>2
        <5>3. CASE i = Len(ms) + 2
          BY <4>1, <4>2, <4>3, <5>3
        <5> QED BY <4>2, <5>1, <5>2, <5>3
      <4>5. a = b
        BY <4>2, <4>3, <4>4, SeqEqual
      <4> QED BY <4>5 DEF a, b, q
    <3> QED BY <1>4, <1>8, <3>2
  <2>2. Cardinality(Due(l, Append(mid, rebate), n)) =
          Cardinality(Due(l, mid, n)) + MessageCoins(rebate)
    <3>1. n <= Len(mid) /\ Len(mid) < 2 * MaxBatch /\ rebate \in Message
      BY <1>3, <1>5, <1>8, SchedulerAssumption
    <3> HIDE DEF mid
    <3> QED BY <1>5, <3>1, DueAfterAppend
  <2>3. Append(mid, rebate) \in Seq(Message)
        /\ Len(Append(mid, rebate)) = Len(ms) + 2
    BY <1>3, <1>5, <1>8
  <2> HIDE DEF mid
  <2> QED BY <1>3, <1>6, <1>8, <2>1, <2>2, <2>3
<1> QED BY <1>7, <1>8

LEMMA DueAfterRefund ==
  ASSUME NEW l, NEW t \in Trigger
  PROVE  /\ Refund(t) \in Seq(Message) /\ Len(Refund(t)) <= 1
         /\ Cardinality(Due(l, Refund(t), 0)) = t.execution_rebate
<1> DEFINE m == [kind |-> "send", to |-> t.owner, amount |-> t.execution_rebate,
                 born |-> t.born]
           empty == <<>>
<1>1. t.execution_rebate \in 0 .. MaxRebate
  BY DEF Trigger, Amounts
<1>0. empty \in Seq(Message) /\ Len(empty) = 0
  OBVIOUS
<1>a. Append(empty, m) = <<m>>
  OBVIOUS
<1> HIDE DEF empty
<1>2. Cardinality(Due(l, empty, 0)) = 0
  <2>1. Due(l, empty, 0) = {}
    BY <1>0, SchedulerAssumption DEF Due
  <2> QED BY <2>1, FS_EmptySet
<1>3. CASE t.execution_rebate = 0
  BY <1>0, <1>2, <1>3 DEF Refund, empty
<1>4. CASE t.execution_rebate # 0
  <2>1. m \in Message /\ MessageCoins(m) = t.execution_rebate
    BY <1>1, <1>4, SchedulerAssumption DEF Message, MessageCoins, Trigger
  <2>2. Refund(t) = Append(empty, m)
    BY <1>4, <1>a DEF Refund
  <2> HIDE DEF m
  <2>3. Cardinality(Due(l, Append(empty, m), 0)) =
          Cardinality(Due(l, empty, 0)) + MessageCoins(m)
    <3>1. 0 \in Nat /\ 0 <= Len(empty) /\ Len(empty) < 2 * MaxBatch
      BY <1>0, SchedulerAssumption
    <3> QED BY <1>0, <2>1, <3>1, DueAfterAppend, Zenon
  <2>4. Refund(t) \in Seq(Message) /\ Len(Refund(t)) <= 1
    BY <1>0, <2>1, <2>2
  <2> QED BY <1>1, <1>2, <2>1, <2>2, <2>3, <2>4, SchedulerAssumption
<1> QED BY <1>3, <1>4

-----------------------------------------------------------------------------
(* Changes of the stack *)

StackOK ==
  /\ calls \in Seq(Activations)
  /\ Depth <= MaxDepth
  /\ \A l \in 1 .. Depth : Fits(calls[l])

LEMMA TopType ==
  ASSUME TypeInv, calls # <<>>
  PROVE  /\ Depth \in Nat \ {0} /\ Depth \in 1 .. Depth
         /\ top \in Activations /\ Fits(top) /\ calls[Depth] = top
         /\ top.messages \in Seq(Message) /\ top.ids \in Seq(Nat)
         /\ top.sent \in Nat /\ top.saved \in Worlds /\ top.actor \in Accounts
<1>1. calls \in Seq(Activations)
  BY DEF TypeInv
<1>2. Len(calls) \in Nat \ {0}
  BY <1>1, EmptySeq
<1>3. calls[Len(calls)] \in Activations
  BY <1>1, <1>2, ElementOfSeq
<1>4. Fits(calls[Len(calls)])
  BY <1>2 DEF TypeInv, Depth
<1> QED BY <1>2, <1>3, <1>4 DEF top, Depth, Activations

\* Only the top changes, and not the state saved for it.
LEMMA TopChanges ==
  ASSUME TypeInv, SavedSolvent, calls # <<>>,
         NEW c \in Activations, Fits(c), c.saved = top.saved,
         calls' = [calls EXCEPT ![Depth] = c]
  PROVE  /\ StackOK' /\ SavedSolvent' /\ Depth' = Depth
         /\ Cardinality(Payable(calls, Depth)) =
              Cardinality(Payable(calls, Depth - 1))
                + Cardinality(Due(Depth, top.messages, top.sent))
         /\ Cardinality(Payable(calls', Depth)) =
              Cardinality(Payable(calls, Depth - 1))
                + Cardinality(Due(Depth, c.messages, c.sent))
<1>1. Depth \in Nat \ {0} /\ Depth \in 1 .. Depth /\ calls[Depth] = top
  BY TopType
<1>2. calls \in Seq(Activations) /\ Depth = Len(calls)
  BY DEF TypeInv, Depth
<1>3. /\ calls' \in Seq(Activations) /\ Len(calls') = Depth
      /\ \A l \in 1 .. Depth : calls'[l] = IF l = Depth THEN c ELSE calls[l]
  BY <1>1, <1>2, ExceptSeq
<1>4. Depth' = Depth
  BY <1>3 DEF Depth
<1>5. StackOK'
  BY <1>3, <1>4 DEF StackOK, TypeInv
<1>6. \A d \in 0 .. (Depth - 1) : Payable(calls', d) = Payable(calls, d)
  <2> SUFFICES ASSUME NEW d \in 0 .. (Depth - 1)
               PROVE  Payable(calls', d) = Payable(calls, d)
    OBVIOUS
  <2>1. d \in Nat /\ \A l \in 1 .. d : calls'[l] = calls[l]
    BY <1>1, <1>3
  <2> QED BY <2>1, PayableSame
<1>7. SavedSolvent'
  <2> SUFFICES ASSUME NEW l \in 1 .. Depth
               PROVE  calls'[l].saved.bank[SCHEDULER] =
                        Owed(calls'[l].saved, calls', l - 1)
    BY <1>4 DEF SavedSolvent
  <2>1. calls'[l].saved = calls[l].saved
    BY <1>1, <1>3
  <2>2. Payable(calls', l - 1) = Payable(calls, l - 1)
    <3>1. l - 1 \in 0 .. (Depth - 1)
      BY <1>1
    <3> QED BY <1>6, <3>1
  <2>3. calls[l].saved.bank[SCHEDULER] = Owed(calls[l].saved, calls, l - 1)
    BY DEF SavedSolvent
  <2> QED BY <2>1, <2>2, <2>3 DEF Owed
<1>8. Cardinality(Payable(calls, Depth)) =
        Cardinality(Payable(calls, Depth - 1))
          + Cardinality(Due(Depth, top.messages, top.sent))
  BY <1>1, PayableSplit
<1>9. Cardinality(Payable(calls', Depth)) =
        Cardinality(Payable(calls, Depth - 1))
          + Cardinality(Due(Depth, c.messages, c.sent))
  <2>1. calls'[Depth] = c
    BY <1>1, <1>3
  <2>2. Payable(calls', Depth - 1) = Payable(calls, Depth - 1)
    <3>1. Depth - 1 \in 0 .. (Depth - 1)
      BY <1>1
    <3> QED BY <1>6, <3>1
  <2>3. Cardinality(Payable(calls', Depth)) =
          Cardinality(Payable(calls', Depth - 1))
            + Cardinality(Due(Depth, calls'[Depth].messages, calls'[Depth].sent))
    BY <1>1, PayableSplit
  <2> QED BY <2>1, <2>2, <2>3
<1> QED BY <1>4, <1>5, <1>7, <1>8, <1>9

LEMMA TopLeaves ==
  ASSUME TypeInv, SavedSolvent, calls # <<>>, calls' = Pop
  PROVE  /\ StackOK' /\ SavedSolvent' /\ Depth' = Depth - 1
         /\ Payable(calls', Depth - 1) = Payable(calls, Depth - 1)
<1>1. Depth \in Nat \ {0}
  BY TopType
<1>2. calls \in Seq(Activations) /\ Depth = Len(calls)
  BY DEF TypeInv, Depth
<1>3. \A l \in 1 .. (Depth - 1) : calls[l] \in Activations
  BY <1>1, <1>2
<1>4. /\ calls' \in Seq(Activations) /\ Len(calls') = Depth - 1
      /\ \A l \in 1 .. (Depth - 1) : calls'[l] = calls[l]
  <2>1. /\ calls' \in Seq(Activations)
        /\ Len(calls') = IF 1 <= Depth - 1 THEN (Depth - 1) - 1 + 1 ELSE 0
        /\ \A i \in 1 .. ((Depth - 1) - 1 + 1) : calls'[i] = calls[1 + i - 1]
    BY <1>1, <1>3, SubSeqProperties DEF Pop
  <2> QED BY <1>1, <2>1
<1>5. Depth' = Depth - 1
  BY <1>4 DEF Depth
<1>6. StackOK'
  <2>1. Depth' <= MaxDepth
    BY <1>1, <1>5, SchedulerAssumption DEF TypeInv
  <2>2. \A l \in 1 .. (Depth - 1) : Fits(calls'[l])
    <3> TAKE l \in 1 .. (Depth - 1)
    <3>1. calls'[l] = calls[l] /\ l \in 1 .. Depth
      BY <1>1, <1>4
    <3> QED BY <3>1 DEF TypeInv
  <2> QED BY <1>4, <1>5, <2>1, <2>2 DEF StackOK
<1>7. \A d \in 0 .. (Depth - 1) : Payable(calls', d) = Payable(calls, d)
  <2> SUFFICES ASSUME NEW d \in 0 .. (Depth - 1)
               PROVE  Payable(calls', d) = Payable(calls, d)
    OBVIOUS
  <2>1. d \in Nat /\ \A l \in 1 .. d : calls'[l] = calls[l]
    BY <1>1, <1>4
  <2> QED BY <2>1, PayableSame
<1>8. SavedSolvent'
  <2> SUFFICES ASSUME NEW l \in 1 .. (Depth - 1)
               PROVE  calls'[l].saved.bank[SCHEDULER] =
                        Owed(calls'[l].saved, calls', l - 1)
    BY <1>5 DEF SavedSolvent
  <2>1. calls'[l].saved = calls[l].saved /\ l \in 1 .. Depth
    BY <1>1, <1>4
  <2>2. Payable(calls', l - 1) = Payable(calls, l - 1)
    BY <1>1, <1>7
  <2>3. calls[l].saved.bank[SCHEDULER] = Owed(calls[l].saved, calls, l - 1)
    BY <2>1 DEF SavedSolvent
  <2> QED BY <2>1, <2>2, <2>3 DEF Owed
<1> QED BY <1>1, <1>5, <1>6, <1>7, <1>8

LEMMA TopArrives ==
  ASSUME StackOK, SavedSolvent, Depth < MaxDepth,
         NEW c \in Activations, Fits(c), c.messages = <<>>, c.sent = 0,
         NEW cs \in Seq(Activations), Len(cs) = Depth,
         \A l \in 1 .. Depth : Fits(cs[l]) /\ cs[l].saved = calls[l].saved,
         \A l \in 1 .. (Depth - 1) : cs[l] = calls[l],
         c.saved.bank[SCHEDULER] = Owed(c.saved, cs, Depth),
         calls' = Append(cs, c)
  PROVE  /\ StackOK' /\ SavedSolvent' /\ Depth' = Depth + 1
         /\ Cardinality(Payable(calls', Depth')) =
              Cardinality(Payable(cs, Depth))
<1>1. Depth \in Nat
  BY DEF StackOK, Depth
<1>2. /\ calls' \in Seq(Activations) /\ Len(calls') = Depth + 1
      /\ \A l \in 1 .. Depth : calls'[l] = cs[l]
      /\ calls'[Depth + 1] = c
  BY <1>1
<1>3. Depth' = Depth + 1
  BY <1>2 DEF Depth
<1>4. StackOK'
  <2>1. Depth' <= MaxDepth
    BY <1>1, <1>3, SchedulerAssumption
  <2>2. \A l \in 1 .. (Depth + 1) : Fits(calls'[l])
    BY <1>1, <1>2
  <2> QED BY <1>2, <1>3, <2>1, <2>2 DEF StackOK
<1>5. \A d \in 0 .. Depth : Payable(calls', d) = Payable(cs, d)
  <2> SUFFICES ASSUME NEW d \in 0 .. Depth
               PROVE  Payable(calls', d) = Payable(cs, d)
    OBVIOUS
  <2>1. d \in Nat /\ \A l \in 1 .. d : calls'[l] = cs[l]
    BY <1>1, <1>2
  <2> QED BY <2>1, PayableSame
<1>6. \A d \in 0 .. (Depth - 1) : Payable(cs, d) = Payable(calls, d)
  <2> SUFFICES ASSUME NEW d \in 0 .. (Depth - 1)
               PROVE  Payable(cs, d) = Payable(calls, d)
    OBVIOUS
  <2>1. d \in Nat /\ \A l \in 1 .. d : cs[l] = calls[l]
    BY <1>1
  <2> QED BY <2>1, PayableSame
<1>7. SavedSolvent'
  <2> SUFFICES ASSUME NEW l \in 1 .. (Depth + 1)
               PROVE  calls'[l].saved.bank[SCHEDULER] =
                        Owed(calls'[l].saved, calls', l - 1)
    BY <1>3 DEF SavedSolvent
  <2>1. CASE l = Depth + 1
    <3>1. calls'[l] = c /\ Payable(calls', l - 1) = Payable(cs, Depth)
      BY <1>1, <1>2, <1>5, <2>1
    <3> QED BY <3>1 DEF Owed
  <2>2. CASE l \in 1 .. Depth
    <3>1. calls'[l].saved = calls[l].saved
      BY <1>2, <2>2
    <3>2. Payable(calls', l - 1) = Payable(calls, l - 1)
      BY <1>1, <1>5, <1>6, <2>2
    <3>3. calls[l].saved.bank[SCHEDULER] = Owed(calls[l].saved, calls, l - 1)
      BY <2>2 DEF SavedSolvent
    <3> QED BY <3>1, <3>2, <3>3 DEF Owed
  <2> QED BY <1>1, <2>1, <2>2
<1>8. Cardinality(Payable(calls', Depth + 1)) = Cardinality(Payable(cs, Depth))
  <2>1. Cardinality(Payable(calls', Depth + 1)) =
          Cardinality(Payable(calls', (Depth + 1) - 1))
            + Cardinality(Due(Depth + 1, calls'[Depth + 1].messages,
                              calls'[Depth + 1].sent))
    <3>1. Depth + 1 \in Nat \ {0}
      BY <1>1
    <3> QED BY <3>1, PayableSplit, Zenon
  <2>2. Cardinality(Due(Depth + 1, c.messages, c.sent)) = 0
    <3>1. c.messages \in Seq(Message) /\ c.sent \in Nat
          /\ c.sent >= Len(c.messages)
      BY EmptySeq DEF Activations
    <3> QED BY <3>1, NoneDue, Zenon
  <2>3. Payable(calls', (Depth + 1) - 1) = Payable(cs, Depth)
    BY <1>1, <1>5
  <2>4. Cardinality(Payable(cs, Depth)) \in Nat
    BY <1>1, PayableFinite
  <2> QED BY <1>2, <2>1, <2>2, <2>3, <2>4
<1> QED BY <1>3, <1>4, <1>7, <1>8

-----------------------------------------------------------------------------
(* The invariant is inductive *)

LEMMA WorldTypes ==
  TypeInv => /\ triggers \in Stores
             /\ bank \in [Accounts \cup {SCHEDULER} -> Int]
             /\ bank[SCHEDULER] \in Int
             /\ stranded \in Nat /\ created \in 0 .. MaxCreated
             /\ fate \in [1 .. MaxCreated -> Fates]
BY DEF TypeInv, World, Worlds

LEMMA WorldOf ==
  ASSUME triggers \in Stores, bank \in [Accounts \cup {SCHEDULER} -> Int],
         stranded \in Nat, created \in 0 .. MaxCreated,
         fate \in [1 .. MaxCreated -> Fates]
  PROVE  World \in Worlds
BY DEF World, Worlds

LEMMA StoredTrigger ==
  ASSUME TypeInv, NEW id \in DOMAIN triggers
  PROVE  /\ triggers[id] \in Trigger /\ id \in Nat
         /\ triggers[id].born \in 1 .. MaxCreated
         /\ triggers[id].execution_rebate \in Nat
<1>1. triggers[id] \in Trigger /\ id \in Nat
  BY WorldTypes DEF Stores
<1> QED BY <1>1, SchedulerAssumption DEF Trigger, Amounts

\* Solvency, with the sums it needs spelled out.
LEMMA SolvencyIs ==
  Solvency <=> bank[SCHEDULER] = Cardinality(Escrowed(triggers))
                                   + Cardinality(Payable(calls, Depth)) + stranded
BY DEF Solvency, Owed, World

LEMMA PaidBy ==
  ASSUME bank \in [Accounts \cup {SCHEDULER} -> Int],
         NEW a \in Accounts, NEW n \in Nat
  PROVE  /\ Pay(a, SCHEDULER, n) \in [Accounts \cup {SCHEDULER} -> Int]
         /\ Pay(SCHEDULER, a, n) \in [Accounts \cup {SCHEDULER} -> Int]
         /\ Pay(a, SCHEDULER, n)[SCHEDULER] = bank[SCHEDULER] + n
         /\ Pay(SCHEDULER, a, n)[SCHEDULER] = bank[SCHEDULER] - n
BY SchedulerAssumption DEF Pay

LEMMA CreatePreserves ==
  ASSUME IInv, NEW cmd \in Commands, NEW funds \in Amounts, Create(cmd, funds)
  PROVE  IInv'
<1> DEFINE id == TriggerId(top.actor, cmd)
           t == [owner            |-> top.actor,
                 condition        |-> cmd.condition,
                 contract_address |-> cmd.contract_address,
                 executors        |-> cmd.executors,
                 execution_rebate |-> funds,
                 born             |-> created + 1]
           ms == IF id \in DOMAIN triggers THEN Refund(triggers[id]) ELSE <<>>
           old == IF id \in DOMAIN triggers
                    THEN triggers[id].execution_rebate ELSE 0
           c == [top EXCEPT !.sent = 0, !.messages = ms]
<1>0. /\ TypeInv /\ Solvency /\ SavedSolvent /\ calls # <<>>
      /\ top.ids = <<>> /\ top.sent = Len(top.messages)
  BY DEF IInv, Create, Running
<1>1. /\ top \in Activations /\ top.actor \in Accounts /\ Depth \in Nat \ {0}
      /\ top.messages \in Seq(Message) /\ top.sent \in Nat
      /\ calls \in Seq(Activations) /\ Depth \in DOMAIN calls /\ calls[Depth] = top
  <2>1. /\ top \in Activations /\ top.actor \in Accounts /\ Depth \in Nat \ {0}
        /\ top.messages \in Seq(Message) /\ top.sent \in Nat /\ calls[Depth] = top
    BY <1>0, TopType
  <2>2. calls \in Seq(Activations)
    BY <1>0 DEF TypeInv
  <2>3. DOMAIN calls = 1 .. Depth
    BY <2>2 DEF Depth
  <2> QED BY <2>1, <2>2, <2>3
<1>2. funds \in Nat /\ id \in Nat /\ t \in Trigger
  <2>1. created \in Nat /\ created + 1 \in 1 .. MaxCreated
    BY <1>0, WorldTypes, SchedulerAssumption DEF Create
  <2>2. cmd \in Command /\ id \in Nat
    BY <1>1, SchedulerAssumption
  <2> QED BY <1>1, <2>1, <2>2, SchedulerAssumption
          DEF Trigger, Command, Amounts
<1>3. triggers' = [i \in DOMAIN triggers \cup {id} |->
                     IF i = id THEN t ELSE triggers[i]]
  BY DEF Create
<1>4. /\ triggers' \in Stores
      /\ Cardinality(Escrowed(triggers')) =
           Cardinality(Escrowed(StoreWithout(triggers, id))) + funds
  <2>1. triggers \in Stores
    BY <1>0, WorldTypes
  <2>2. t.execution_rebate = funds
    OBVIOUS
  <2> HIDE DEF id, t
  <2> QED BY <1>2, <1>3, <2>1, <2>2, EscrowInsert
<1>5. /\ ms \in Seq(Message) /\ Len(ms) <= 1 /\ old \in Nat
      /\ Cardinality(Due(Depth, ms, 0)) = old
      /\ Cardinality(Escrowed(triggers)) =
           Cardinality(Escrowed(StoreWithout(triggers, id))) + old
  <2>1. CASE id \in DOMAIN triggers
    <3>1. triggers[id] \in Trigger /\ triggers \in Stores /\ old \in Nat
      BY <1>0, <2>1, StoredTrigger, WorldTypes
    <3> HIDE DEF id
    <3> QED BY <2>1, <3>1, DueAfterRefund, EscrowDelete
  <2>2. CASE id \notin DOMAIN triggers
    <3>1. ms = <<>> /\ old = 0
      BY <2>2
    <3>2. ms \in Seq(Message) /\ Len(ms) = 0
      BY <3>1, EmptySeq
    <3>3. 0 >= Len(ms) /\ 0 \in Nat
      BY <3>2
    <3>4. Cardinality(Due(Depth, ms, 0)) = 0
      BY <3>2, <3>3, NoneDue, Zenon
    <3>5. StoreWithout(triggers, id) = triggers
      BY <1>0, <2>2, WorldTypes DEF StoreWithout, Stores
    <3>6. Cardinality(Escrowed(triggers)) \in Nat
      BY <1>0, WorldTypes, EscrowFinite
    <3> HIDE DEF ms, id
    <3> QED BY <3>1, <3>2, <3>4, <3>5, <3>6
  <2> QED BY <2>1, <2>2
<1>6. c \in Activations /\ c.saved = top.saved /\ c.messages = ms /\ c.sent = 0
      /\ c.ids = <<>>
  BY <1>0, <1>1, <1>5 DEF Activations
<1>7. Fits(c)
  <2>1. Len(c.ids) = 0
    BY <1>6, EmptySeq
  <2> HIDE DEF c, ms
  <2> QED BY <1>5, <1>6, <2>1, SchedulerAssumption DEF Fits
<1>8. calls' = [calls EXCEPT ![Depth] = c]
  BY <1>1 DEF Create
<1> HIDE DEF id, t, ms, old, c
<1>9. /\ StackOK' /\ SavedSolvent' /\ Depth' = Depth
      /\ Cardinality(Payable(calls, Depth)) =
           Cardinality(Payable(calls, Depth - 1))
             + Cardinality(Due(Depth, top.messages, top.sent))
      /\ Cardinality(Payable(calls', Depth)) =
           Cardinality(Payable(calls, Depth - 1))
             + Cardinality(Due(Depth, c.messages, c.sent))
  BY <1>0, <1>6, <1>7, <1>8, TopChanges
<1>10. Cardinality(Due(Depth, top.messages, top.sent)) = 0
  <2>1. top.sent >= Len(top.messages)
    BY <1>0, <1>1
  <2> QED BY <1>1, <2>1, NoneDue, Zenon
<1>11. bank' = Pay(top.actor, SCHEDULER, funds)
       /\ stranded' = stranded /\ created' = created + 1
       /\ height' = height /\ time' = time
  BY DEF Create
<1>12. TypeInv'
  <2>1. bank' \in [Accounts \cup {SCHEDULER} -> Int]
    BY <1>0, <1>1, <1>2, <1>11, WorldTypes, PaidBy
  <2>2. created' \in 0 .. MaxCreated
    BY <1>0, <1>11, WorldTypes, SchedulerAssumption DEF Create
  <2>3. fate' \in [1 .. MaxCreated -> Fates]
    BY <1>0, WorldTypes DEF Create, Fates
  <2>4. World' \in Worlds
    BY <1>0, <1>4, <1>11, <2>1, <2>2, <2>3, WorldTypes DEF World, Worlds
  <2> QED BY <1>0, <1>9, <1>11, <2>4 DEF TypeInv, StackOK
<1>13. Solvency'
  <2>1. bank[SCHEDULER] = Cardinality(Escrowed(triggers))
                            + Cardinality(Payable(calls, Depth)) + stranded
    BY <1>0, SolvencyIs
  <2>2. bank'[SCHEDULER] = bank[SCHEDULER] + funds
    BY <1>0, <1>1, <1>2, <1>11, WorldTypes, PaidBy
  <2>3. /\ Cardinality(Escrowed(StoreWithout(triggers, id))) \in Nat
        /\ Cardinality(Payable(calls, Depth - 1)) \in Nat
        /\ stranded \in Nat
    <3>1. triggers \in Stores /\ stranded \in Nat
      BY <1>0, WorldTypes
    <3>2. StoreWithout(triggers, id) \in Stores
      BY <3>1, StoreWithoutType
    <3>3. Depth - 1 \in Nat
      BY <1>1
    <3> QED BY <3>1, <3>2, <3>3, EscrowFinite, PayableFinite
  <2>4. bank'[SCHEDULER] = Cardinality(Escrowed(triggers'))
                             + Cardinality(Payable(calls', Depth)) + stranded'
    BY <1>2, <1>4, <1>5, <1>6, <1>9, <1>10, <1>11, <2>1, <2>2, <2>3
  <2> QED BY <1>9, <2>4 DEF Solvency, Owed, World
<1> QED BY <1>9, <1>12, <1>13 DEF IInv

LEMMA TopInStack ==
  ASSUME TypeInv, calls # <<>>
  PROVE  /\ calls \in Seq(Activations) /\ Depth \in DOMAIN calls
         /\ Depth \in Nat \ {0} /\ calls[Depth] = top /\ top \in Activations
<1>1. calls \in Seq(Activations)
  BY DEF TypeInv
<1>2. DOMAIN calls = 1 .. Depth
  BY <1>1 DEF Depth
<1> QED BY <1>1, <1>2, TopType

LEMMA ExecutePreserves ==
  ASSUME IInv, NEW ids \in Batches, NEW funds \in Amounts, Execute(ids, funds)
  PROVE  IInv'
<1> DEFINE c == [top EXCEPT !.ids = ids, !.messages = <<>>, !.sent = 0]
<1>0. /\ TypeInv /\ Solvency /\ SavedSolvent /\ calls # <<>>
      /\ top.sent = Len(top.messages)
  BY DEF IInv, Execute, Running
<1>1. /\ top \in Activations /\ top.actor \in Accounts /\ Depth \in Nat \ {0}
      /\ top.messages \in Seq(Message) /\ top.sent \in Nat
      /\ calls \in Seq(Activations) /\ Depth \in DOMAIN calls /\ calls[Depth] = top
  BY <1>0, TopType, TopInStack
<1>2. /\ ids \in Seq(Nat) /\ Len(ids) \in Nat /\ Len(ids) <= MaxBatch
      /\ <<>> \in Seq(Message)
  BY SchedulerAssumption, EmptySeq
<1>3. /\ c \in Activations /\ c.saved = top.saved /\ c.messages = <<>>
      /\ c.sent = 0 /\ c.ids = ids
  BY <1>1, <1>2 DEF Activations
<1>4. Len(c.messages) = 0
  BY <1>3, EmptySeq
<1>5. calls' = [calls EXCEPT ![Depth] = c]
  BY <1>1 DEF Execute
<1> HIDE DEF c
<1>6. Fits(c)
  BY <1>2, <1>3, <1>4, SchedulerAssumption DEF Fits
<1>7. /\ StackOK' /\ SavedSolvent' /\ Depth' = Depth
      /\ Cardinality(Payable(calls, Depth)) =
           Cardinality(Payable(calls, Depth - 1))
             + Cardinality(Due(Depth, top.messages, top.sent))
      /\ Cardinality(Payable(calls', Depth)) =
           Cardinality(Payable(calls, Depth - 1))
             + Cardinality(Due(Depth, c.messages, c.sent))
  BY <1>0, <1>3, <1>5, <1>6, TopChanges
<1>8. Cardinality(Due(Depth, top.messages, top.sent)) = 0
  <2>1. top.sent >= Len(top.messages)
    BY <1>0, <1>1
  <2> QED BY <1>1, <2>1, NoneDue, Zenon
<1>9. Cardinality(Due(Depth, c.messages, c.sent)) = 0
  <2>1. c.messages \in Seq(Message) /\ c.sent \in Nat /\ c.sent >= Len(c.messages)
    BY <1>2, <1>3, <1>4
  <2> QED BY <2>1, NoneDue, Zenon
<1>10. /\ funds \in Nat /\ bank' = Pay(top.actor, SCHEDULER, funds)
       /\ stranded' = stranded + funds /\ triggers' = triggers
       /\ created' = created /\ fate' = fate /\ height' = height /\ time' = time
  BY SchedulerAssumption DEF Execute, Amounts
<1>11. /\ bank' \in [Accounts \cup {SCHEDULER} -> Int]
       /\ bank'[SCHEDULER] = bank[SCHEDULER] + funds
  BY <1>0, <1>1, <1>10, WorldTypes, PaidBy
<1>12. TypeInv'
  <2>1. World' \in Worlds
    BY <1>0, <1>10, <1>11, WorldTypes DEF World, Worlds
  <2> QED BY <1>0, <1>7, <1>10, <2>1 DEF TypeInv, StackOK
<1>13. Solvency'
  <2>1. bank[SCHEDULER] = Cardinality(Escrowed(triggers))
                            + Cardinality(Payable(calls, Depth)) + stranded
    BY <1>0, SolvencyIs
  <2>2. /\ Cardinality(Escrowed(triggers)) \in Nat /\ stranded \in Nat
        /\ Cardinality(Payable(calls, Depth)) \in Nat
    BY <1>0, <1>1, WorldTypes, EscrowFinite, PayableFinite
  <2>3. Cardinality(Payable(calls', Depth)) = Cardinality(Payable(calls, Depth))
    BY <1>7, <1>8, <1>9
  <2>4. bank'[SCHEDULER] = Cardinality(Escrowed(triggers'))
                             + Cardinality(Payable(calls', Depth)) + stranded'
    BY <1>10, <1>11, <2>1, <2>2, <2>3
  <2> QED BY <1>7, <2>4 DEF Solvency, Owed, World
<1> QED BY <1>7, <1>12, <1>13 DEF IInv

\* Room for the messages of the ids still to load.
LEMMA FitsAfterLoad ==
  ASSUME NEW c \in Activations, NEW d \in Activations, Fits(c), c.ids # <<>>,
         d.ids = Tail(c.ids), d.sent = c.sent,
         Len(d.messages) \in Len(c.messages) .. (Len(c.messages) + 2)
  PROVE  /\ Fits(d)
         /\ c.sent <= Len(c.messages)
         /\ Len(c.messages) + 2 <= 2 * MaxBatch
<1> DEFINE m == Len(c.messages)
           n == Len(d.messages)
           i == Len(c.ids)
           j == Len(d.ids)
           b == 2 * MaxBatch
<1>1. m \in Nat /\ n \in Nat /\ i \in Nat /\ b \in Nat
  BY LenProperties, SchedulerAssumption DEF Activations
<1>2. j = i - 1 /\ j \in Nat
  <2>1. c.ids \in Seq(Nat) /\ d.ids \in Seq(Nat)
    BY DEF Activations
  <2> QED BY <1>1, <2>1, HeadTailProperties, LenProperties
<1>3. m + 2 * i <= b /\ c.sent <= m
  BY DEF Fits
<1>4. n <= m + 2 /\ m <= n /\ c.sent \in Nat
  BY <1>1 DEF Activations
<1>5. Fits(d) <=> n + 2 * j <= b /\ c.sent <= n
  BY DEF Fits
<1> HIDE DEF m, n, i, j, b
<1>6. n + 2 * j <= b /\ c.sent <= n /\ m + 2 <= b
  BY <1>1, <1>2, <1>3, <1>4
<1> QED BY <1>3, <1>5, <1>6 DEF m, b

\* There is room for the messages of the next id.
LEMMA RoomToLoad ==
  ASSUME TypeInv, calls # <<>>, top.ids # <<>>
  PROVE  top.sent <= Len(top.messages) /\ Len(top.messages) + 2 <= 2 * MaxBatch
<1> DEFINE skip == [top EXCEPT !.ids = Tail(top.ids)]
<1>1. /\ top \in Activations /\ Fits(top)
      /\ top.ids \in Seq(Nat) /\ top.messages \in Seq(Message)
  BY TopType
<1>2. Tail(top.ids) \in Seq(Nat) /\ Len(top.messages) \in Nat
  BY <1>1, HeadTailProperties, LenProperties
<1>3. /\ skip \in Activations /\ skip.ids = Tail(top.ids)
      /\ skip.sent = top.sent /\ skip.messages = top.messages
  BY <1>1, <1>2 DEF Activations
<1> HIDE DEF skip
<1>4. Len(skip.messages) \in Len(top.messages) .. (Len(top.messages) + 2)
  BY <1>2, <1>3
<1> QED BY <1>1, <1>3, <1>4, FitsAfterLoad

LEMMA SkipPreserves ==
  ASSUME IInv, SkipTrigger
  PROVE  IInv'
<1> DEFINE c == [top EXCEPT !.ids = Tail(top.ids)]
<1>0. /\ TypeInv /\ Solvency /\ SavedSolvent /\ calls # <<>>
      /\ top.ids # <<>> /\ UNCHANGED <<triggers, bank, stranded, created, fate,
                                       height, time>>
  BY DEF IInv, SkipTrigger
<1>1. /\ calls \in Seq(Activations) /\ Depth \in DOMAIN calls
      /\ Depth \in Nat \ {0} /\ calls[Depth] = top /\ top \in Activations
      /\ top.ids \in Seq(Nat) /\ top.messages \in Seq(Message) /\ Fits(top)
  BY <1>0, TopType, TopInStack
<1>2. Tail(top.ids) \in Seq(Nat) /\ Len(Tail(top.ids)) = Len(top.ids) - 1
  BY <1>0, <1>1, HeadTailProperties
<1>3. /\ c \in Activations /\ c.saved = top.saved /\ c.messages = top.messages
      /\ c.sent = top.sent /\ c.ids = Tail(top.ids)
  BY <1>1, <1>2 DEF Activations
<1>4. calls' = [calls EXCEPT ![Depth] = c]
  BY <1>1 DEF SkipTrigger
<1> HIDE DEF c
<1>5. Fits(c)
  <2>1. Len(c.messages) \in Len(top.messages) .. (Len(top.messages) + 2)
    BY <1>1, <1>3, LenProperties
  <2> QED BY <1>0, <1>1, <1>3, <2>1, FitsAfterLoad
<1>6. /\ StackOK' /\ SavedSolvent' /\ Depth' = Depth
      /\ Cardinality(Payable(calls, Depth)) =
           Cardinality(Payable(calls, Depth - 1))
             + Cardinality(Due(Depth, top.messages, top.sent))
      /\ Cardinality(Payable(calls', Depth)) =
           Cardinality(Payable(calls, Depth - 1))
             + Cardinality(Due(Depth, c.messages, c.sent))
  BY <1>0, <1>3, <1>4, <1>5, TopChanges
<1>7. TypeInv'
  BY <1>0, <1>6 DEF TypeInv, StackOK, World
<1>8. Solvency'
  <2>1. Cardinality(Payable(calls', Depth)) = Cardinality(Payable(calls, Depth))
    BY <1>3, <1>6
  <2> QED BY <1>0, <1>6, <2>1 DEF Solvency, Owed, World
<1> QED BY <1>6, <1>7, <1>8 DEF IInv

LEMMA TakePreserves ==
  ASSUME IInv, TakeTrigger
  PROVE  IInv'
<1> DEFINE id == Head(top.ids)
           t == triggers[id]
           ms == top.messages \o CallAndRebate(t)
           c == [top EXCEPT !.ids = Tail(top.ids), !.messages = ms]
<1>0. /\ TypeInv /\ Solvency /\ SavedSolvent /\ calls # <<>>
      /\ top.ids # <<>> /\ id \in DOMAIN triggers
      /\ UNCHANGED <<bank, stranded, created, height, time>>
  BY DEF IInv, TakeTrigger, Executable
<1>1. /\ calls \in Seq(Activations) /\ Depth \in DOMAIN calls
      /\ Depth \in Nat \ {0} /\ calls[Depth] = top /\ top \in Activations
      /\ top.ids \in Seq(Nat) /\ top.messages \in Seq(Message) /\ Fits(top)
      /\ top.actor \in Accounts /\ top.sent \in Nat
  BY <1>0, TopType, TopInStack
<1>2. /\ Tail(top.ids) \in Seq(Nat) /\ Len(Tail(top.ids)) = Len(top.ids) - 1
      /\ Len(top.ids) \in Nat /\ Len(Tail(top.ids)) \in Nat
      /\ Len(top.messages) \in Nat
  BY <1>0, <1>1, HeadTailProperties, LenProperties
<1>3. t \in Trigger /\ t.execution_rebate \in Nat /\ t.born \in 1 .. MaxCreated
  BY <1>0, StoredTrigger
<1>4. top.sent <= Len(top.messages) /\ Len(top.messages) + 2 <= 2 * MaxBatch
  BY <1>0, RoomToLoad
<1>5. /\ ms \in Seq(Message) /\ Len(ms) \in Len(top.messages) .. (Len(top.messages) + 2)
      /\ Cardinality(Due(Depth, ms, top.sent)) =
           Cardinality(Due(Depth, top.messages, top.sent)) + t.execution_rebate
  <2>1. \A u \in Trigger :
          /\ top.messages \o CallAndRebate(u) \in Seq(Message)
          /\ Len(top.messages \o CallAndRebate(u)) \in
               Len(top.messages) .. (Len(top.messages) + 2)
          /\ Cardinality(Due(Depth, top.messages \o CallAndRebate(u), top.sent)) =
               Cardinality(Due(Depth, top.messages, top.sent))
                 + u.execution_rebate
    BY <1>1, <1>4, DueAfterTake
  <2> QED BY <1>3, <2>1
<1>6. /\ c \in Activations /\ c.saved = top.saved /\ c.messages = ms
      /\ c.sent = top.sent /\ c.ids = Tail(top.ids)
  <2> HIDE DEF ms
  <2> QED BY <1>1, <1>2, <1>5 DEF Activations
<1>7. calls' = [calls EXCEPT ![Depth] = c]
  BY <1>1 DEF TakeTrigger
<1>8. triggers' = StoreWithout(triggers, id)
  BY DEF TakeTrigger, Without, StoreWithout
<1>9. fate' = [fate EXCEPT ![t.born] = "taken"]
  BY DEF TakeTrigger
<1> HIDE DEF c, ms, t, id
<1>10. Fits(c)
  BY <1>0, <1>1, <1>5, <1>6, FitsAfterLoad
<1>11. /\ StackOK' /\ SavedSolvent' /\ Depth' = Depth
      /\ Cardinality(Payable(calls, Depth)) =
           Cardinality(Payable(calls, Depth - 1))
             + Cardinality(Due(Depth, top.messages, top.sent))
      /\ Cardinality(Payable(calls', Depth)) =
           Cardinality(Payable(calls, Depth - 1))
             + Cardinality(Due(Depth, c.messages, c.sent))
  BY <1>0, <1>6, <1>7, <1>10, TopChanges
<1>12. TypeInv'
  <2>1. triggers' \in Stores
    BY <1>0, <1>8, WorldTypes, StoreWithoutType
  <2>2. fate' \in [1 .. MaxCreated -> Fates]
    BY <1>0, <1>9, WorldTypes DEF Fates
  <2>3. World' \in Worlds
    BY <1>0, <2>1, <2>2, WorldTypes DEF World, Worlds
  <2> QED BY <1>0, <1>11, <2>3 DEF TypeInv, StackOK
<1>13. Solvency'
  <2>1. bank[SCHEDULER] = Cardinality(Escrowed(triggers))
                            + Cardinality(Payable(calls, Depth)) + stranded
    BY <1>0, SolvencyIs
  <2>2. Cardinality(Escrowed(triggers)) =
          Cardinality(Escrowed(triggers')) + t.execution_rebate
    BY <1>0, <1>8, WorldTypes, EscrowDelete DEF t
  <2>3. /\ Cardinality(Escrowed(triggers')) \in Nat /\ stranded \in Nat
        /\ Cardinality(Payable(calls, Depth - 1)) \in Nat
        /\ Cardinality(Due(Depth, top.messages, top.sent)) \in Nat
    <3>1. triggers' \in Stores /\ stranded \in Nat /\ Depth - 1 \in Nat
      BY <1>0, <1>1, <1>8, WorldTypes, StoreWithoutType
    <3> QED BY <3>1, EscrowFinite, PayableFinite, DueFinite
  <2>4. bank'[SCHEDULER] = Cardinality(Escrowed(triggers'))
                             + Cardinality(Payable(calls', Depth)) + stranded'
    BY <1>0, <1>3, <1>5, <1>6, <1>11, <2>1, <2>2, <2>3
  <2> QED BY <1>11, <2>4 DEF Solvency, Owed, World
<1> QED BY <1>11, <1>12, <1>13 DEF IInv

LEMMA FitsAfterSend ==
  ASSUME NEW c \in Activations, NEW d \in Activations, Fits(c),
         c.sent < Len(c.messages),
         d.ids = c.ids, d.messages = c.messages, d.sent = c.sent + 1
  PROVE  Fits(d) /\ Len(c.messages) <= 2 * MaxBatch
<1> DEFINE m == Len(c.messages)
           i == Len(c.ids)
           b == 2 * MaxBatch
<1>1. m \in Nat /\ i \in Nat /\ b \in Nat /\ c.sent \in Nat
  BY LenProperties, SchedulerAssumption DEF Activations
<1>2. m + 2 * i <= b /\ c.sent < m
  BY DEF Fits
<1>3. Fits(d) <=> m + 2 * i <= b /\ d.sent <= m
  BY DEF Fits
<1> HIDE DEF m, i, b
<1>4. m <= b /\ d.sent <= m
  BY <1>1, <1>2
<1> QED BY <1>2, <1>3, <1>4 DEF m, b

\* What dispatching the next message of the top does to the stack.
LEMMA MessageSent ==
  ASSUME IInv, Dispatching, NEW cs,
         cs = [calls EXCEPT ![Depth].sent = top.sent + 1]
  PROVE  /\ message \in Message
         /\ Depth \in Nat \ {0} /\ calls \in Seq(Activations)
         /\ \E c \in Activations :
              /\ cs = [calls EXCEPT ![Depth] = c]
              /\ Fits(c) /\ c.saved = top.saved
              /\ c.messages = top.messages /\ c.sent = top.sent + 1
              /\ Cardinality(Due(Depth, top.messages, top.sent)) =
                   Cardinality(Due(Depth, c.messages, c.sent))
                     + MessageCoins(message)
<1> DEFINE c == [top EXCEPT !.sent = top.sent + 1]
<1>0. TypeInv /\ calls # <<>> /\ top.sent < Len(top.messages)
  BY DEF IInv, Dispatching
<1>1. /\ calls \in Seq(Activations) /\ Depth \in DOMAIN calls
      /\ Depth \in Nat \ {0} /\ calls[Depth] = top /\ top \in Activations
      /\ top.messages \in Seq(Message) /\ Fits(top) /\ top.sent \in Nat
  BY <1>0, TopType, TopInStack
<1>2. Len(top.messages) \in Nat /\ message \in Message
  <2>1. top.sent + 1 \in 1 .. Len(top.messages)
    BY <1>0, <1>1, LenProperties
  <2> QED BY <1>1, <2>1, ElementOfSeq, LenProperties DEF message
<1>3. /\ c \in Activations /\ c.saved = top.saved /\ c.sent = top.sent + 1
      /\ c.messages = top.messages /\ c.ids = top.ids
  <2>1. top.sent + 1 \in Nat
    BY <1>1
  <2>2. \A n \in Nat : [top EXCEPT !.sent = n] \in Activations
    BY <1>1 DEF Activations
  <2>3. c \in Activations
    BY <2>1, <2>2
  <2>4. /\ c.saved = top.saved /\ c.sent = top.sent + 1
        /\ c.messages = top.messages /\ c.ids = top.ids
    BY <1>1 DEF Activations
  <2> QED BY <2>3, <2>4
<1>4. cs = [calls EXCEPT ![Depth] = c]
  BY <1>1
<1> HIDE DEF c
<1>5. Fits(c) /\ Len(top.messages) <= 2 * MaxBatch
  BY <1>0, <1>1, <1>3, FitsAfterSend
<1>7. Cardinality(Due(Depth, top.messages, top.sent)) =
        Cardinality(Due(Depth, top.messages, top.sent + 1))
          + MessageCoins(top.messages[top.sent + 1])
  BY <1>0, <1>1, <1>5, DueAfterSend, Zenon
<1> QED BY <1>1, <1>2, <1>3, <1>4, <1>5, <1>7 DEF message

LEMMA NextMessage ==
  ASSUME IInv, Dispatching
  PROVE  message \in Message /\ Depth \in Nat \ {0}
<1>1. PICK cs : cs = [calls EXCEPT ![Depth].sent = top.sent + 1]
  OBVIOUS
<1> QED BY <1>1, MessageSent

LEMMA SendPreserves ==
  ASSUME IInv, SendRebate
  PROVE  IInv'
<1>0. /\ TypeInv /\ Solvency /\ SavedSolvent /\ calls # <<>> /\ Dispatching
      /\ message.kind = "send"
      /\ bank' = Pay(SCHEDULER, message.to, message.amount)
      /\ UNCHANGED <<triggers, stranded, created, fate, height, time>>
  BY DEF IInv, SendRebate, Dispatching
<1>1. calls' = [calls EXCEPT ![Depth].sent = top.sent + 1]
  BY <1>0, TopInStack DEF SendRebate
<1>2. message \in Message /\ Depth \in Nat \ {0}
  BY <1>0, <1>1, MessageSent
<1>3. PICK c \in Activations :
        /\ calls' = [calls EXCEPT ![Depth] = c]
        /\ Fits(c) /\ c.saved = top.saved
        /\ c.messages = top.messages /\ c.sent = top.sent + 1
        /\ Cardinality(Due(Depth, top.messages, top.sent)) =
             Cardinality(Due(Depth, c.messages, c.sent)) + MessageCoins(message)
  BY <1>0, <1>1, MessageSent
<1>4. /\ StackOK' /\ SavedSolvent' /\ Depth' = Depth
      /\ Cardinality(Payable(calls, Depth)) =
           Cardinality(Payable(calls, Depth - 1))
             + Cardinality(Due(Depth, top.messages, top.sent))
      /\ Cardinality(Payable(calls', Depth)) =
           Cardinality(Payable(calls, Depth - 1))
             + Cardinality(Due(Depth, c.messages, c.sent))
  BY <1>0, <1>3, TopChanges
<1>5. /\ message.to \in Accounts /\ message.amount \in Nat
      /\ MessageCoins(message) = message.amount
  BY <1>0, <1>2, SchedulerAssumption DEF Message, MessageCoins
<1>6. /\ bank' \in [Accounts \cup {SCHEDULER} -> Int]
      /\ bank'[SCHEDULER] = bank[SCHEDULER] - message.amount
  BY <1>0, <1>5, WorldTypes, PaidBy
<1>7. TypeInv'
  <2>1. World' \in Worlds
    BY <1>0, <1>6, WorldTypes DEF World, Worlds
  <2> QED BY <1>0, <1>4, <2>1 DEF TypeInv, StackOK
<1>8. Solvency'
  <2>1. bank[SCHEDULER] = Cardinality(Escrowed(triggers))
                            + Cardinality(Payable(calls, Depth)) + stranded
    BY <1>0, SolvencyIs
  <2>2. /\ Cardinality(Escrowed(triggers)) \in Nat /\ stranded \in Nat
        /\ Cardinality(Payable(calls, Depth - 1)) \in Nat
        /\ Cardinality(Due(Depth, c.messages, c.sent)) \in Nat
    <3>1. Depth - 1 \in Nat
      BY <1>2
    <3> QED BY <1>0, <3>1, WorldTypes, EscrowFinite, PayableFinite, DueFinite
  <2>3. bank'[SCHEDULER] = Cardinality(Escrowed(triggers'))
                             + Cardinality(Payable(calls', Depth)) + stranded'
    BY <1>0, <1>3, <1>4, <1>5, <1>6, <2>1, <2>2
  <2> QED BY <1>4, <2>3 DEF Solvency, Owed, World
<1> QED BY <1>4, <1>7, <1>8 DEF IInv

LEMMA CalledType ==
  ASSUME TypeInv, NEW n \in 1 .. MaxCreated
  PROVE  Called(n) \in [1 .. MaxCreated -> Fates]
BY WorldTypes DEF Called, Fates

LEMMA FailsAtOncePreserves ==
  ASSUME IInv, TargetFailsAtOnce
  PROVE  IInv'
<1>0. /\ TypeInv /\ Solvency /\ SavedSolvent /\ calls # <<>> /\ Dispatching
      /\ message.kind = "call" /\ fate' = Called(message.born)
      /\ UNCHANGED <<triggers, bank, stranded, created, height, time>>
  BY DEF IInv, TargetFailsAtOnce, Dispatching
<1>1. calls' = [calls EXCEPT ![Depth].sent = top.sent + 1]
  BY <1>0, TopInStack DEF TargetFailsAtOnce
<1>2. message \in Message /\ Depth \in Nat \ {0}
  BY <1>0, <1>1, MessageSent
<1>3. PICK c \in Activations :
        /\ calls' = [calls EXCEPT ![Depth] = c]
        /\ Fits(c) /\ c.saved = top.saved
        /\ c.messages = top.messages /\ c.sent = top.sent + 1
        /\ Cardinality(Due(Depth, top.messages, top.sent)) =
             Cardinality(Due(Depth, c.messages, c.sent)) + MessageCoins(message)
  BY <1>0, <1>1, MessageSent
<1>4. /\ StackOK' /\ SavedSolvent' /\ Depth' = Depth
      /\ Cardinality(Payable(calls, Depth)) =
           Cardinality(Payable(calls, Depth - 1))
             + Cardinality(Due(Depth, top.messages, top.sent))
      /\ Cardinality(Payable(calls', Depth)) =
           Cardinality(Payable(calls, Depth - 1))
             + Cardinality(Due(Depth, c.messages, c.sent))
  BY <1>0, <1>3, TopChanges
<1>5. MessageCoins(message) = 0 /\ message.born \in 1 .. MaxCreated
  BY <1>0, <1>2 DEF Message, MessageCoins
<1>6. TypeInv'
  <2>1. fate' \in [1 .. MaxCreated -> Fates]
    BY <1>0, <1>5, CalledType
  <2>2. World' \in Worlds
    BY <1>0, <2>1, WorldTypes DEF World, Worlds
  <2> QED BY <1>0, <1>4, <2>2 DEF TypeInv, StackOK
<1>7. Solvency'
  <2>1. Cardinality(Due(Depth, c.messages, c.sent)) \in Nat
    BY DueFinite
  <2>2. Cardinality(Payable(calls', Depth)) = Cardinality(Payable(calls, Depth))
    BY <1>3, <1>4, <1>5, <2>1
  <2> QED BY <1>0, <1>4, <2>2 DEF Solvency, Owed, World
<1> QED BY <1>4, <1>6, <1>7 DEF IInv

\* A called contract starts with nothing of its own to be dispatched.
LEMMA NewActivation ==
  ASSUME NEW a \in Accounts, NEW w \in Worlds
  PROVE  /\ Activation(a, w) \in Activations /\ Fits(Activation(a, w))
         /\ Activation(a, w).messages = <<>> /\ Activation(a, w).sent = 0
         /\ Activation(a, w).saved = w
<1> DEFINE c == Activation(a, w)
           empty == <<>>
<1>1. empty \in Seq(Nat) /\ empty \in Seq(Message) /\ Len(empty) = 0
  BY EmptySeq
<1>2. c = [actor |-> a, ids |-> empty, messages |-> empty, sent |-> 0, saved |-> w]
  BY DEF Activation
<1> HIDE DEF c, empty
<1>3. c \in Activations /\ c.messages = empty /\ c.sent = 0 /\ c.saved = w
      /\ c.ids = empty
  BY <1>1, <1>2 DEF Activations
<1>4. Fits(c)
  BY <1>1, <1>3, SchedulerAssumption DEF Fits
<1> QED BY <1>3, <1>4 DEF c, empty

LEMMA CallPreserves ==
  ASSUME IInv, CallTarget
  PROVE  IInv'
<1> DEFINE cs == [calls EXCEPT ![Depth].sent = top.sent + 1]
           w == [World EXCEPT !.fate = Called(message.born)]
           new == Activation(message.to, w)
<1>0. /\ TypeInv /\ Solvency /\ SavedSolvent /\ calls # <<>> /\ Dispatching
      /\ message.kind = "call" /\ fate' = Called(message.born)
      /\ Depth < MaxDepth
      /\ UNCHANGED <<triggers, bank, stranded, created, height, time>>
  BY DEF IInv, CallTarget, Dispatching
<1>1. calls' = Append(cs, new)
  BY <1>0, TopInStack DEF CallTarget
<1>2. /\ message \in Message /\ Depth \in Nat \ {0} /\ Depth \in 1 .. Depth
      /\ calls \in Seq(Activations) /\ calls[Depth] = top
  BY <1>0, NextMessage, TopInStack DEF IInv
<1>3. PICK c \in Activations :
        /\ cs = [calls EXCEPT ![Depth] = c]
        /\ Fits(c) /\ c.saved = top.saved
        /\ c.messages = top.messages /\ c.sent = top.sent + 1
        /\ Cardinality(Due(Depth, top.messages, top.sent)) =
             Cardinality(Due(Depth, c.messages, c.sent)) + MessageCoins(message)
  BY <1>0, MessageSent
<1>4. /\ message.to \in Accounts /\ MessageCoins(message) = 0
      /\ message.born \in 1 .. MaxCreated
  BY <1>0, <1>2 DEF Message, MessageCoins, Accounts
<1>5. /\ w \in Worlds /\ w.triggers = triggers /\ w.bank = bank
      /\ w.stranded = stranded
  BY <1>0, <1>4, CalledType, WorldTypes DEF World, Worlds
<1>6. /\ new \in Activations /\ Fits(new) /\ new.messages = <<>>
      /\ new.sent = 0 /\ new.saved = w
  BY <1>4, <1>5, NewActivation
<1> HIDE DEF cs, new
<1>7. /\ cs \in Seq(Activations) /\ Len(cs) = Depth /\ cs[Depth] = c
      /\ \A l \in 1 .. Depth : cs[l] = IF l = Depth THEN c ELSE calls[l]
  BY <1>2, <1>3, ExceptSeq DEF Depth
<1>8. \A l \in 1 .. Depth : Fits(cs[l]) /\ cs[l].saved = calls[l].saved
  BY <1>0, <1>2, <1>3, <1>7 DEF TypeInv
<1>9. Cardinality(Payable(cs, Depth)) = Cardinality(Payable(calls, Depth))
  <2>1. Payable(cs, Depth - 1) = Payable(calls, Depth - 1)
    <3>1. Depth - 1 \in Nat /\ \A l \in 1 .. (Depth - 1) : cs[l] = calls[l]
      BY <1>2, <1>7
    <3> QED BY <3>1, PayableSame
  <2>2. /\ Cardinality(Payable(cs, Depth)) =
             Cardinality(Payable(cs, Depth - 1))
               + Cardinality(Due(Depth, cs[Depth].messages, cs[Depth].sent))
        /\ Cardinality(Payable(calls, Depth)) =
             Cardinality(Payable(calls, Depth - 1))
               + Cardinality(Due(Depth, calls[Depth].messages, calls[Depth].sent))
    BY <1>2, PayableSplit
  <2>3. Cardinality(Due(Depth, c.messages, c.sent)) \in Nat
    BY DueFinite
  <2> QED BY <1>2, <1>3, <1>4, <1>7, <2>1, <2>2, <2>3
<1>10. w.bank[SCHEDULER] = Owed(w, cs, Depth)
  BY <1>0, <1>5, <1>9, SolvencyIs DEF Owed
<1>11. /\ StackOK' /\ SavedSolvent' /\ Depth' = Depth + 1
       /\ Cardinality(Payable(calls', Depth')) = Cardinality(Payable(cs, Depth))
  <2>1. StackOK
    BY <1>0 DEF TypeInv, StackOK
  <2>2. \A l \in 1 .. (Depth - 1) : cs[l] = calls[l]
    BY <1>2, <1>7
  <2> QED BY <1>0, <1>1, <1>6, <1>7, <1>8, <1>10, <2>1, <2>2, TopArrives
<1>12. TypeInv'
  <2>1. fate' \in [1 .. MaxCreated -> Fates]
    BY <1>0, <1>4, CalledType
  <2>2. World' \in Worlds
    BY <1>0, <2>1, WorldTypes DEF World, Worlds
  <2> QED BY <1>0, <1>11, <2>2 DEF TypeInv, StackOK
<1>13. Solvency'
  BY <1>0, <1>9, <1>11 DEF Solvency, Owed, World
<1> QED BY <1>11, <1>12, <1>13 DEF IInv

\* A transaction's first activation: nothing is owed to it yet.
LEMMA BeginPreserves ==
  ASSUME IInv, NEW u \in Users, Begin(u)
  PROVE  IInv'
<1> DEFINE new == Activation(u, World)
           empty == <<>>
<1>0. /\ TypeInv /\ Solvency /\ SavedSolvent /\ calls = empty
      /\ calls' = Append(calls, new)
      /\ UNCHANGED <<triggers, bank, stranded, created, fate, height, time>>
  BY DEF IInv, Begin
<1>1. calls \in Seq(Activations) /\ Len(calls) = 0 /\ Depth = 0
  BY <1>0, EmptySeq DEF Depth
<1>2. /\ new \in Activations /\ Fits(new) /\ new.messages = <<>>
      /\ new.sent = 0 /\ new.saved = World
  BY <1>0, NewActivation DEF TypeInv, Accounts
<1> HIDE DEF new, empty
<1>3. World.bank = bank
  BY DEF World
<1>4. /\ StackOK' /\ SavedSolvent' /\ Depth' = Depth + 1
      /\ Cardinality(Payable(calls', Depth')) = Cardinality(Payable(calls, Depth))
  <2>1. StackOK /\ Depth < MaxDepth /\ Len(calls) = Depth
    BY <1>0, <1>1, SchedulerAssumption DEF TypeInv, StackOK
  <2>2. \A l \in 1 .. Depth : Fits(calls[l]) /\ calls[l].saved = calls[l].saved
    BY <1>0 DEF TypeInv
  <2>3. new.saved.bank[SCHEDULER] = Owed(new.saved, calls, Depth)
    BY <1>0, <1>2, <1>3 DEF Solvency
  <2> QED BY <1>0, <1>1, <1>2, <2>1, <2>2, <2>3, TopArrives
<1>5. TypeInv'
  BY <1>0, <1>4 DEF TypeInv, StackOK, World
<1>6. Solvency'
  BY <1>0, <1>4 DEF Solvency, Owed, World
<1> QED BY <1>4, <1>5, <1>6 DEF IInv

LEMMA ReturnPreserves ==
  ASSUME IInv, Return
  PROVE  IInv'
<1>0. /\ TypeInv /\ Solvency /\ SavedSolvent /\ calls # <<>>
      /\ calls' = Pop /\ top.sent = Len(top.messages)
      /\ UNCHANGED <<triggers, bank, stranded, created, fate, height, time>>
  BY DEF IInv, Return, Running
<1>1. /\ StackOK' /\ SavedSolvent' /\ Depth' = Depth - 1
      /\ Payable(calls', Depth - 1) = Payable(calls, Depth - 1)
  BY <1>0, TopLeaves
<1>2. Cardinality(Payable(calls', Depth')) = Cardinality(Payable(calls, Depth))
  <2>1. /\ Depth \in Nat \ {0} /\ calls[Depth] = top /\ top.sent \in Nat
        /\ top.messages \in Seq(Message) /\ top.sent >= Len(top.messages)
    BY <1>0, TopType
  <2>2. Cardinality(Due(Depth, top.messages, top.sent)) = 0
    BY <2>1, NoneDue, Zenon
  <2>3. Cardinality(Payable(calls, Depth)) =
          Cardinality(Payable(calls, Depth - 1))
            + Cardinality(Due(Depth, calls[Depth].messages, calls[Depth].sent))
    BY <2>1, PayableSplit
  <2>4. Cardinality(Payable(calls, Depth - 1)) \in Nat
    <3>1. Depth - 1 \in Nat
      BY <2>1
    <3> QED BY <3>1, PayableFinite
  <2> QED BY <1>1, <2>1, <2>2, <2>3, <2>4
<1>3. TypeInv'
  BY <1>0, <1>1 DEF TypeInv, StackOK, World
<1>4. Solvency'
  BY <1>0, <1>1, <1>2 DEF Solvency, Owed, World
<1> QED BY <1>1, <1>3, <1>4 DEF IInv

LEMMA FailPreserves ==
  ASSUME IInv, Fail
  PROVE  IInv'
<1>0. /\ TypeInv /\ SavedSolvent /\ calls # <<>> /\ calls' = Pop
      /\ Restore(top.saved) /\ UNCHANGED <<height, time>>
  BY DEF IInv, Fail, Running
<1>1. /\ StackOK' /\ SavedSolvent' /\ Depth' = Depth - 1
      /\ Payable(calls', Depth - 1) = Payable(calls, Depth - 1)
  BY <1>0, TopLeaves
<1>2. /\ Depth \in 1 .. Depth /\ calls[Depth] = top /\ top.saved \in Worlds
  BY <1>0, TopType
<1>3. World' = top.saved
  BY <1>0, <1>2 DEF World, Restore, Worlds
<1>4. TypeInv'
  BY <1>0, <1>1, <1>2, <1>3 DEF TypeInv, StackOK
<1>5. Solvency'
  <2>1. top.saved.bank[SCHEDULER] = Owed(top.saved, calls, Depth - 1)
    BY <1>0, <1>2 DEF SavedSolvent
  <2>2. bank' = top.saved.bank
    BY <1>0 DEF Restore
  <2>3. Owed(World', calls', Depth') = Owed(top.saved, calls, Depth - 1)
    BY <1>1, <1>3 DEF Owed
  <2> QED BY <2>1, <2>2, <2>3 DEF Solvency
<1> QED BY <1>1, <1>4, <1>5 DEF IInv

LEMMA BlockPreserves ==
  ASSUME IInv, NextBlock
  PROVE  IInv'
<1>0. UNCHANGED <<triggers, bank, stranded, created, fate, calls>>
  BY DEF NextBlock
<1>1. height' \in 0 .. MaxHeight /\ time' \in Nat
  BY SchedulerAssumption DEF IInv, TypeInv, NextBlock
<1> QED BY <1>0, <1>1
        DEF IInv, TypeInv, World, Depth, Solvency, SavedSolvent, Owed

LEMMA StutterPreserves ==
  ASSUME IInv, UNCHANGED vars
  PROVE  IInv'
BY DEF IInv, vars, TypeInv, World, Depth, Solvency, SavedSolvent, Owed

LEMMA InitIInv == Init => IInv
<1> SUFFICES ASSUME Init PROVE IInv
  OBVIOUS
<1>1. calls \in Seq(Activations) /\ Len(calls) = 0 /\ Depth = 0
  BY EmptySeq DEF Init, Depth
<1>2. DOMAIN triggers = {} /\ triggers \in Stores
  <2>1. IsFiniteSet({}) /\ {} \in SUBSET Nat
    BY FS_EmptySet
  <2>2. DOMAIN triggers = {} /\ triggers \in [{} -> Trigger]
    BY DEF Init
  <2> QED BY <2>1, <2>2 DEF Stores
<1>3. Cardinality(Escrowed(triggers)) = 0
  <2>1. Escrowed(triggers) = {}
    BY <1>2 DEF Escrowed
  <2> QED BY <2>1, FS_EmptySet
<1>4. Cardinality(Payable(calls, Depth)) = 0
  <2>1. Payable(calls, Depth) = {}
    BY <1>1 DEF Payable
  <2> QED BY <2>1, FS_EmptySet
<1>5. TypeInv
  <2>1. World \in Worlds
    BY <1>2, SchedulerAssumption DEF Init, World, Worlds, Fates
  <2>2. /\ Depth <= MaxDepth /\ \A l \in 1 .. Depth : Fits(calls[l])
        /\ height \in 0 .. MaxHeight /\ time \in Nat
    BY <1>1, SchedulerAssumption DEF Init
  <2> QED BY <1>1, <2>1, <2>2 DEF TypeInv
<1>6. Solvency
  <2>1. bank[SCHEDULER] = 0 /\ stranded = 0
    BY DEF Init
  <2> QED BY <1>3, <1>4, <2>1, SolvencyIs
<1>7. SavedSolvent
  BY <1>1 DEF SavedSolvent
<1> QED BY <1>5, <1>6, <1>7 DEF IInv

LEMMA NextIInv == IInv /\ [Next]_vars => IInv'
<1> SUFFICES ASSUME IInv, [Next]_vars PROVE IInv'
  OBVIOUS
<1>1. CASE NextBlock BY <1>1, BlockPreserves
<1>2. CASE \E u \in Users : Begin(u) BY <1>2, BeginPreserves
<1>3. CASE \E cmd \in Commands, funds \in Amounts : Create(cmd, funds)
  BY <1>3, CreatePreserves
<1>4. CASE \E ids \in Batches, funds \in Amounts : Execute(ids, funds)
  BY <1>4, ExecutePreserves
<1>5. CASE SkipTrigger BY <1>5, SkipPreserves
<1>6. CASE TakeTrigger BY <1>6, TakePreserves
<1>7. CASE SendRebate BY <1>7, SendPreserves
<1>8. CASE CallTarget BY <1>8, CallPreserves
<1>9. CASE TargetFailsAtOnce BY <1>9, FailsAtOncePreserves
<1>10. CASE Return BY <1>10, ReturnPreserves
<1>11. CASE Fail BY <1>11, FailPreserves
<1>12. CASE UNCHANGED vars BY <1>12, StutterPreserves
<1> QED BY <1>1, <1>2, <1>3, <1>4, <1>5, <1>6, <1>7, <1>8, <1>9, <1>10, <1>11,
           <1>12 DEF Next

-----------------------------------------------------------------------------
(* Theorems *)

\* The inductive invariant: the state is well formed, the scheduler is solvent,
\* and so is every state that a failing target would bring back.
THEOREM InvariantHolds == Spec => []IInv
<1>1. Init => IInv
  BY InitIInv
<1>2. IInv /\ [Next]_vars => IInv'
  BY NextIInv
<1> QED BY <1>1, <1>2, PTL DEF Spec

\* At every step of every transaction the scheduler holds the rebates of the
\* triggers it stores, those it is about to pay, and the funds stranded in it.
THEOREM Solvent == Spec => []Solvency
<1>1. IInv => Solvency
  BY DEF IInv
<1> QED BY <1>1, InvariantHolds, PTL

\* The bank never refuses a rebate or a refund the scheduler sends.
THEOREM PaymentsAreCovered == Spec => []PaymentsCovered
<1>1. IInv => PaymentsCovered
  <2> SUFFICES ASSUME IInv, Dispatching, message.kind = "send"
               PROVE  message.amount <= bank[SCHEDULER]
    BY DEF PaymentsCovered
  <2>1. message \in Message /\ Depth \in Nat \ {0} /\ calls[Depth] = top
    <3>1. TypeInv /\ calls # <<>>
      BY DEF IInv, Dispatching
    <3> QED BY <3>1, MessageSent, TopInStack
  <2>2. PICK c \in Activations :
          Cardinality(Due(Depth, top.messages, top.sent)) =
            Cardinality(Due(Depth, c.messages, c.sent)) + MessageCoins(message)
    BY MessageSent
  <2>3. MessageCoins(message) = message.amount /\ message.amount \in Nat
    BY <2>1, SchedulerAssumption DEF Message, MessageCoins
  <2>4. Cardinality(Payable(calls, Depth)) =
          Cardinality(Payable(calls, Depth - 1))
            + Cardinality(Due(Depth, calls[Depth].messages, calls[Depth].sent))
    BY <2>1, PayableSplit
  <2>5. /\ Cardinality(Payable(calls, Depth - 1)) \in Nat
        /\ Cardinality(Due(Depth, c.messages, c.sent)) \in Nat
        /\ Cardinality(Escrowed(triggers)) \in Nat /\ stranded \in Nat
    <3>1. Depth - 1 \in Nat /\ triggers \in Stores /\ stranded \in Nat
      BY <2>1, WorldTypes DEF IInv
    <3> QED BY <3>1, PayableFinite, DueFinite, EscrowFinite
  <2>6. bank[SCHEDULER] = Cardinality(Escrowed(triggers))
                            + Cardinality(Payable(calls, Depth)) + stranded
    BY SolvencyIs DEF IInv
  <2> QED BY <2>1, <2>2, <2>3, <2>4, <2>5, <2>6
<1> QED BY <1>1, InvariantHolds, PTL

\* The state is well formed: in the store, on the stack, and in what is saved.
THEOREM TypeCorrect == Spec => []TypeOK
<1>1. IInv => TypeOK
  <2> SUFFICES ASSUME IInv PROVE TypeOK
    OBVIOUS
  <2>1. \A w \in Worlds : WorldOK(w)
    BY DEF Worlds, Stores, WorldOK, TriggerStore
  <2>2. TypeInv /\ calls \in Seq(Activations)
    BY DEF IInv, TypeInv
  <2>3. Depth \in 0 .. MaxDepth /\ DOMAIN calls = 1 .. Depth
    BY <2>2, LenProperties, SchedulerAssumption DEF TypeInv, Depth
  <2>4. \A l \in 1 .. Depth : CallOK(calls[l])
    <3> TAKE l \in 1 .. Depth
    <3>1. calls[l] \in Activations /\ Fits(calls[l])
      BY <2>2, <2>3, ElementOfSeq DEF TypeInv, Depth
    <3>2. \A c \in Activations : Fits(c) => CallOK(c)
      <4> SUFFICES ASSUME NEW c \in Activations, Fits(c) PROVE CallOK(c)
        OBVIOUS
      <4>1. WorldOK(c.saved)
        BY <2>1 DEF Activations
      <4>2. c.sent \in 0 .. Len(c.messages)
        BY LenProperties DEF Activations, Fits
      <4> QED BY <4>1, <4>2 DEF CallOK, Activations, Fits
    <3> QED BY <3>1, <3>2
  <2> QED BY <2>1, <2>2, <2>3, <2>4 DEF TypeOK, TypeInv
<1> QED BY <1>1, InvariantHolds, PTL

-----------------------------------------------------------------------------
(* What a keeper is told *)

LEMMA DivMonotone ==
  ASSUME NEW a \in Nat, NEW b \in Nat, NEW m \in Nat \ {0}, a <= b
  PROVE  a \div m \in Nat /\ a \div m <= b \div m
<1> DEFINE p == a \div m
           q == b \div m
<1>1. p \in Nat /\ q \in Nat /\ m * p <= a /\ b < m * q + m
  BY Z3
<1> HIDE DEF p, q
<1>2. p <= q
  <2> SUFFICES ASSUME p >= q + 1 PROVE FALSE
    BY <1>1
  <2>1. PICK d \in Nat : p = q + 1 + d
    <3>1. p - (q + 1) \in Nat
      BY <1>1
    <3> QED BY <1>1, <3>1
  <2>2. m * p = m * q + m + m * d /\ m * d \in Nat
    BY <1>1, <2>1, Z3
  <2>3. m * q \in Nat /\ m * p \in Nat
    BY <1>1, Z3
  <2> QED BY <1>1, <2>2, <2>3
<1> QED BY <1>1, <1>2 DEF p, q

\* A trigger that is due has an index key no later than the present, in the
\* unit of its kind.
LEMMA DueKey ==
  ASSUME TypeInv, NEW kind \in Kinds \ {"other"}, NEW t \in Trigger,
         t.condition.kind = kind, IsSatisfied(t.condition)
  PROVE  /\ IndexKey(kind, t) \in Nat /\ 0 <= IndexKey(kind, t)
         /\ IndexKey(kind, t) <= Now(kind)
<1>1. t.condition.at \in Nat /\ time \in Nat /\ height \in Nat
      /\ NanosPerSecond \in Nat \ {0}
  BY SchedulerAssumption DEF TypeInv, Trigger, Condition
<1>2. IndexKey(kind, t) = IdKey(t.condition)
  BY DEF IndexKey
<1>3. CASE kind = "timestamp"
  <2>1. time >= t.condition.at /\ Now(kind) = time \div NanosPerSecond
    BY <1>3 DEF IsSatisfied, Now
  <2>2. IdKey(t.condition) = t.condition.at \div NanosPerSecond
    BY <1>3 DEF IdKey
  <2>3. /\ t.condition.at \div NanosPerSecond \in Nat
        /\ t.condition.at \div NanosPerSecond <= time \div NanosPerSecond
    BY <1>1, <2>1, DivMonotone
  <2> HIDE DEF Now
  <2> QED BY <1>2, <2>1, <2>2, <2>3
<1>4. CASE kind = "height"
  BY <1>1, <1>2, <1>4 DEF IsSatisfied, Now, IdKey
<1> QED BY <1>3, <1>4 DEF Kinds

\* A keeper that asks for the triggers up to the present is told of each one
\* that is due, unless a page of triggers comes before it.
THEOREM DueAreListed == Spec => []DueIsListed
<1>1. IInv => DueIsListed
  <2> SUFFICES ASSUME IInv, NEW kind \in Kinds \ {"other"},
                      NEW i \in DOMAIN triggers,
                      triggers[i].condition.kind = kind,
                      IsSatisfied(triggers[i].condition),
                      Cardinality({j \in DOMAIN triggers : Before(kind, j, i)})
                        < DefaultLimit
               PROVE  i \in Filtered(kind, 0, Now(kind), DefaultLimit)
    BY DEF DueIsListed
  <2> DEFINE Earlier == {j \in DOMAIN triggers : Before(kind, j, i)}
             window == {j \in DOMAIN triggers :
                          LET k == IndexKey(kind, triggers[j])
                          IN k >= 0 /\ (Now(kind) # NONE => k <= Now(kind))}
             EarlierInWindow == {j \in window : Before(kind, j, i)}
  <2>1. triggers \in Stores /\ triggers[i] \in Trigger /\ TypeInv
    BY WorldTypes, StoredTrigger DEF IInv
  <2>2. i \in window
    BY <2>1, DueKey
  <2>3. IsFiniteSet(Earlier)
    <3>1. IsFiniteSet(DOMAIN triggers)
      BY <2>1 DEF Stores
    <3> QED BY <3>1, FS_Subset
  <2>4. /\ EarlierInWindow \subseteq Earlier
        /\ IsFiniteSet(EarlierInWindow)
        /\ Cardinality(EarlierInWindow) <= Cardinality(Earlier)
        /\ Cardinality(Earlier) \in Nat /\ Cardinality(EarlierInWindow) \in Nat
    <3>1. EarlierInWindow \subseteq Earlier
      OBVIOUS
    <3> HIDE DEF Earlier, EarlierInWindow
    <3> QED BY <2>3, <3>1, FS_Subset, FS_CardinalityType
  <2>5. Cardinality(EarlierInWindow) < DefaultLimit
    <3> HIDE DEF EarlierInWindow
    <3>1. Cardinality(Earlier) < DefaultLimit
      OBVIOUS
    <3> HIDE DEF Earlier
    <3> QED BY <2>4, <3>1, SchedulerAssumption
  <2>6. Filtered(kind, 0, Now(kind), DefaultLimit) =
          {k \in window :
             Cardinality({j \in window : Before(kind, j, k)}) < DefaultLimit}
    BY Zenon DEF Filtered
  <2> HIDE DEF window
  <2> QED BY <2>2, <2>5, <2>6, Zenon
<1> QED BY <1>1, InvariantHolds, PTL

-----------------------------------------------------------------------------
(* What becomes of each trigger *)

\* The calls that the d lowest activations have not dispatched yet: where each
\* message stands, and the trigger it is for.
Pending(cs, d) ==
  {x \in (1 .. d) \X (1 .. 2 * MaxBatch) \X (1 .. MaxCreated) :
     /\ x[2] > cs[x[1]].sent
     /\ x[2] <= Len(cs[x[1]].messages)
     /\ cs[x[1]].messages[x[2]].kind = "call"
     /\ cs[x[1]].messages[x[2]].born = x[3]}

\* Those of activation l, of messages ms of which n are sent.
Standing(l, ms, n) ==
  {x \in {l} \X (1 .. 2 * MaxBatch) \X (1 .. MaxCreated) :
     /\ x[2] > n
     /\ x[2] <= Len(ms)
     /\ ms[x[2]].kind = "call"
     /\ ms[x[2]].born = x[3]}

\* The fates f of the n triggers created agree with the store ts and with the
\* pending calls P.
Fated(ts, f, n, P) ==
  /\ \A i, j \in DOMAIN ts : ts[i].born = ts[j].born => i = j
  /\ \A x, y \in P : x[3] = y[3] => x = y
  /\ \A i \in DOMAIN ts : f[ts[i].born] = "stored"
  /\ \A b \in 1 .. MaxCreated :
       f[b] = "stored" => \E i \in DOMAIN ts : ts[i].born = b
  /\ \A x \in P : f[x[3]] = "taken"
  /\ \A b \in 1 .. MaxCreated : f[b] = "taken" => \E x \in P : x[3] = b
  /\ \A b \in 1 .. MaxCreated : b > n => f[b] = "unborn"

WorldFated == Fated(triggers, fate, created, Pending(calls, Depth))

\* The state a failing target brings back agrees with the calls that are still
\* pending below it, which do not change while it runs.
SavedFated ==
  \A l \in 1 .. Depth :
    Fated(calls[l].saved.triggers, calls[l].saved.fate, calls[l].saved.created,
          Pending(calls, l - 1))

FateInv == IInv /\ WorldFated /\ SavedFated

LEMMA FatedTake ==
  ASSUME NEW ts \in Stores, NEW f \in [1 .. MaxCreated -> Fates], NEW n, NEW P,
         Fated(ts, f, n, P), NEW id \in DOMAIN ts, NEW x, x[3] = ts[id].born
  PROVE  Fated(StoreWithout(ts, id), [f EXCEPT ![ts[id].born] = "taken"], n,
               P \cup {x})
<1> DEFINE us == StoreWithout(ts, id)
           b0 == ts[id].born
           g == [f EXCEPT ![b0] = "taken"]
           Q == P \cup {x}
<1>1. \A i \in DOMAIN ts : ts[i].born \in 1 .. MaxCreated
  BY DEF Stores, Trigger
<1>2. /\ DOMAIN us = DOMAIN ts \ {id}
      /\ \A i \in DOMAIN us : us[i] = ts[i]
  BY DEF StoreWithout
<1>3. \A b \in 1 .. MaxCreated : g[b] = IF b = b0 THEN "taken" ELSE f[b]
  OBVIOUS
<1>4. f[b0] = "stored" /\ b0 \in 1 .. MaxCreated
  BY <1>1 DEF Fated
<1> HIDE DEF us, g
<1>5. \A i, j \in DOMAIN us : us[i].born = us[j].born => i = j
  BY <1>2 DEF Fated
<1>6. \A y, z \in Q : y[3] = z[3] => y = z
  BY <1>4 DEF Fated
<1>7. \A i \in DOMAIN us : g[us[i].born] = "stored"
  BY <1>1, <1>2, <1>3 DEF Fated
<1>8. \A b \in 1 .. MaxCreated :
        g[b] = "stored" => \E i \in DOMAIN us : us[i].born = b
  BY <1>2, <1>3 DEF Fated
<1>9. \A y \in Q : g[y[3]] = "taken"
  <2> SUFFICES ASSUME NEW y \in Q PROVE g[y[3]] = "taken"
    OBVIOUS
  <2>1. CASE y = x
    BY <1>3, <1>4, <2>1
  <2>2. CASE y \in P
    <3>1. f[y[3]] = "taken" /\ y[3] # b0
      BY <1>4, <2>2 DEF Fated
    <3> QED BY <1>4, <3>1 DEF g
  <2> QED BY <2>1, <2>2
<1>10. \A b \in 1 .. MaxCreated : g[b] = "taken" => \E y \in Q : y[3] = b
  BY <1>3 DEF Fated
<1>11. \A b \in 1 .. MaxCreated : b > n => g[b] = "unborn"
  BY <1>3, <1>4 DEF Fated
<1> QED BY <1>5, <1>6, <1>7, <1>8, <1>9, <1>10, <1>11 DEF Fated, us, g

LEMMA FatedCall ==
  ASSUME NEW ts \in Stores, NEW f \in [1 .. MaxCreated -> Fates], NEW n, NEW P,
         Fated(ts, f, n, P), NEW x \in P, x[3] \in 1 .. MaxCreated
  PROVE  Fated(ts, [f EXCEPT ![x[3]] = "called"], n, P \ {x})
<1> DEFINE b0 == x[3]
           g == [f EXCEPT ![b0] = "called"]
           Q == P \ {x}
<1>1. \A i \in DOMAIN ts : ts[i].born \in 1 .. MaxCreated
  BY DEF Stores, Trigger
<1>2. \A b \in 1 .. MaxCreated : g[b] = IF b = b0 THEN "called" ELSE f[b]
  OBVIOUS
<1>3. f[b0] = "taken" /\ \A i \in DOMAIN ts : ts[i].born # b0
  BY DEF Fated
<1>4. \A y \in Q : y[3] # b0 /\ y \in P
  BY DEF Fated
<1>5. \A y \in Q : g[y[3]] = "taken"
  BY <1>4 DEF Fated
<1> HIDE DEF g
<1>6. \A i \in DOMAIN ts : g[ts[i].born] = "stored"
  BY <1>1, <1>2, <1>3 DEF Fated
<1>7. \A b \in 1 .. MaxCreated :
        g[b] = "stored" => \E i \in DOMAIN ts : ts[i].born = b
  BY <1>2 DEF Fated
<1>8. \A b \in 1 .. MaxCreated : g[b] = "taken" => \E y \in Q : y[3] = b
  BY <1>2 DEF Fated
<1>9. \A b \in 1 .. MaxCreated : b > n => g[b] = "unborn"
  BY <1>2, <1>3 DEF Fated
<1>10. /\ \A i, j \in DOMAIN ts : ts[i].born = ts[j].born => i = j
       /\ \A y, z \in Q : y[3] = z[3] => y = z
  BY DEF Fated
<1> QED BY <1>5, <1>6, <1>7, <1>8, <1>9, <1>10 DEF Fated, g

LEMMA FatedCreate ==
  ASSUME NEW ts \in Stores, NEW f \in [1 .. MaxCreated -> Fates],
         NEW n \in Nat, NEW P, Fated(ts, f, n, P),
         \A x \in P : x[3] \in 1 .. MaxCreated,
         NEW id, NEW t, t.born = n + 1, n + 1 \in 1 .. MaxCreated,
         NEW us, DOMAIN us = DOMAIN ts \cup {id}, us[id] = t,
         \A i \in DOMAIN ts \ {id} : us[i] = ts[i],
         NEW g,
         \A m \in 1 .. MaxCreated :
           g[m] = IF m = n + 1 THEN "stored"
                  ELSE IF id \in DOMAIN ts /\ m = ts[id].born THEN "replaced"
                  ELSE f[m]
  PROVE  Fated(us, g, n + 1, P)
<1>1. \A i \in DOMAIN ts : ts[i].born \in 1 .. MaxCreated
  BY DEF Stores, Trigger
<1>2. \A m \in 1 .. MaxCreated :
        g[m] = IF m = n + 1 THEN "stored"
               ELSE IF id \in DOMAIN ts /\ m = ts[id].born THEN "replaced"
               ELSE f[m]
  OBVIOUS
<1>3. /\ DOMAIN us = DOMAIN ts \cup {id} /\ us[id] = t
      /\ \A i \in DOMAIN ts \ {id} : us[i] = ts[i]
  OBVIOUS
<1>4. f[n + 1] = "unborn"
  BY DEF Fated
<1>5. /\ \A i \in DOMAIN ts : ts[i].born # n + 1
      /\ \A x \in P : x[3] # n + 1
  BY <1>4 DEF Fated
<1>6. \A i, j \in DOMAIN us : us[i].born = us[j].born => i = j
  BY <1>3, <1>5 DEF Fated
<1>7. \A i \in DOMAIN us : g[us[i].born] = "stored"
  <2> SUFFICES ASSUME NEW i \in DOMAIN us PROVE g[us[i].born] = "stored"
    OBVIOUS
  <2>1. CASE i = id
    BY <1>2, <1>3, <2>1
  <2>2. CASE i # id
    <3>1. i \in DOMAIN ts /\ us[i] = ts[i] /\ ts[i].born \in 1 .. MaxCreated
      BY <1>1, <1>3, <2>2
    <3>2. f[ts[i].born] = "stored" /\ ts[i].born # n + 1
          /\ ~(id \in DOMAIN ts /\ ts[i].born = ts[id].born)
      BY <1>5, <2>2, <3>1 DEF Fated
    <3> QED BY <1>2, <3>1, <3>2
  <2> QED BY <2>1, <2>2
<1>8. \A b \in 1 .. MaxCreated :
        g[b] = "stored" => \E i \in DOMAIN us : us[i].born = b
  <2> SUFFICES ASSUME NEW b \in 1 .. MaxCreated, g[b] = "stored"
               PROVE  \E i \in DOMAIN us : us[i].born = b
    OBVIOUS
  <2>1. CASE b = n + 1
    BY <1>3, <2>1
  <2>2. CASE b # n + 1
    <3>1. f[b] = "stored" /\ ~(id \in DOMAIN ts /\ b = ts[id].born)
      BY <1>2, <2>2
    <3>2. PICK i \in DOMAIN ts : ts[i].born = b
      BY <3>1 DEF Fated
    <3> QED BY <1>3, <3>1, <3>2
  <2> QED BY <2>1, <2>2
<1>9. \A x \in P : g[x[3]] = "taken"
  <2> SUFFICES ASSUME NEW x \in P PROVE g[x[3]] = "taken"
    OBVIOUS
  <2>1. f[x[3]] = "taken" /\ x[3] # n + 1 /\ x[3] \in 1 .. MaxCreated
    BY <1>5 DEF Fated
  <2>2. ~(id \in DOMAIN ts /\ x[3] = ts[id].born)
    BY <2>1 DEF Fated
  <2> QED BY <1>2, <2>1, <2>2
<1>10. \A b \in 1 .. MaxCreated : g[b] = "taken" => \E x \in P : x[3] = b
  BY <1>2 DEF Fated
<1>11. \A b \in 1 .. MaxCreated : b > n + 1 => g[b] = "unborn"
  <2> SUFFICES ASSUME NEW b \in 1 .. MaxCreated, b > n + 1
               PROVE  g[b] = "unborn"
    OBVIOUS
  <2>1. f[b] = "unborn" /\ b # n + 1
    BY DEF Fated
  <2>2. ~(id \in DOMAIN ts /\ b = ts[id].born)
    BY <2>1 DEF Fated
  <2> QED BY <1>2, <2>1, <2>2
<1>12. \A x, y \in P : x[3] = y[3] => x = y
  BY DEF Fated
<1> QED BY <1>6, <1>7, <1>8, <1>9, <1>10, <1>11, <1>12 DEF Fated

LEMMA PendingSplit ==
  ASSUME NEW cs, NEW d \in Nat \ {0}
  PROVE  Pending(cs, d) =
           Pending(cs, d - 1) \cup Standing(d, cs[d].messages, cs[d].sent)
<1>1. ASSUME NEW x \in Pending(cs, d)
      PROVE  x \in Pending(cs, d - 1) \cup Standing(d, cs[d].messages, cs[d].sent)
  <2>1. CASE x[1] = d
    BY <1>1, <2>1 DEF Pending, Standing
  <2>2. CASE x[1] \in 1 .. (d - 1)
    BY <1>1, <2>2 DEF Pending
  <2> QED BY <1>1, <2>1, <2>2 DEF Pending
<1>2. Pending(cs, d - 1) \subseteq Pending(cs, d)
  BY DEF Pending
<1>3. Standing(d, cs[d].messages, cs[d].sent) \subseteq Pending(cs, d)
  BY DEF Pending, Standing
<1> QED BY <1>1, <1>2, <1>3

LEMMA PendingSame ==
  ASSUME NEW cs, NEW ds, NEW d \in Nat,
         \A l \in 1 .. d : cs[l] = ds[l]
  PROVE  Pending(cs, d) = Pending(ds, d)
BY DEF Pending

LEMMA PendingBorn ==
  ASSUME NEW cs, NEW d
  PROVE  \A x \in Pending(cs, d) : x[3] \in 1 .. MaxCreated
BY DEF Pending

LEMMA NoneStanding ==
  ASSUME NEW l, NEW ms \in Seq(Message), NEW n \in Nat, n >= Len(ms)
  PROVE  Standing(l, ms, n) = {}
BY SchedulerAssumption DEF Standing

LEMMA StandingAfterSend ==
  ASSUME NEW l, NEW ms \in Seq(Message), NEW n \in Nat,
         n < Len(ms), Len(ms) <= 2 * MaxBatch, ms[n + 1].kind = "send"
  PROVE  Standing(l, ms, n + 1) = Standing(l, ms, n)
<1>1. ASSUME NEW x \in Standing(l, ms, n) PROVE x \in Standing(l, ms, n + 1)
  <2>1. x[2] # n + 1
    BY <1>1 DEF Standing
  <2> QED BY <1>1, <2>1, SchedulerAssumption DEF Standing
<1>2. Standing(l, ms, n + 1) \subseteq Standing(l, ms, n)
  BY SchedulerAssumption DEF Standing
<1> QED BY <1>1, <1>2

\* The next message, as a pending call.
NextCall(l, ms, n) == <<l, n + 1, ms[n + 1].born>>

LEMMA StandingAfterCall ==
  ASSUME NEW l, NEW ms \in Seq(Message), NEW n \in Nat,
         n < Len(ms), Len(ms) <= 2 * MaxBatch, ms[n + 1].kind = "call",
         ms[n + 1].born \in 1 .. MaxCreated
  PROVE  /\ NextCall(l, ms, n) \in Standing(l, ms, n)
         /\ Standing(l, ms, n + 1) = Standing(l, ms, n) \ {NextCall(l, ms, n)}
<1> DEFINE b == ms[n + 1].born
           y == <<l, n + 1, b>>
<1>0. Len(ms) \in Nat /\ n + 1 \in 1 .. 2 * MaxBatch
  BY SchedulerAssumption
<1>1. y \in Standing(l, ms, n)
  BY <1>0 DEF Standing
<1>2. ASSUME NEW x \in Standing(l, ms, n), x # y
      PROVE  x \in Standing(l, ms, n + 1)
  <2>1. x[2] # n + 1
    <3> SUFFICES ASSUME x[2] = n + 1 PROVE FALSE
      OBVIOUS
    <3>1. x[3] = b /\ x[1] = l
      BY <1>2 DEF Standing
    <3> QED BY <1>2, <3>1 DEF Standing
  <2> QED BY <1>2, <2>1, SchedulerAssumption DEF Standing
<1>3. Standing(l, ms, n + 1) \subseteq Standing(l, ms, n)
  BY SchedulerAssumption DEF Standing
<1>4. y \notin Standing(l, ms, n + 1)
  BY DEF Standing
<1> QED BY <1>1, <1>2, <1>3, <1>4 DEF NextCall

LEMMA StandingAfterTake ==
  ASSUME NEW l, NEW ms \in Seq(Message), NEW n \in Nat, NEW t \in Trigger,
         top.actor \in Accounts, n <= Len(ms), Len(ms) + 2 <= 2 * MaxBatch
  PROVE  Standing(l, ms \o CallAndRebate(t), n) =
           Standing(l, ms, n) \cup {<<l, Len(ms) + 1, t.born>>}
<1> DEFINE q == CallAndRebate(t)
           new == ms \o q
           y == <<l, Len(ms) + 1, t.born>>
<1>0. Len(ms) \in Nat /\ t.born \in 1 .. MaxCreated
  BY DEF Trigger
<1>1. /\ q \in Seq(Message) /\ Len(q) \in 1 .. 2
      /\ q[1].kind = "call" /\ q[1].born = t.born
      /\ Len(q) = 2 => q[2].kind = "send"
  <2> DEFINE call == [kind |-> "call", to |-> t.contract_address, amount |-> 0,
                      born |-> t.born]
             rebate == [kind |-> "send", to |-> top.actor,
                        amount |-> t.execution_rebate, born |-> t.born]
  <2>1. call \in Message /\ call.kind = "call" /\ call.born = t.born
    BY DEF Message, Trigger
  <2>2. /\ t.execution_rebate # 0 => rebate \in Message
        /\ rebate.kind = "send"
    BY SchedulerAssumption DEF Message, Trigger, Amounts
  <2>3. q = IF t.execution_rebate = 0 THEN <<call>> ELSE <<call, rebate>>
    BY DEF CallAndRebate
  <2> HIDE DEF call, rebate, q
  <2>4. CASE t.execution_rebate = 0
    <3>1. <<call>> \in Seq(Message) /\ Len(<<call>>) = 1 /\ <<call>>[1] = call
      BY <2>1
    <3> QED BY <2>1, <2>3, <2>4, <3>1
  <2>5. CASE t.execution_rebate # 0
    <3>1. /\ <<call, rebate>> \in Seq(Message) /\ Len(<<call, rebate>>) = 2
          /\ <<call, rebate>>[1] = call /\ <<call, rebate>>[2] = rebate
      BY <2>1, <2>2, <2>5
    <3> QED BY <2>1, <2>2, <2>3, <2>5, <3>1
  <2> QED BY <2>4, <2>5
<1> HIDE DEF q
<1>2. /\ new \in Seq(Message) /\ Len(new) = Len(ms) + Len(q)
      /\ \A i \in 1 .. Len(ms) + Len(q) :
           new[i] = IF i <= Len(ms) THEN ms[i] ELSE q[i - Len(ms)]
  BY <1>1, ConcatProperties, Zenon
<1> HIDE DEF new
<1>3. ASSUME NEW x \in Standing(l, new, n)
      PROVE  x \in Standing(l, ms, n) \cup {y}
  <2>0. x[2] \in Nat /\ x[2] <= Len(ms) + 2
    <3>1. x[2] \in Nat /\ x[2] <= Len(new)
      BY <1>3 DEF Standing
    <3> QED BY <1>0, <1>1, <1>2, <3>1
  <2>1. CASE x[2] <= Len(ms)
    BY <1>0, <1>1, <1>2, <1>3, <2>1 DEF Standing
  <2>2. CASE x[2] = Len(ms) + 1
    <3>1. new[x[2]] = q[1]
      BY <1>0, <1>1, <1>2, <2>2
    <3> QED BY <1>1, <1>3, <2>2, <3>1 DEF Standing
  <2>3. CASE x[2] = Len(ms) + 2
    <3>1. Len(q) = 2 /\ new[x[2]] = q[2]
      BY <1>0, <1>1, <1>2, <1>3, <2>3 DEF Standing
    <3> QED BY <1>1, <1>3, <2>3, <3>1 DEF Standing
  <2>4. x[2] <= Len(ms) \/ x[2] = Len(ms) + 1 \/ x[2] = Len(ms) + 2
    BY <1>0, <2>0
  <2> QED BY <2>1, <2>2, <2>3, <2>4
<1>4. Standing(l, ms, n) \subseteq Standing(l, new, n)
  BY <1>0, <1>1, <1>2 DEF Standing
<1>5. y \in Standing(l, new, n)
  <2>1. Len(ms) + 1 \in 1 .. 2 * MaxBatch /\ Len(ms) + 1 > n
        /\ Len(ms) + 1 <= Len(new) /\ new[Len(ms) + 1] = q[1]
    <3>1. /\ Len(ms) + 1 > n /\ Len(ms) + 1 <= Len(new)
          /\ Len(ms) + 1 \in 1 .. Len(ms) + Len(q)
      BY <1>0, <1>1, <1>2
    <3>2. new[Len(ms) + 1] = q[1]
      BY <1>0, <1>2, <3>1
    <3>3. Len(ms) + 1 \in 1 .. 2 * MaxBatch
      BY <1>0, SchedulerAssumption
    <3> QED BY <3>1, <3>2, <3>3
  <2> QED BY <1>0, <1>1, <2>1 DEF Standing
<1> QED BY <1>3, <1>4, <1>5 DEF new, q

LEMMA RefundStandsNot ==
  ASSUME NEW l, NEW t \in Trigger
  PROVE  Standing(l, Refund(t), 0) = {}
<1> DEFINE m == [kind |-> "send", to |-> t.owner, amount |-> t.execution_rebate,
                 born |-> t.born]
<1>1. m.kind = "send"
  OBVIOUS
<1>2. Refund(t) = <<>> \/ Refund(t) = <<m>>
  BY DEF Refund
<1> HIDE DEF m
<1>3. CASE Refund(t) = <<>>
  BY <1>3, SchedulerAssumption DEF Standing
<1>4. CASE Refund(t) = <<m>>
  <2>1. Len(Refund(t)) = 1 /\ Refund(t)[1] = m
    BY <1>4
  <2> QED BY <1>1, <2>1, SchedulerAssumption DEF Standing
<1> QED BY <1>2, <1>3, <1>4

\* The stack keeps its depth, and only the messages of its top change.
LEMMA TopTurns ==
  ASSUME IInv, IInv', SavedFated, calls # <<>>, Depth' = Depth,
         \A l \in 1 .. (Depth - 1) : calls'[l] = calls[l],
         calls'[Depth].saved = top.saved
  PROVE  /\ SavedFated'
         /\ Pending(calls, Depth) =
              Pending(calls, Depth - 1) \cup Standing(Depth, top.messages, top.sent)
         /\ Pending(calls', Depth) =
              Pending(calls, Depth - 1)
                \cup Standing(Depth, calls'[Depth].messages, calls'[Depth].sent)
<1>1. Depth \in Nat \ {0} /\ calls[Depth] = top
  BY TopType DEF IInv
<1>2. ASSUME NEW d \in 0 .. (Depth - 1) PROVE Pending(calls', d) = Pending(calls, d)
  <2>1. d \in Nat /\ \A l \in 1 .. d : calls'[l] = calls[l]
    BY <1>1, <1>2
  <2> QED BY <2>1, PendingSame
<1>3. SavedFated'
  <2> SUFFICES ASSUME NEW l \in 1 .. Depth
               PROVE  Fated(calls'[l].saved.triggers, calls'[l].saved.fate,
                            calls'[l].saved.created, Pending(calls', l - 1))
    BY DEF SavedFated
  <2>1. calls'[l].saved = calls[l].saved
    BY <1>1
  <2>2. l - 1 \in 0 .. (Depth - 1)
    BY <1>1
  <2>3. Pending(calls', l - 1) = Pending(calls, l - 1)
    BY <1>2, <2>2
  <2> QED BY <2>1, <2>3 DEF SavedFated
<1>4. Pending(calls', Depth - 1) = Pending(calls, Depth - 1)
  <2>1. Depth - 1 \in 0 .. (Depth - 1)
    BY <1>1
  <2> QED BY <1>2, <2>1
<1> QED BY <1>1, <1>3, <1>4, PendingSplit

LEMMA SameDepth ==
  ASSUME IInv, IInv', DOMAIN calls' = DOMAIN calls
  PROVE  Depth' = Depth
<1>1. /\ DOMAIN calls = 1 .. Depth /\ Depth \in Nat
      /\ DOMAIN calls' = 1 .. Depth' /\ Depth' \in Nat
  BY LenProperties DEF IInv, TypeInv, Depth
<1> QED BY <1>1

\* A field of the top activation is set: the others keep their values.
LEMMA TopSets ==
  ASSUME IInv, calls # <<>>
  PROVE  /\ Depth \in Nat \ {0} /\ calls[Depth] = top
         /\ DOMAIN calls = 1 .. Depth
         /\ top.messages \in Seq(Message) /\ top.sent \in Nat
         /\ top.sent <= Len(top.messages) /\ top.actor \in Accounts
         /\ Len(top.messages) <= 2 * MaxBatch /\ top.ids \in Seq(Nat)
         /\ \A x : /\ [top EXCEPT !.ids = x].saved = top.saved
                   /\ [top EXCEPT !.ids = x].sent = top.sent
                   /\ [top EXCEPT !.ids = x].messages = top.messages
         /\ \A x : /\ [top EXCEPT !.sent = x].saved = top.saved
                   /\ [top EXCEPT !.sent = x].sent = x
                   /\ [top EXCEPT !.sent = x].messages = top.messages
         /\ \A x, y : /\ [top EXCEPT !.sent = x, !.messages = y].saved = top.saved
                      /\ [top EXCEPT !.sent = x, !.messages = y].sent = x
                      /\ [top EXCEPT !.sent = x, !.messages = y].messages = y
         /\ \A x, y : /\ [top EXCEPT !.ids = x, !.messages = y].saved = top.saved
                      /\ [top EXCEPT !.ids = x, !.messages = y].sent = top.sent
                      /\ [top EXCEPT !.ids = x, !.messages = y].messages = y
         /\ \A x, y, z :
              /\ [top EXCEPT !.ids = x, !.messages = y, !.sent = z].saved = top.saved
              /\ [top EXCEPT !.ids = x, !.messages = y, !.sent = z].sent = z
              /\ [top EXCEPT !.ids = x, !.messages = y, !.sent = z].messages = y
<1>1. /\ Depth \in Nat \ {0} /\ calls[Depth] = top /\ top \in Activations
      /\ top.messages \in Seq(Message) /\ top.sent \in Nat /\ Fits(top)
      /\ top.actor \in Accounts /\ top.ids \in Seq(Nat)
  BY TopType DEF IInv
<1>2. DOMAIN calls = 1 .. Depth
  BY DEF IInv, TypeInv, Depth
<1>3. /\ top.sent <= Len(top.messages)
      /\ Len(top.messages) <= 2 * MaxBatch
  <2> DEFINE m == Len(top.messages)
             i == Len(top.ids)
             b == 2 * MaxBatch
  <2>1. m \in Nat /\ i \in Nat /\ b \in Nat
    BY <1>1, LenProperties, SchedulerAssumption
  <2>2. m + 2 * i <= b /\ top.sent <= m
    BY <1>1 DEF Fits
  <2> HIDE DEF m, i, b
  <2>3. top.sent <= m /\ m <= b
    BY <2>1, <2>2
  <2> QED BY <2>3 DEF m, b
<1>4. DOMAIN top = {"actor", "ids", "messages", "sent", "saved"}
  BY <1>1 DEF Activations
<1> QED BY <1>1, <1>2, <1>3, <1>4

\* Dispatching a message leaves the rest of the stack as it is.
LEMMA SendTurns ==
  ASSUME IInv, IInv', SavedFated, calls # <<>>,
         calls' = [calls EXCEPT ![Depth].sent = @ + 1]
  PROVE  /\ Depth' = Depth /\ SavedFated'
         /\ Pending(calls, Depth) =
              Pending(calls, Depth - 1) \cup Standing(Depth, top.messages, top.sent)
         /\ Pending(calls', Depth) =
              Pending(calls, Depth - 1)
                \cup Standing(Depth, top.messages, top.sent + 1)
<1>1. /\ calls'[Depth] = [top EXCEPT !.sent = top.sent + 1]
      /\ DOMAIN calls' = DOMAIN calls
      /\ \A l \in 1 .. (Depth - 1) : calls'[l] = calls[l]
  BY TopSets
<1>2. Depth' = Depth
  BY <1>1, SameDepth
<1>3. /\ calls'[Depth].saved = top.saved /\ calls'[Depth].sent = top.sent + 1
      /\ calls'[Depth].messages = top.messages
  BY <1>1, TopSets
<1> QED BY <1>1, <1>2, <1>3, TopTurns

LEMMA CreateFates ==
  ASSUME FateInv, IInv', NEW cmd \in Commands, NEW funds \in Amounts,
         Create(cmd, funds)
  PROVE  WorldFated' /\ SavedFated'
<1> DEFINE id == TriggerId(top.actor, cmd)
           t == [owner            |-> top.actor,
                 condition        |-> cmd.condition,
                 contract_address |-> cmd.contract_address,
                 executors        |-> cmd.executors,
                 execution_rebate |-> funds,
                 born             |-> created + 1]
           ms == IF id \in DOMAIN triggers THEN Refund(triggers[id]) ELSE <<>>
<1>0. /\ IInv /\ WorldFated /\ SavedFated /\ calls # <<>> /\ TypeInv
      /\ top.sent = Len(top.messages)
  BY DEF FateInv, IInv, Create, Running
<1>1. /\ Depth \in Nat \ {0} /\ calls[Depth] = top /\ DOMAIN calls = 1 .. Depth
      /\ top.messages \in Seq(Message) /\ top.sent \in Nat
  BY <1>0, TopSets
<1>2. calls' = [calls EXCEPT ![Depth].sent = 0, ![Depth].messages = ms]
  BY DEF Create
<1> HIDE DEF ms
<1>3. /\ calls'[Depth] = [top EXCEPT !.sent = 0, !.messages = ms]
      /\ DOMAIN calls' = DOMAIN calls
      /\ \A l \in 1 .. (Depth - 1) : calls'[l] = calls[l]
  BY <1>1, <1>2
<1>4. Depth' = Depth
  BY <1>0, <1>3, SameDepth
<1>5. /\ calls'[Depth].saved = top.saved /\ calls'[Depth].sent = 0
      /\ calls'[Depth].messages = ms
  BY <1>0, <1>3, TopSets
<1>6. /\ SavedFated'
      /\ Pending(calls, Depth) =
           Pending(calls, Depth - 1) \cup Standing(Depth, top.messages, top.sent)
      /\ Pending(calls', Depth) =
           Pending(calls, Depth - 1) \cup Standing(Depth, ms, 0)
  BY <1>0, <1>3, <1>4, <1>5, TopTurns
<1>7. Standing(Depth, top.messages, top.sent) = {}
  <2>1. top.sent >= Len(top.messages)
    BY <1>0, <1>1
  <2> QED BY <1>1, <2>1, NoneStanding, Zenon
<1>8. Standing(Depth, ms, 0) = {}
  <2>1. CASE id \in DOMAIN triggers
    BY <1>0, <2>1, StoredTrigger, RefundStandsNot DEF ms
  <2>2. CASE id \notin DOMAIN triggers
    <3>1. ms = <<>>
      BY <2>2 DEF ms
    <3> QED BY <3>1, SchedulerAssumption DEF Standing
  <2> QED BY <2>1, <2>2
<1>9. Pending(calls', Depth') = Pending(calls, Depth)
  BY <1>4, <1>6, <1>7, <1>8
<1>10. WorldFated'
  <2>1. /\ triggers' = [i \in DOMAIN triggers \cup {id} |->
                          IF i = id THEN t ELSE triggers[i]]
        /\ fate' = [n \in DOMAIN fate |->
                      IF n = created + 1 THEN "stored"
                      ELSE IF id \in DOMAIN triggers /\ n = triggers[id].born
                        THEN "replaced" ELSE fate[n]]
        /\ created' = created + 1 /\ created < MaxCreated
    BY DEF Create
  <2>2. t.born = created + 1
    OBVIOUS
  <2>3. /\ triggers \in Stores /\ fate \in [1 .. MaxCreated -> Fates]
        /\ created \in Nat /\ created + 1 \in 1 .. MaxCreated
    BY <1>0, <2>1, WorldTypes, SchedulerAssumption
  <2>4. Fated(triggers, fate, created, Pending(calls, Depth))
    BY <1>0 DEF WorldFated
  <2>5. \A x \in Pending(calls, Depth) : x[3] \in 1 .. MaxCreated
    BY PendingBorn
  <2> HIDE DEF t, id
  <2>6. /\ DOMAIN triggers' = DOMAIN triggers \cup {id} /\ triggers'[id] = t
        /\ \A i \in DOMAIN triggers \ {id} : triggers'[i] = triggers[i]
    BY <2>1
  <2>7. \A m \in 1 .. MaxCreated :
          fate'[m] = IF m = created + 1 THEN "stored"
                     ELSE IF id \in DOMAIN triggers /\ m = triggers[id].born
                       THEN "replaced" ELSE fate[m]
    BY <2>1, <2>3
  <2>8. Fated(triggers', fate', created + 1, Pending(calls, Depth))
    BY <2>2, <2>3, <2>4, <2>5, <2>6, <2>7, FatedCreate
  <2> QED BY <1>9, <2>1, <2>8 DEF WorldFated
<1> QED BY <1>6, <1>10

LEMMA ExecuteFates ==
  ASSUME FateInv, IInv', NEW ids \in Batches, NEW funds \in Amounts,
         Execute(ids, funds)
  PROVE  WorldFated' /\ SavedFated'
<1>0. /\ IInv /\ WorldFated /\ SavedFated /\ calls # <<>>
      /\ top.sent = Len(top.messages)
      /\ UNCHANGED <<triggers, created, fate>>
  BY DEF FateInv, Execute, Running
<1>1. /\ Depth \in Nat \ {0} /\ calls[Depth] = top /\ DOMAIN calls = 1 .. Depth
      /\ top.messages \in Seq(Message) /\ top.sent \in Nat
  BY <1>0, TopSets
<1>2. /\ calls'[Depth] = [top EXCEPT !.ids = ids, !.messages = <<>>, !.sent = 0]
      /\ DOMAIN calls' = DOMAIN calls
      /\ \A l \in 1 .. (Depth - 1) : calls'[l] = calls[l]
  BY <1>1 DEF Execute
<1>3. Depth' = Depth
  BY <1>0, <1>2, SameDepth
<1>4. /\ calls'[Depth].saved = top.saved /\ calls'[Depth].sent = 0
      /\ calls'[Depth].messages = <<>>
  BY <1>0, <1>2, TopSets
<1>5. /\ SavedFated'
      /\ Pending(calls, Depth) =
           Pending(calls, Depth - 1) \cup Standing(Depth, top.messages, top.sent)
      /\ Pending(calls', Depth) =
           Pending(calls, Depth - 1) \cup Standing(Depth, <<>>, 0)
  BY <1>0, <1>2, <1>3, <1>4, TopTurns
<1>6. Standing(Depth, top.messages, top.sent) = {}
  <2>1. top.sent >= Len(top.messages)
    BY <1>0, <1>1
  <2> QED BY <1>1, <2>1, NoneStanding, Zenon
<1>7. Standing(Depth, <<>>, 0) = {}
  BY SchedulerAssumption DEF Standing
<1> QED BY <1>0, <1>3, <1>5, <1>6, <1>7 DEF WorldFated

LEMMA SkipFates ==
  ASSUME FateInv, IInv', SkipTrigger
  PROVE  WorldFated' /\ SavedFated'
<1>0. /\ IInv /\ WorldFated /\ SavedFated /\ calls # <<>>
      /\ UNCHANGED <<triggers, created, fate>>
  BY DEF FateInv, SkipTrigger
<1>1. /\ Depth \in Nat \ {0} /\ calls[Depth] = top /\ DOMAIN calls = 1 .. Depth
  BY <1>0, TopSets
<1>2. /\ calls'[Depth] = [top EXCEPT !.ids = Tail(top.ids)]
      /\ DOMAIN calls' = DOMAIN calls
      /\ \A l \in 1 .. (Depth - 1) : calls'[l] = calls[l]
  BY <1>1 DEF SkipTrigger
<1>3. Depth' = Depth
  BY <1>0, <1>2, SameDepth
<1>4. /\ calls'[Depth].saved = top.saved /\ calls'[Depth].sent = top.sent
      /\ calls'[Depth].messages = top.messages
  BY <1>0, <1>2, TopSets
<1>5. SavedFated' /\ Pending(calls', Depth') = Pending(calls, Depth)
  BY <1>0, <1>2, <1>3, <1>4, TopTurns
<1> QED BY <1>0, <1>5 DEF WorldFated

LEMMA TakeFates ==
  ASSUME FateInv, IInv', TakeTrigger
  PROVE  WorldFated' /\ SavedFated'
<1> DEFINE id == Head(top.ids)
           t == triggers[id]
           ms == top.messages \o CallAndRebate(t)
           x == <<Depth, Len(top.messages) + 1, t.born>>
<1>0. /\ IInv /\ WorldFated /\ SavedFated /\ calls # <<>> /\ top.ids # <<>>
      /\ TypeInv /\ id \in DOMAIN triggers /\ created' = created
  BY DEF FateInv, IInv, TakeTrigger, Executable
<1>1. /\ Depth \in Nat \ {0} /\ calls[Depth] = top /\ DOMAIN calls = 1 .. Depth
      /\ top.messages \in Seq(Message) /\ top.sent \in Nat
      /\ top.actor \in Accounts
  BY <1>0, TopSets
<1>2. calls' = [calls EXCEPT ![Depth].ids = Tail(@), ![Depth].messages = ms]
  BY <1>1 DEF TakeTrigger
<1>3. /\ triggers' = StoreWithout(triggers, id)
      /\ fate' = [fate EXCEPT ![t.born] = "taken"]
  BY DEF TakeTrigger, Without, StoreWithout
<1>4. t \in Trigger
  BY <1>0, StoredTrigger
<1>5. Standing(Depth, ms, top.sent) =
        Standing(Depth, top.messages, top.sent) \cup {x}
  BY <1>0, <1>1, <1>4, RoomToLoad, StandingAfterTake
<1> HIDE DEF ms, id, t
<1>6. /\ calls'[Depth] = [top EXCEPT !.ids = Tail(top.ids), !.messages = ms]
      /\ DOMAIN calls' = DOMAIN calls
      /\ \A l \in 1 .. (Depth - 1) : calls'[l] = calls[l]
  BY <1>1, <1>2
<1>7. Depth' = Depth
  BY <1>0, <1>6, SameDepth
<1>8. /\ calls'[Depth].saved = top.saved /\ calls'[Depth].sent = top.sent
      /\ calls'[Depth].messages = ms
  BY <1>0, <1>6, TopSets
<1>9. /\ SavedFated'
      /\ Pending(calls, Depth) =
           Pending(calls, Depth - 1) \cup Standing(Depth, top.messages, top.sent)
      /\ Pending(calls', Depth) =
           Pending(calls, Depth - 1) \cup Standing(Depth, ms, top.sent)
  BY <1>0, <1>6, <1>7, <1>8, TopTurns
<1>10. Pending(calls', Depth') = Pending(calls, Depth) \cup {x}
  BY <1>5, <1>7, <1>9
<1>11. WorldFated'
  <2>1. triggers \in Stores /\ fate \in [1 .. MaxCreated -> Fates]
    BY <1>0, WorldTypes
  <2>2. Fated(triggers, fate, created, Pending(calls, Depth))
    BY <1>0 DEF WorldFated
  <2>3. x[3] = triggers[id].born
    BY DEF t
  <2> HIDE DEF x
  <2>4. Fated(StoreWithout(triggers, id), [fate EXCEPT ![triggers[id].born] = "taken"],
              created, Pending(calls, Depth) \cup {x})
    BY <1>0, <2>1, <2>2, <2>3, FatedTake
  <2> QED BY <1>0, <1>3, <1>10, <2>4 DEF WorldFated, t
<1> QED BY <1>9, <1>11

LEMMA SendFates ==
  ASSUME FateInv, IInv', SendRebate
  PROVE  WorldFated' /\ SavedFated'
<1>0. /\ IInv /\ WorldFated /\ SavedFated /\ calls # <<>>
      /\ top.sent < Len(top.messages) /\ message.kind = "send"
      /\ UNCHANGED <<triggers, created, fate>>
      /\ calls' = [calls EXCEPT ![Depth].sent = @ + 1]
  BY DEF FateInv, SendRebate, Dispatching
<1>1. /\ top.messages \in Seq(Message) /\ top.sent \in Nat
      /\ Len(top.messages) <= 2 * MaxBatch
  BY <1>0, TopSets
<1>2. /\ Depth' = Depth /\ SavedFated'
      /\ Pending(calls, Depth) =
           Pending(calls, Depth - 1) \cup Standing(Depth, top.messages, top.sent)
      /\ Pending(calls', Depth) =
           Pending(calls, Depth - 1)
             \cup Standing(Depth, top.messages, top.sent + 1)
  BY <1>0, SendTurns
<1>3. Standing(Depth, top.messages, top.sent + 1) =
        Standing(Depth, top.messages, top.sent)
  BY <1>0, <1>1, StandingAfterSend DEF message
<1> QED BY <1>0, <1>2, <1>3 DEF WorldFated

\* Calling a target, or failing to, takes its message out of what is pending.
LEMMA CallTurns ==
  ASSUME FateInv, Dispatching, message.kind = "call", NEW ds, NEW d,
         d = Depth,
         \A l \in 1 .. (Depth - 1) : ds[l] = calls[l],
         ds[Depth].messages = top.messages, ds[Depth].sent = top.sent + 1
  PROVE  Fated(triggers, Called(message.born), created, Pending(ds, d))
<1> DEFINE b == message.born
           x == <<Depth, top.sent + 1, b>>
<1>0. /\ IInv /\ WorldFated /\ calls # <<>> /\ top.sent < Len(top.messages)
      /\ TypeInv
  BY DEF FateInv, IInv, Dispatching
<1>1. /\ Depth \in Nat \ {0} /\ calls[Depth] = top
      /\ top.messages \in Seq(Message) /\ top.sent \in Nat
      /\ Len(top.messages) <= 2 * MaxBatch
  BY <1>0, TopSets
<1>2. b \in 1 .. MaxCreated
  BY <1>0, NextMessage DEF Message
<1>3. /\ x \in Standing(Depth, top.messages, top.sent)
      /\ Standing(Depth, top.messages, top.sent + 1) =
           Standing(Depth, top.messages, top.sent) \ {x}
  <2>1. /\ top.messages[top.sent + 1].kind = "call"
        /\ top.messages[top.sent + 1].born = b
    BY DEF message
  <2>2. top.messages[top.sent + 1].born \in 1 .. MaxCreated
    BY <1>2, <2>1
  <2> HIDE DEF b, x
  <2>3. /\ NextCall(Depth, top.messages, top.sent) \in
             Standing(Depth, top.messages, top.sent)
        /\ Standing(Depth, top.messages, top.sent + 1) =
             Standing(Depth, top.messages, top.sent)
               \ {NextCall(Depth, top.messages, top.sent)}
    <3>1. /\ top.messages \in Seq(Message) /\ top.sent \in Nat
          /\ Len(top.messages) <= 2 * MaxBatch
      BY <1>1
    <3>2. top.sent < Len(top.messages)
      BY <1>0
    <3>3. top.messages[top.sent + 1].kind = "call"
      BY <2>1
    <3>4. \A ms \in Seq(Message), n \in Nat :
          /\ n < Len(ms) /\ Len(ms) <= 2 * MaxBatch
          /\ ms[n + 1].kind = "call" /\ ms[n + 1].born \in 1 .. MaxCreated
          => /\ NextCall(Depth, ms, n) \in Standing(Depth, ms, n)
             /\ Standing(Depth, ms, n + 1) = Standing(Depth, ms, n) \ {NextCall(Depth, ms, n)}
      BY StandingAfterCall, Zenon
    <3> QED
      BY <3>1, <3>2, <3>3, <2>2, <3>4, Zenon
  <2>4. NextCall(Depth, top.messages, top.sent) = x
    BY <2>1 DEF NextCall, x
  <2> QED BY <2>3, <2>4
<1>4. Pending(ds, Depth - 1) = Pending(calls, Depth - 1)
  <2>1. Depth - 1 \in Nat
    BY <1>1
  <2> QED BY <2>1, PendingSame
<1>5. /\ Pending(calls, Depth) =
           Pending(calls, Depth - 1) \cup Standing(Depth, top.messages, top.sent)
      /\ Pending(ds, Depth) =
           Pending(calls, Depth - 1)
             \cup Standing(Depth, top.messages, top.sent + 1)
  BY <1>1, <1>4, PendingSplit
<1>6. x \notin Pending(calls, Depth - 1)
  BY <1>1 DEF Pending
<1>7. x \in Pending(calls, Depth) /\ Pending(ds, d) = Pending(calls, Depth) \ {x}
  BY <1>3, <1>5, <1>6
<1>8. x[3] = b
  OBVIOUS
<1>9. triggers \in Stores /\ fate \in [1 .. MaxCreated -> Fates]
  BY <1>0, WorldTypes
<1>10. Fated(triggers, fate, created, Pending(calls, Depth))
  BY <1>0 DEF WorldFated
<1> HIDE DEF x, b
<1>11. Fated(triggers, [fate EXCEPT ![x[3]] = "called"], created,
             Pending(calls, Depth) \ {x})
  BY <1>2, <1>7, <1>8, <1>9, <1>10, FatedCall
<1> QED BY <1>7, <1>8, <1>11 DEF Called, b

LEMMA FailsAtOnceFates ==
  ASSUME FateInv, IInv', TargetFailsAtOnce
  PROVE  WorldFated' /\ SavedFated'
<1>0. /\ IInv /\ SavedFated /\ calls # <<>> /\ Dispatching /\ message.kind = "call"
      /\ fate' = Called(message.born) /\ UNCHANGED <<triggers, created>>
      /\ calls' = [calls EXCEPT ![Depth].sent = @ + 1]
  BY DEF FateInv, TargetFailsAtOnce, Dispatching
<1>1. Depth' = Depth /\ SavedFated'
  BY <1>0, SendTurns
<1>2. /\ calls'[Depth] = [top EXCEPT !.sent = top.sent + 1]
      /\ \A l \in 1 .. (Depth - 1) : calls'[l] = calls[l]
  BY <1>0, TopSets
<1>3. /\ calls'[Depth].messages = top.messages
      /\ calls'[Depth].sent = top.sent + 1
  BY <1>0, <1>2, TopSets
<1>4. Fated(triggers, Called(message.born), created, Pending(calls', Depth'))
  BY <1>0, <1>1, <1>2, <1>3, CallTurns
<1> QED BY <1>0, <1>1, <1>4 DEF WorldFated

\* An activation that has just begun has nothing pending of its own, and what is
\* saved for it is the state it begins in.
LEMMA NewTurns ==
  ASSUME IInv, SavedFated, NEW ds, DOMAIN ds = 1 .. Depth,
         \A l \in 1 .. (Depth - 1) : ds[l] = calls[l],
         \A l \in 1 .. Depth : ds[l].saved = calls[l].saved,
         NEW c, c.messages = <<>>, c.sent = 0, IInv',
         DOMAIN calls' = 1 .. (Depth + 1), calls'[Depth + 1] = c,
         \A l \in 1 .. Depth : calls'[l] = ds[l],
         Fated(c.saved.triggers, c.saved.fate, c.saved.created,
               Pending(ds, Depth))
  PROVE  /\ SavedFated' /\ Depth' = Depth + 1
         /\ Pending(calls', Depth + 1) = Pending(ds, Depth)
<1>1. /\ Depth \in Nat /\ DOMAIN calls' = 1 .. Depth' /\ Depth' \in Nat
  BY LenProperties DEF IInv, TypeInv, Depth
<1>2. Depth' = Depth + 1
  BY <1>1
<1>3. ASSUME NEW d \in 0 .. Depth PROVE Pending(calls', d) = Pending(ds, d)
  <2>1. d \in Nat /\ \A l \in 1 .. d : calls'[l] = ds[l]
    BY <1>1, <1>3
  <2> QED BY <2>1, PendingSame
<1>4. ASSUME NEW d \in 0 .. (Depth - 1) PROVE Pending(ds, d) = Pending(calls, d)
  <2>1. d \in Nat /\ \A l \in 1 .. d : ds[l] = calls[l]
    BY <1>1, <1>4
  <2> QED BY <2>1, PendingSame
<1>5. Pending(calls', Depth + 1) = Pending(ds, Depth)
  <2>1. Pending(calls', Depth + 1) =
          Pending(calls', (Depth + 1) - 1) \cup Standing(Depth + 1, c.messages, c.sent)
    <3>1. Depth + 1 \in Nat \ {0}
      BY <1>1
    <3>2. \A cs :
            Pending(cs, Depth + 1) =
              Pending(cs, (Depth + 1) - 1)
                \cup Standing(Depth + 1, cs[Depth + 1].messages,
                              cs[Depth + 1].sent)
      BY <3>1, PendingSplit, Zenon
    <3>3. Pending(calls', Depth + 1) =
            Pending(calls', (Depth + 1) - 1)
              \cup Standing(Depth + 1, calls'[Depth + 1].messages,
                            calls'[Depth + 1].sent)
      BY <3>2, Zenon
    <3> QED BY <3>3
  <2>2. Standing(Depth + 1, c.messages, c.sent) = {}
    BY SchedulerAssumption DEF Standing
  <2>3. Pending(calls', Depth) = Pending(ds, Depth)
    <3>1. Depth \in 0 .. Depth
      BY <1>1
    <3> QED BY <1>3, <3>1
  <2>4. (Depth + 1) - 1 = Depth
    BY <1>1
  <2> QED BY <2>1, <2>2, <2>3, <2>4
<1>6. SavedFated'
  <2> SUFFICES ASSUME NEW l \in 1 .. (Depth + 1)
               PROVE  Fated(calls'[l].saved.triggers, calls'[l].saved.fate,
                            calls'[l].saved.created, Pending(calls', l - 1))
    BY <1>2 DEF SavedFated
  <2>1. CASE l = Depth + 1
    <3>1. Depth \in 0 .. Depth /\ l - 1 = Depth
      BY <1>1, <2>1
    <3>2. Pending(calls', l - 1) = Pending(ds, Depth)
      BY <1>3, <3>1
    <3> QED BY <2>1, <3>2
  <2>2. CASE l \in 1 .. Depth
    <3>1. calls'[l].saved = calls[l].saved
      BY <2>2
    <3>2. l - 1 \in 0 .. Depth /\ l - 1 \in 0 .. (Depth - 1)
      BY <1>1, <2>2
    <3>3. Pending(calls', l - 1) = Pending(calls, l - 1)
      BY <1>3, <1>4, <3>2
    <3> QED BY <2>2, <3>1, <3>3 DEF SavedFated
  <2> QED BY <1>1, <2>1, <2>2
<1> QED BY <1>2, <1>5, <1>6

LEMMA CallFates ==
  ASSUME FateInv, IInv', CallTarget
  PROVE  WorldFated' /\ SavedFated'
<1> DEFINE ds == [calls EXCEPT ![Depth].sent = @ + 1]
           w == [World EXCEPT !.fate = Called(message.born)]
           c == Activation(message.to, w)
<1>0. /\ IInv /\ SavedFated /\ calls # <<>> /\ Dispatching /\ message.kind = "call"
      /\ fate' = Called(message.born) /\ UNCHANGED <<triggers, created>>
      /\ calls' = Append(ds, c) /\ TypeInv
  BY DEF FateInv, IInv, CallTarget, Dispatching
<1>1. /\ Depth \in Nat \ {0} /\ calls[Depth] = top /\ DOMAIN calls = 1 .. Depth
  BY <1>0, TopSets
<1>2. /\ ds[Depth] = [top EXCEPT !.sent = top.sent + 1] /\ DOMAIN ds = 1 .. Depth
      /\ \A l \in 1 .. (Depth - 1) : ds[l] = calls[l]
  BY <1>1
<1>3. /\ ds[Depth].messages = top.messages /\ ds[Depth].sent = top.sent + 1
      /\ ds[Depth].saved = top.saved
  BY <1>0, <1>2, TopSets
<1>4. \A l \in 1 .. Depth : ds[l].saved = calls[l].saved
  <2> SUFFICES ASSUME NEW l \in 1 .. Depth PROVE ds[l].saved = calls[l].saved
    OBVIOUS
  <2>1. CASE l = Depth
    BY <1>1, <1>3, <2>1
  <2>2. CASE l \in 1 .. (Depth - 1)
    BY <1>2, <2>2
  <2> QED BY <1>1, <2>1, <2>2
<1>5. /\ c.messages = <<>> /\ c.sent = 0 /\ c.saved = w
  BY DEF Activation
<1>6. /\ w.triggers = triggers /\ w.created = created
      /\ w.fate = Called(message.born)
  BY DEF World
<1>7. ds \in Seq(Activations) /\ Len(ds) = Depth
  <2>1. \E e \in Activations : ds = [calls EXCEPT ![Depth] = e]
    <3>1. ds = [calls EXCEPT ![Depth].sent = top.sent + 1]
      BY <1>1
    <3> QED BY <1>0, <3>1, MessageSent
  <2>2. calls \in Seq(Activations) /\ Depth = Len(calls) /\ Depth \in 1 .. Len(calls)
    BY <1>0, <1>1 DEF TypeInv, Depth
  <2> HIDE DEF ds
  <2> QED BY <2>1, <2>2, ExceptSeq
<1> HIDE DEF ds, c
<1>8. Fated(triggers, Called(message.born), created, Pending(ds, Depth))
  BY <1>2, <1>3, <1>0, CallTurns
<1>9. /\ DOMAIN calls' = 1 .. (Depth + 1) /\ calls'[Depth + 1] = c
      /\ \A l \in 1 .. Depth : calls'[l] = ds[l]
  BY <1>0, <1>1, <1>7
<1>10. Fated(c.saved.triggers, c.saved.fate, c.saved.created, Pending(ds, Depth))
  BY <1>5, <1>6, <1>8
<1>11. /\ SavedFated' /\ Depth' = Depth + 1
       /\ Pending(calls', Depth + 1) = Pending(ds, Depth)
  BY <1>0, <1>2, <1>4, <1>5, <1>9, <1>10, NewTurns
<1> QED BY <1>0, <1>8, <1>11 DEF WorldFated

LEMMA BeginFates ==
  ASSUME FateInv, IInv', NEW u \in Users, Begin(u)
  PROVE  WorldFated' /\ SavedFated'
<1> DEFINE c == Activation(u, World)
<1>0. /\ IInv /\ WorldFated /\ SavedFated /\ calls = <<>> /\ calls' = <<c>>
      /\ UNCHANGED <<triggers, created, fate>>
  BY DEF FateInv, Begin
<1>1. /\ c.messages = <<>> /\ c.sent = 0 /\ c.saved = World
      /\ World.triggers = triggers /\ World.created = created
      /\ World.fate = fate
  BY DEF Activation, World
<1> HIDE DEF c
<1>2. Depth = 0 /\ DOMAIN calls = 1 .. Depth
  BY <1>0 DEF Depth
<1>3. DOMAIN calls' = 1 .. (Depth + 1) /\ calls'[Depth + 1] = c
  BY <1>0, <1>2
<1>4. Fated(c.saved.triggers, c.saved.fate, c.saved.created, Pending(calls, Depth))
  BY <1>0, <1>1 DEF WorldFated
<1>5. /\ \A l \in 1 .. (Depth - 1) : calls[l] = calls[l]
      /\ \A l \in 1 .. Depth : calls[l].saved = calls[l].saved
      /\ \A l \in 1 .. Depth : calls'[l] = calls[l]
  BY <1>2
<1>6. /\ SavedFated' /\ Depth' = Depth + 1
      /\ Pending(calls', Depth + 1) = Pending(calls, Depth)
  BY <1>0, <1>1, <1>2, <1>3, <1>4, <1>5, NewTurns
<1> QED BY <1>0, <1>6 DEF WorldFated

\* The top leaves: below it nothing changes.
LEMMA PopTurns ==
  ASSUME IInv, IInv', SavedFated, calls # <<>>, calls' = Pop
  PROVE  /\ SavedFated' /\ Depth' = Depth - 1
         /\ Pending(calls', Depth - 1) = Pending(calls, Depth - 1)
<1>1. Depth \in Nat \ {0} /\ DOMAIN calls = 1 .. Depth
  BY TopSets
<1>2. /\ Depth' = Depth - 1
      /\ \A l \in 1 .. (Depth - 1) : calls'[l] = calls[l]
  <2>1. TypeInv /\ SavedSolvent
    BY DEF IInv
  <2>2. Depth' = Depth - 1
    BY <2>1, TopLeaves
  <2>3. \A l \in 1 .. (Depth - 1) : calls'[l] = calls[l]
    BY <1>1 DEF Pop
  <2> QED BY <2>2, <2>3
<1>3. ASSUME NEW d \in 0 .. (Depth - 1) PROVE Pending(calls', d) = Pending(calls, d)
  <2>1. d \in Nat /\ \A l \in 1 .. d : calls'[l] = calls[l]
    BY <1>1, <1>2, <1>3
  <2> QED BY <2>1, PendingSame
<1>4. SavedFated'
  <2> SUFFICES ASSUME NEW l \in 1 .. (Depth - 1)
               PROVE  Fated(calls'[l].saved.triggers, calls'[l].saved.fate,
                            calls'[l].saved.created, Pending(calls', l - 1))
    BY <1>2 DEF SavedFated
  <2>1. calls'[l] = calls[l] /\ l \in 1 .. Depth /\ l - 1 \in 0 .. (Depth - 1)
    BY <1>1, <1>2
  <2>2. Pending(calls', l - 1) = Pending(calls, l - 1)
    BY <1>3, <2>1
  <2> QED BY <2>1, <2>2 DEF SavedFated
<1>5. Depth - 1 \in 0 .. (Depth - 1)
  BY <1>1
<1> QED BY <1>2, <1>3, <1>4, <1>5

LEMMA ReturnFates ==
  ASSUME FateInv, IInv', Return
  PROVE  WorldFated' /\ SavedFated'
<1>0. /\ IInv /\ WorldFated /\ SavedFated /\ calls # <<>> /\ calls' = Pop
      /\ top.sent = Len(top.messages) /\ UNCHANGED <<triggers, created, fate>>
  BY DEF FateInv, Return, Running
<1>1. /\ SavedFated' /\ Depth' = Depth - 1
      /\ Pending(calls', Depth - 1) = Pending(calls, Depth - 1)
  BY <1>0, PopTurns
<1>2. Pending(calls, Depth) = Pending(calls, Depth - 1)
  <2>1. /\ Depth \in Nat \ {0} /\ calls[Depth] = top /\ top.sent \in Nat
        /\ top.messages \in Seq(Message) /\ top.sent >= Len(top.messages)
    BY <1>0, TopSets
  <2>2. Standing(Depth, top.messages, top.sent) = {}
    BY <2>1, NoneStanding, Zenon
  <2>3. Pending(calls, Depth) =
          Pending(calls, Depth - 1)
            \cup Standing(Depth, calls[Depth].messages, calls[Depth].sent)
    BY <2>1, PendingSplit
  <2> QED BY <2>1, <2>2, <2>3
<1> QED BY <1>0, <1>1, <1>2 DEF WorldFated

LEMMA FailFates ==
  ASSUME FateInv, IInv', Fail
  PROVE  WorldFated' /\ SavedFated'
<1>0. /\ IInv /\ SavedFated /\ calls # <<>> /\ calls' = Pop
      /\ triggers' = top.saved.triggers /\ created' = top.saved.created
      /\ fate' = top.saved.fate
  BY DEF FateInv, Fail, Running, Restore
<1>1. /\ SavedFated' /\ Depth' = Depth - 1
      /\ Pending(calls', Depth - 1) = Pending(calls, Depth - 1)
  BY <1>0, PopTurns
<1>2. Depth \in 1 .. Depth /\ calls[Depth] = top
  BY <1>0, TopSets
<1>3. Fated(top.saved.triggers, top.saved.fate, top.saved.created,
            Pending(calls, Depth - 1))
  BY <1>0, <1>2 DEF SavedFated
<1> QED BY <1>0, <1>1, <1>3 DEF WorldFated

LEMMA NextFateInv == FateInv /\ [Next]_vars => FateInv'
<1> SUFFICES ASSUME FateInv, [Next]_vars PROVE FateInv'
  OBVIOUS
<1>0. IInv'
  BY NextIInv DEF FateInv
<1>1. CASE NextBlock
  BY <1>0, <1>1 DEF NextBlock, FateInv, WorldFated, SavedFated, Depth
<1>2. CASE \E u \in Users : Begin(u) BY <1>0, <1>2, BeginFates DEF FateInv
<1>3. CASE \E cmd \in Commands, funds \in Amounts : Create(cmd, funds)
  BY <1>0, <1>3, CreateFates DEF FateInv
<1>4. CASE \E ids \in Batches, funds \in Amounts : Execute(ids, funds)
  BY <1>0, <1>4, ExecuteFates DEF FateInv
<1>5. CASE SkipTrigger BY <1>0, <1>5, SkipFates DEF FateInv
<1>6. CASE TakeTrigger BY <1>0, <1>6, TakeFates DEF FateInv
<1>7. CASE SendRebate BY <1>0, <1>7, SendFates DEF FateInv
<1>8. CASE CallTarget BY <1>0, <1>8, CallFates DEF FateInv
<1>9. CASE TargetFailsAtOnce BY <1>0, <1>9, FailsAtOnceFates DEF FateInv
<1>10. CASE Return BY <1>0, <1>10, ReturnFates DEF FateInv
<1>11. CASE Fail BY <1>0, <1>11, FailFates DEF FateInv
<1>12. CASE UNCHANGED vars
  BY <1>0, <1>12 DEF vars, FateInv, WorldFated, SavedFated, Depth
<1> QED BY <1>1, <1>2, <1>3, <1>4, <1>5, <1>6, <1>7, <1>8, <1>9, <1>10, <1>11,
           <1>12 DEF Next

LEMMA InitFateInv == Init => FateInv
<1> SUFFICES ASSUME Init PROVE FateInv
  OBVIOUS
<1>1. IInv
  BY InitIInv
<1>2. Depth = 0 /\ Pending(calls, Depth) = {}
  BY DEF Init, Depth, Pending
<1>3. WorldFated
  BY <1>2 DEF Init, WorldFated, Fated
<1>4. SavedFated
  BY <1>2 DEF SavedFated
<1> QED BY <1>1, <1>3, <1>4 DEF FateInv

\* Nothing executes twice and nothing is dropped: each trigger ever created is in
\* one place, and where that is agrees with what became of it.
THEOREM EachHasOneFate == Spec => []OneFate
<1>1. Init => FateInv
  BY InitFateInv
<1>2. FateInv /\ [Next]_vars => FateInv'
  BY NextFateInv
<1>3. FateInv => OneFate
  <2> SUFFICES ASSUME FateInv PROVE OneFate
    OBVIOUS
  <2> DEFINE P == Pending(calls, Depth)
  <2>0. /\ triggers \in Stores /\ Fated(triggers, fate, created, P)
        /\ calls \in Seq(Activations) /\ Depth = Len(calls)
        /\ \A i \in DOMAIN triggers : triggers[i].born \in 1 .. MaxCreated
    BY WorldTypes DEF FateInv, WorldFated, IInv, TypeInv, Depth, Stores, Trigger
  <2>1. ASSUME NEW p \in UnsentCalls
        PROVE  /\ <<p[1], p[2], MessageAt(calls, p).born>> \in P
               /\ p = <<p[1], p[2]>>
    <3>1. /\ p \in (1 .. Depth) \X (1 .. 2 * MaxBatch)
          /\ p[2] > calls[p[1]].sent /\ p[2] <= Len(calls[p[1]].messages)
          /\ MessageAt(calls, p).kind = "call"
      BY <2>1 DEF UnsentCalls, Unsent
    <3>2. /\ p[1] \in 1 .. Depth /\ p[2] \in 1 .. 2 * MaxBatch
          /\ p[1] \in 1 .. Len(calls) /\ p[2] \in Nat /\ p[2] >= 1
          /\ p = <<p[1], p[2]>>
      BY <2>0, <3>1
    <3>3. calls[p[1]] \in Activations
      BY <2>0, <3>2, ElementOfSeq
    <3>4. calls[p[1]].messages \in Seq(Message)
      BY <3>3 DEF Activations
    <3>5. calls[p[1]].messages[p[2]] \in Message
      <4>1. p[2] \in 1 .. Len(calls[p[1]].messages)
        BY <3>1, <3>2, <3>4, LenProperties
      <4> QED BY <3>4, <4>1, ElementOfSeq
    <3>6. MessageAt(calls, p).born \in 1 .. MaxCreated
      BY <3>5 DEF MessageAt, Message
    <3>7. <<p[1], p[2], MessageAt(calls, p).born>> \in P
      BY <3>1, <3>2, <3>6 DEF Pending, MessageAt
    <3> QED BY <3>2, <3>7
  <2>2. ASSUME NEW x \in P
        PROVE  /\ <<x[1], x[2]>> \in UnsentCalls
               /\ MessageAt(calls, <<x[1], x[2]>>).born = x[3]
    BY <2>2 DEF Pending, UnsentCalls, Unsent, MessageAt
  <2> HIDE DEF P
  <2>3. \A i, j \in DOMAIN triggers : triggers[i].born = triggers[j].born => i = j
    BY <2>0 DEF Fated
  <2>4. ASSUME NEW p \in UnsentCalls, NEW q \in UnsentCalls,
               MessageAt(calls, p).born = MessageAt(calls, q).born
        PROVE  p = q
    <3> DEFINE x == <<p[1], p[2], MessageAt(calls, p).born>>
               y == <<q[1], q[2], MessageAt(calls, q).born>>
    <3>1. x \in P /\ y \in P /\ x[3] = y[3]
      BY <2>1, <2>4
    <3>2. x = y
      BY <2>0, <3>1 DEF Fated
    <3> QED BY <2>1, <3>2
  <2>5. {triggers[i].born : i \in DOMAIN triggers} =
          {n \in 1 .. MaxCreated : fate[n] = "stored"}
    BY <2>0 DEF Fated
  <2>6. {MessageAt(calls, p).born : p \in UnsentCalls} =
          {n \in 1 .. MaxCreated : fate[n] = "taken"}
    <3>1. ASSUME NEW p \in UnsentCalls
          PROVE  MessageAt(calls, p).born \in {n \in 1 .. MaxCreated : fate[n] = "taken"}
      <4> DEFINE x == <<p[1], p[2], MessageAt(calls, p).born>>
      <4>1. x \in P /\ x[3] = MessageAt(calls, p).born
        BY <2>1, <3>1
      <4>2. x[3] \in 1 .. MaxCreated
        BY <4>1, PendingBorn DEF P
      <4> QED BY <2>0, <4>1, <4>2 DEF Fated
    <3>2. ASSUME NEW n \in 1 .. MaxCreated, fate[n] = "taken"
          PROVE  \E p \in UnsentCalls : MessageAt(calls, p).born = n
      <4>1. PICK x \in P : x[3] = n
        BY <2>0, <3>2 DEF Fated
      <4> QED BY <2>2, <4>1
    <3> QED BY <3>1, <3>2
  <2> QED BY <2>3, <2>4, <2>5, <2>6 DEF OneFate
<1> QED BY <1>1, <1>2, <1>3, PTL DEF Spec

=============================================================================
