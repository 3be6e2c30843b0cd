---------------------------- MODULE RegistryProofs ----------------------------
(***************************************************************************)
(* Every strategy the manager has instantiated keeps a record of its own,  *)
(* whatever addresses the chain derives, and the counter counts them.  A   *)
(* client that lists the records page by page sees none twice, sees them   *)
(* in order, and misses none but those that share the second of a cursor.  *)
(***************************************************************************)
EXTENDS Registry, FiniteSetTheorems, WellFoundedInduction, TLAPS

\* What the manager stores, the client apart.
IInv ==
  /\ TypeOK
  /\ IsFiniteSet(DOMAIN strategies)
  /\ CountsEveryStrategy

\* A record that is edited keeps its strategy: no two become one.
LEMMA Edited ==
  ASSUME IInv, NEW a \in DOMAIN strategies, NEW record \in Strategy,
         strategies' = [strategies EXCEPT ![a] = record],
         record.id = strategies[a].id,
         record.created_at = strategies[a].created_at,
         record.updated_at \in {strategies[a].updated_at, time},
         UNCHANGED <<code, counter, time>>
  PROVE  IInv'
<1>1. /\ DOMAIN strategies' = DOMAIN strategies
      /\ strategies'[a] = record
      /\ \A b \in DOMAIN strategies : b # a => strategies'[b] = strategies[b]
  OBVIOUS
<1>2. \A b \in DOMAIN strategies :
        /\ strategies'[b] \in Strategy
        /\ strategies'[b].id = strategies[b].id
        /\ strategies'[b].id <= counter
        /\ strategies'[b].created_at <= strategies'[b].updated_at
        /\ strategies'[b].updated_at <= time
  <2> SUFFICES ASSUME NEW b \in DOMAIN strategies
               PROVE  /\ strategies'[b] \in Strategy
                      /\ strategies'[b].id = strategies[b].id
                      /\ strategies'[b].id <= counter
                      /\ strategies'[b].created_at <= strategies'[b].updated_at
                      /\ strategies'[b].updated_at <= time
    OBVIOUS
  <2>1. /\ strategies[b] \in Strategy
        /\ strategies[b].id <= counter
        /\ strategies[b].created_at <= strategies[b].updated_at
        /\ strategies[b].updated_at <= time
        /\ time \in Nat
    BY RegistryAssumption DEF IInv, TypeOK
  <2>2. /\ strategies[b].created_at \in Nat /\ strategies[b].updated_at \in Nat
    BY <2>1, RegistryAssumption DEF Strategy
  <2>3. CASE b = a
    BY <1>1, <2>1, <2>2, <2>3
  <2>4. CASE b # a
    BY <1>1, <2>1, <2>4
  <2> QED BY <2>3, <2>4
<1>3. TypeOK'
  <2>1. \A b, c \in DOMAIN strategies :
          strategies'[b].id = strategies'[c].id => b = c
    BY <1>2 DEF IInv, TypeOK
  <2> QED BY <1>1, <1>2, <2>1 DEF IInv, TypeOK
<1> QED BY <1>1, <1>3 DEF IInv, CountsEveryStrategy

\* A new strategy has an address and an id that no other one has.
LEMMA Created ==
  ASSUME IInv, NEW owner \in Owners, NEW label \in Labels \cup BadLabels,
         Instantiate(owner, label)
  PROVE  IInv'
<1> DEFINE id == counter + 1
           address == Address(code, owner, id, time)
           record == [id         |-> id,
                      owner      |-> owner,
                      created_at |-> time,
                      updated_at |-> time,
                      label      |-> label,
                      status     |-> "active"]
<1>1. /\ counter \in Nat /\ counter < MaxStrategies /\ MaxStrategies \in Nat
      /\ label \in Labels
      /\ address \notin DOMAIN strategies
      /\ counter' = id
      /\ strategies' = [a \in DOMAIN strategies \cup {address} |->
                          IF a = address THEN record ELSE strategies[a]]
      /\ UNCHANGED <<code, time>>
  BY RegistryAssumption
     DEF IInv, TypeOK, Instantiate, NextId, Free, LabelFits
<1>2. id \in 1 .. MaxStrategies /\ time \in 0 .. MaxTime /\ code \in Codes
  BY <1>1 DEF IInv, TypeOK
<1>3. address \in Addresses
  BY <1>2, RegistryAssumption
<1>4. record \in Strategy
  BY <1>1, <1>2 DEF Strategy, Statuses
<1>5. record.id = id /\ record.created_at = time /\ record.updated_at = time
  OBVIOUS
<1> HIDE DEF record, address
<1>6. /\ DOMAIN strategies' = DOMAIN strategies \cup {address}
      /\ strategies'[address] = record
      /\ \A a \in DOMAIN strategies : strategies'[a] = strategies[a]
  BY <1>1
<1>7. \A a \in DOMAIN strategies :
        /\ strategies[a] \in Strategy
        /\ strategies[a].id <= counter
        /\ strategies[a].created_at <= strategies[a].updated_at
        /\ strategies[a].updated_at <= time
  BY DEF IInv, TypeOK
<1>8. \A a \in DOMAIN strategies' :
        /\ strategies'[a] \in Strategy
        /\ strategies'[a].id <= id
        /\ strategies'[a].created_at <= strategies'[a].updated_at
        /\ strategies'[a].updated_at <= time
  <2> SUFFICES ASSUME NEW a \in DOMAIN strategies'
               PROVE  /\ strategies'[a] \in Strategy
                      /\ strategies'[a].id <= id
                      /\ strategies'[a].created_at <= strategies'[a].updated_at
                      /\ strategies'[a].updated_at <= time
    OBVIOUS
  <2>1. CASE a = address
    BY <1>1, <1>2, <1>4, <1>5, <1>6, <2>1, RegistryAssumption
  <2>2. CASE a # address
    <3>1. a \in DOMAIN strategies /\ strategies'[a] = strategies[a]
      BY <1>6, <2>2
    <3>2. strategies[a].id \in Nat
      BY <1>7, <3>1 DEF Strategy
    <3> QED BY <1>1, <1>7, <3>1, <3>2
  <2> QED BY <2>1, <2>2
<1>9. \A a, b \in DOMAIN strategies' :
        strategies'[a].id = strategies'[b].id => a = b
  <2>1. \A a \in DOMAIN strategies : strategies[a].id # id
    <3> SUFFICES ASSUME NEW a \in DOMAIN strategies PROVE strategies[a].id # id
      OBVIOUS
    <3>1. strategies[a].id \in Nat /\ strategies[a].id <= counter
      BY <1>7 DEF Strategy
    <3> QED BY <1>1, <3>1
  <2>2. \A a, b \in DOMAIN strategies :
          strategies[a].id = strategies[b].id => a = b
    BY DEF IInv, TypeOK
  <2> HIDE DEF id
  <2> QED BY <1>5, <1>6, <2>1, <2>2
<1>10. TypeOK'
  <2>1. counter' \in 0 .. MaxStrategies /\ time' \in 0 .. MaxTime /\ code' \in Codes
    BY <1>1, <1>2
  <2>2. DOMAIN strategies' \subseteq Addresses
    BY <1>3, <1>6 DEF IInv, TypeOK
  <2>3. time' = time /\ counter' = id
    BY <1>1
  <2> HIDE DEF id
  <2> QED BY <1>8, <1>9, <2>1, <2>2, <2>3 DEF TypeOK
<1>11. /\ IsFiniteSet(DOMAIN strategies')
       /\ Cardinality(DOMAIN strategies') = Cardinality(DOMAIN strategies) + 1
  BY <1>1, <1>6, FS_AddElement DEF IInv
<1>12. CountsEveryStrategy'
  <2>1. counter = Cardinality(DOMAIN strategies)
    BY DEF IInv, CountsEveryStrategy
  <2> QED BY <1>1, <1>11, <2>1 DEF CountsEveryStrategy
<1> QED BY <1>10, <1>11, <1>12 DEF IInv

\* The manager starts with no strategy and a counter of none.
LEMMA InvInit == Init => IInv
<1> SUFFICES ASSUME Init PROVE IInv
  OBVIOUS
<1>1. DOMAIN strategies = {}
  BY DEF Init
<1> QED BY <1>1, FS_EmptySet, RegistryAssumption
        DEF Init, IInv, TypeOK, CountsEveryStrategy

\* Each step of the manager adds a record at a free address or edits one.
LEMMA InvStep == IInv /\ [Next]_vars => IInv'
<1> SUFFICES ASSUME IInv, [Next]_vars PROVE IInv'
  OBVIOUS
<1>1. ASSUME NEW a \in DOMAIN strategies
      PROVE  /\ strategies[a] \in Strategy /\ time \in 0 .. MaxTime
             /\ [strategies[a] EXCEPT !.updated_at = time] \in Strategy
  BY DEF IInv, TypeOK, Strategy
<1>2. ASSUME UNCHANGED registryVars, time' \in time .. MaxTime PROVE IInv'
  <2>1. \A a \in DOMAIN strategies :
          strategies[a].updated_at \in Nat /\ strategies[a].updated_at <= time
    BY RegistryAssumption DEF IInv, TypeOK, Strategy
  <2>2. time \in Nat
    BY RegistryAssumption DEF IInv, TypeOK
  <2>3. \A a \in DOMAIN strategies : strategies[a].updated_at <= time'
    BY <1>2, <2>1, <2>2, RegistryAssumption
  <2> QED BY <1>2, <2>2, <2>3, RegistryAssumption
          DEF IInv, TypeOK, CountsEveryStrategy, registryVars
<1>3. time \in time .. MaxTime
  BY RegistryAssumption DEF IInv, TypeOK
<1>4. CASE NextBlock
  <2>1. time' \in time .. MaxTime /\ UNCHANGED registryVars
    BY <1>3, <1>4, RegistryAssumption DEF NextBlock, IInv, TypeOK
  <2> QED BY <1>2, <2>1
<1>5. ASSUME NEW new \in Codes \cup InvalidCodes, Configure(new) PROVE IInv'
  BY <1>5 DEF Configure, IInv, TypeOK, CountsEveryStrategy
<1>6. ASSUME NEW owner \in Owners, NEW label \in Labels \cup BadLabels,
             Instantiate(owner, label)
      PROVE  IInv'
  BY <1>6, Created
<1>7. ASSUME NEW a \in DOMAIN strategies, Execute(a) PROVE IInv'
  <2> DEFINE record == [strategies[a] EXCEPT !.updated_at = time]
  <2>1. /\ record \in Strategy /\ record.id = strategies[a].id
        /\ record.created_at = strategies[a].created_at
        /\ record.updated_at = time
    BY <1>1 DEF Strategy
  <2>2. /\ strategies' = [strategies EXCEPT ![a] = record]
        /\ UNCHANGED <<code, counter, time>>
    BY <1>7 DEF Execute, Save
  <2> HIDE DEF record
  <2> QED BY <2>1, <2>2, Edited
<1>8. ASSUME NEW sender \in Owners, NEW a \in DOMAIN strategies, Update(sender, a)
      PROVE  IInv'
  <2> DEFINE record == [strategies[a] EXCEPT !.updated_at = time]
  <2>1. /\ record \in Strategy /\ record.id = strategies[a].id
        /\ record.created_at = strategies[a].created_at
        /\ record.updated_at = time
    BY <1>1 DEF Strategy
  <2>2. /\ strategies' = [strategies EXCEPT ![a] = record]
        /\ UNCHANGED <<code, counter, time>>
    BY <1>8 DEF Update, Save
  <2> HIDE DEF record
  <2> QED BY <2>1, <2>2, Edited
<1>9. ASSUME NEW sender \in Owners, NEW a \in DOMAIN strategies,
             NEW status \in Statuses, UpdateStatus(sender, a, status)
      PROVE  IInv'
  <2> DEFINE touched == [strategies[a] EXCEPT !.updated_at = time]
             record == [touched EXCEPT !.status = status]
  <2>1. /\ touched \in Strategy /\ touched.id = strategies[a].id
        /\ touched.created_at = strategies[a].created_at
        /\ touched.updated_at = time
    BY <1>1 DEF Strategy
  <2>2. /\ strategies' = [strategies EXCEPT ![a] = record]
        /\ UNCHANGED <<code, counter, time>>
    BY <1>9 DEF UpdateStatus, Save
  <2> HIDE DEF touched
  <2>3. /\ record \in Strategy /\ record.id = touched.id
        /\ record.created_at = touched.created_at
        /\ record.updated_at = touched.updated_at
    BY <2>1 DEF Strategy
  <2> HIDE DEF record
  <2> QED BY <2>1, <2>2, <2>3, Edited
<1>10. ASSUME NEW sender \in Owners, NEW a \in DOMAIN strategies,
              NEW label \in Labels \cup BadLabels, UpdateLabel(sender, a, label)
       PROVE  IInv'
  <2> DEFINE record == [strategies[a] EXCEPT !.label = label]
  <2>1. label \in Labels
    BY <1>10 DEF UpdateLabel, LabelFits
  <2>2. /\ record \in Strategy /\ record.id = strategies[a].id
        /\ record.created_at = strategies[a].created_at
        /\ record.updated_at = strategies[a].updated_at
    BY <1>1, <2>1 DEF Strategy
  <2>3. /\ strategies' = [strategies EXCEPT ![a] = record]
        /\ UNCHANGED <<code, counter, time>>
    BY <1>10 DEF UpdateLabel
  <2> HIDE DEF record
  <2> QED BY <2>2, <2>3, Edited
<1>11. CASE Start \/ Page
  BY <1>2, <1>3, <1>11 DEF Start, Page
<1>12. CASE UNCHANGED vars
  BY <1>2, <1>3, <1>12 DEF vars, registryVars
<1> QED BY <1>4, <1>5, <1>6, <1>7, <1>8, <1>9, <1>10, <1>11, <1>12 DEF Next

\* The two together.
LEMMA InvariantHolds == Spec => []IInv
BY InvInit, InvStep, PTL DEF Spec

\* Strategies have ids and records of their own, no record is newer than the
\* block, and a record edited stays that of its strategy.
THEOREM TypeCorrect == Spec => []TypeOK
<1>1. IInv => TypeOK
  BY DEF IInv
<1> QED BY <1>1, InvariantHolds, PTL

\* The counter is the number of strategies with a record: whatever addresses
\* the chain derives, no instantiation takes over that of another strategy
\* (instantiate2 in the manager's Instantiate).
THEOREM NoneOverwritten == Spec => []CountsEveryStrategy
<1>1. IInv => CountsEveryStrategy
  BY DEF IInv
<1> QED BY <1>1, InvariantHolds, PTL

-----------------------------------------------------------------------------
(* Induction *)

\* A set of numbers has a least one.
LEMMA LeastNumber ==
  ASSUME NEW T \in SUBSET Nat, T # {}
  PROVE  \E n \in T : \A m \in T : n <= m
<1> DEFINE R == {ss \in Nat \X Nat : ss[1] < ss[2]}
<1>1. IsWellFoundedOn(R, Nat)
  BY NatLessThanWellFounded DEF OpToRel
<1>2. PICK n \in T : \A m \in T : ~ (<<m, n>> \in R)
  <2> HIDE DEF R
  <2> QED BY <1>1, WFMin
<1>3. \A m \in T : ~(m < n)
  BY <1>2
<1>4. QED BY <1>3

\* Induction: a set that holds 0, and the successor of each of its numbers, holds all.
\* That it is a set, and not a predicate, is what lets the provers use it.
LEMMA EveryNumber ==
  ASSUME NEW Q, 0 \in Q, \A n \in Nat : n \in Q => n + 1 \in Q
  PROVE  Nat \subseteq Q
<1>1. SUFFICES ASSUME Nat \ Q # {} PROVE FALSE
  OBVIOUS
<1>2. PICK n \in Nat \ Q : \A m \in Nat \ Q : n <= m
  BY <1>1, LeastNumber
<1>3. n # 0 /\ n - 1 \in Nat
  BY <1>2
<1>4. n - 1 \in Q
  BY <1>2, <1>3
<1>5. QED BY <1>2, <1>3, <1>4

\* A set of sets that holds the empty one, and with a set that set and one element more,
\* holds every finite set.
LEMMA EveryFiniteSet ==
  ASSUME NEW S, IsFiniteSet(S), NEW Q, {} \in Q,
         \A T \in SUBSET S : \A x \in S \ T : T \in Q => T \cup {x} \in Q
  PROVE  S \in Q
<1> DEFINE N == {n \in Nat : \A T \in SUBSET S : Cardinality(T) = n => T \in Q}
<1>1. 0 \in N
  BY FS_EmptySet, FS_Subset
<1>2. ASSUME NEW n \in Nat, n \in N PROVE n + 1 \in N
  <2> SUFFICES ASSUME NEW T \in SUBSET S, Cardinality(T) = n + 1 PROVE T \in Q
    OBVIOUS
  <2>1. IsFiniteSet(T) /\ T # {}
    BY FS_Subset, FS_EmptySet
  <2>2. PICK x \in T : TRUE
    BY <2>1
  <2>3. Cardinality(T \ {x}) = Cardinality(T) - 1
    BY <2>1, <2>2, FS_RemoveElement, Zenon
  <2>4. T \ {x} \in Q
    BY <1>2, <2>3
  <2>5. (T \ {x}) \cup {x} \in Q
    BY <2>2, <2>4
  <2>6. QED BY <2>2, <2>5, (T \ {x}) \cup {x} = T
<1>3. Nat \subseteq N
  <2> HIDE DEF N
  <2> QED BY <1>1, <1>2, EveryNumber
<1>4. Cardinality(S) \in N
  <2> HIDE DEF N
  <2> QED BY <1>3, FS_CardinalityType
<1>5. QED BY <1>4

-----------------------------------------------------------------------------
(* The order of a listing *)

Orders(S, R) ==
  /\ \A a \in S : <<a, a>> \notin R
  /\ \A a, b \in S : a # b => <<a, b>> \in R \/ <<b, a>> \in R
  /\ \A a, b, c \in S : <<a, b>> \in R /\ <<b, c>> \in R => <<a, c>> \in R

\* A finite set in order has a last member.
LEMMA LastMember ==
  ASSUME NEW S, IsFiniteSet(S), NEW R, Orders(S, R), S # {}
  PROVE  \E m \in S : \A a \in S \ {m} : <<a, m>> \in R
<1> DEFINE Q == {T \in SUBSET S :
                   T # {} => \E m \in T : \A a \in T \ {m} : <<a, m>> \in R}
<1>1. {} \in Q
  OBVIOUS
<1>2. ASSUME NEW T \in SUBSET S, NEW x \in S \ T, T \in Q PROVE T \cup {x} \in Q
  <2>1. CASE T = {}
    BY <2>1
  <2>2. CASE T # {}
    <3>1. PICK m \in T : \A a \in T \ {m} : <<a, m>> \in R
      BY <1>2, <2>2
    <3>2. CASE <<x, m>> \in R
      BY <3>1, <3>2
    <3>3. CASE <<m, x>> \in R
      <4>1. \A a \in (T \cup {x}) \ {x} : <<a, x>> \in R
        BY <3>1, <3>3 DEF Orders
      <4> QED BY <4>1
    <3>4. QED BY <3>2, <3>3 DEF Orders
  <2>3. QED BY <2>1, <2>2
<1>3. S \in Q
  <2> HIDE DEF Q
  <2> QED BY <1>1, <1>2, EveryFiniteSet
<1>4. QED BY <1>3

Sorted(S, R, seq) ==
  /\ seq \in [1 .. Cardinality(S) -> S]
  /\ \A i, j \in DOMAIN seq : i < j => <<seq[i], seq[j]>> \in R

\* A finite set in order can be listed in it.
LEMMA CanBeSorted ==
  ASSUME NEW S, IsFiniteSet(S), NEW R, Orders(S, R)
  PROVE  \E seq : Sorted(S, R, seq)
<1> DEFINE Q == {n \in Nat : \A T \in SUBSET S :
                   Cardinality(T) = n => \E seq : Sorted(T, R, seq)}
<1>1. 0 \in Q
  <2> SUFFICES ASSUME NEW T \in SUBSET S, Cardinality(T) = 0
               PROVE \E seq : Sorted(T, R, seq)
    OBVIOUS
  <2> DEFINE seq == [i \in 1 .. 0 |-> i]
  <2>1. Sorted(T, R, seq)
    BY DEF Sorted
  <2> QED BY <2>1
<1>2. ASSUME NEW n \in Nat, n \in Q PROVE n + 1 \in Q
  <2> SUFFICES ASSUME NEW T \in SUBSET S, Cardinality(T) = n + 1
               PROVE \E seq : Sorted(T, R, seq)
    OBVIOUS
  <2>1. IsFiniteSet(T) /\ T # {}
    BY FS_Subset, FS_EmptySet
  <2>2. Orders(T, R)
    BY DEF Orders
  <2>3. PICK m \in T : \A a \in T \ {m} : <<a, m>> \in R
    BY <2>1, <2>2, LastMember
  <2> DEFINE U == T \ {m}
  <2>4. Cardinality(U) = n
    <3>1. Cardinality(U) = Cardinality(T) - 1
      BY <2>1, FS_RemoveElement
    <3> QED BY <3>1
  <2>5. PICK u : Sorted(U, R, u)
    BY <1>2, <2>4
  <2> DEFINE seq == [i \in 1 .. n + 1 |-> IF i = n + 1 THEN m ELSE u[i]]
  <2>6. u \in [1 .. n -> U] /\ \A i, j \in 1 .. n : i < j => <<u[i], u[j]>> \in R
    BY <2>4, <2>5 DEF Sorted
  <2>7. \A i \in 1 .. n + 1 : i = n + 1 \/ (i \in 1 .. n /\ seq[i] = u[i] /\ u[i] \in U)
    BY <2>6
  <2>8. seq \in [1 .. n + 1 -> T]
    BY <2>6, <2>7
  <2>9. ASSUME NEW i \in 1 .. n + 1, NEW j \in 1 .. n + 1, i < j
        PROVE <<seq[i], seq[j]>> \in R
    <3>1. i \in 1 .. n /\ seq[i] = u[i] /\ u[i] \in U
      BY <2>7, <2>9
    <3>2. CASE j = n + 1
      <4>1. seq[j] = m
        BY <3>2
      <4> HIDE DEF seq
      <4> QED BY <2>3, <3>1, <4>1
    <3>3. CASE j \in 1 .. n
      <4>1. seq[j] = u[j]
        BY <3>3
      <4> HIDE DEF seq
      <4> QED BY <2>6, <2>9, <3>1, <3>3, <4>1
    <3> QED BY <3>2, <3>3
  <2>10. Sorted(T, R, seq)
    <3> HIDE DEF seq
    <3> QED BY <2>8, <2>9 DEF Sorted
  <2> QED BY <2>10
<1>3. Nat \subseteq Q
  <2> HIDE DEF Q
  <2> QED BY <1>1, <1>2, EveryNumber
<1>4. Cardinality(S) \in Q
  <2> HIDE DEF Q
  <2> QED BY <1>3, FS_CardinalityType
<1>5. QED BY <1>4

\* InOrder lists each member once.
LEMMA InOrderIsSorted ==
  ASSUME NEW S, IsFiniteSet(S), NEW R, Orders(S, R)
  PROVE  /\ Cardinality(S) \in Nat
         /\ Sorted(S, R, InOrder(S, R))
         /\ \A a \in S : \E i \in 1 .. Cardinality(S) : InOrder(S, R)[i] = a
<1> DEFINE n == Cardinality(S)
           seq == InOrder(S, R)
<1>1. n \in Nat
  BY FS_CardinalityType
<1>2. Sorted(S, R, seq)
  <2>1. \E u \in [1 .. Cardinality(S) -> S] :
          \A i, j \in DOMAIN u : i < j => <<u[i], u[j]>> \in R
    BY CanBeSorted DEF Sorted
  <2> QED BY <2>1 DEF InOrder, Sorted
<1> HIDE DEF seq
<1>3. seq \in Injection(1 .. n, S)
  <2>1. seq \in [1 .. n -> S]
    BY <1>2 DEF Sorted
  <2>2. \A i, j \in 1 .. n : i < j => seq[i] # seq[j]
    BY <1>2, <2>1 DEF Sorted, Orders
  <2>3. \A i, j \in 1 .. n : seq[i] = seq[j] => i = j
    BY <1>1, <2>2
  <2> QED BY <2>1, <2>3 DEF Injection, IsInjective
<1>4. Cardinality(1 .. n) = n /\ IsFiniteSet(1 .. n)
  <2>1. n \in Int /\ 1 \in Int
    BY <1>1
  <2> HIDE DEF n
  <2>2. IsFiniteSet(1 .. n) /\ Cardinality(1 .. n) = IF 1 > n THEN 0 ELSE n - 1 + 1
    BY <2>1, FS_Interval
  <2> QED BY <1>1, <2>2
<1>5. seq \in Surjection(1 .. n, S)
  <2>1. Cardinality(1 .. n) = Cardinality(S)
    BY <1>4
  <2> HIDE DEF n
  <2> QED BY <1>3, <2>1, FS_Injection
<1>6. \A a \in S : \E i \in 1 .. n : seq[i] = a
  BY <1>5 DEF Surjection
<1>7. QED BY <1>1, <1>2, <1>6 DEF seq

\* A page begins the listing, and if a member is not on it, it is full and ends before.
LEMMA PageBegins ==
  ASSUME NEW S, IsFiniteSet(S), NEW R, Orders(S, R), NEW n \in Nat \ {0}
  PROVE  LET page == Take(n, InOrder(S, R))
         IN  /\ page \in Seq(S)
             /\ \A i, j \in DOMAIN page : i < j => <<page[i], page[j]>> \in R
             /\ \A a \in S : \/ \E i \in DOMAIN page : page[i] = a
                             \/ /\ Len(page) = n
                                /\ <<page[Len(page)], a>> \in R
<1> DEFINE c == Cardinality(S)
           seq == InOrder(S, R)
           m == IF n < c THEN n ELSE c
           page == [i \in 1 .. m |-> seq[i]]
<1>1. c \in Nat /\ Sorted(S, R, seq) /\ \A a \in S : \E i \in 1 .. c : seq[i] = a
  BY InOrderIsSorted
<1> HIDE DEF seq
<1>2. seq \in [1 .. c -> S] /\ \A i, j \in 1 .. c : i < j => <<seq[i], seq[j]>> \in R
  BY <1>1 DEF Sorted
<1> HIDE DEF c
<1>3. Len(seq) = c
  BY <1>1, <1>2
<1>4. Take(n, seq) = page
  BY <1>3 DEF Take
<1>5. m \in Nat /\ m <= c /\ m <= n /\ \A i \in 1 .. m : i \in 1 .. c
  BY <1>1
<1>6. page \in [1 .. m -> S] /\ \A i \in 1 .. m : page[i] = seq[i]
  BY <1>2, <1>5
<1> HIDE DEF page
<1>7. page \in Seq(S) /\ Len(page) = m /\ DOMAIN page = 1 .. m
  <2> HIDE DEF m
  <2> QED BY <1>5, <1>6
<1>8. \A i, j \in DOMAIN page : i < j => <<page[i], page[j]>> \in R
  <2> HIDE DEF m
  <2> QED BY <1>2, <1>5, <1>6, <1>7
<1>9. ASSUME NEW a \in S, ~ \E i \in DOMAIN page : page[i] = a
      PROVE  Len(page) = n /\ <<page[Len(page)], a>> \in R
  <2>1. PICK i \in 1 .. c : seq[i] = a
    BY <1>1
  <2>2. i \notin 1 .. m
    BY <1>6, <1>7, <1>9, <2>1
  <2>3. m = n /\ n < i /\ n \in 1 .. m /\ n \in 1 .. c
    BY <1>1, <2>2
  <2> HIDE DEF m
  <2>4. page[n] = seq[n] /\ <<seq[n], seq[i]>> \in R
    BY <1>2, <1>6, <2>3
  <2> QED BY <1>7, <2>1, <2>3, <2>4
<1>10. QED BY <1>4, <1>7, <1>8, <1>9 DEF seq

-----------------------------------------------------------------------------
(* The pages a client has got *)

NoFilter == [owner |-> NONE, status |-> NONE]

Clients ==
  [query   : {"updated", "id"},
   filter  : Filters \cup {NoFilter},
   limit   : Limits \cup {NONE},
   cursor  : Nat \cup {NONE},
   cursors : SUBSET Nat,
   listed  : Seq(Addresses),
   times   : Seq(Nat),
   owed    : SUBSET Addresses,
   done    : BOOLEAN]

\* The cursor is the end of what was listed, and whatever was listed has not been
\* given an earlier update since.
Behind(i) ==
  /\ client.listed[i] \in DOMAIN strategies
  /\ client.cursor # NONE
  /\ client.query = "id" => client.listed[i] <= client.cursor
  /\ client.query = "updated" =>
       /\ client.cursor <= client.times[i]
       /\ client.times[i] <= strategies[client.listed[i]].updated_at

InSequence(i, j) ==
  IF client.query = "id" THEN client.listed[i] < client.listed[j]
  ELSE client.listed[i] # client.listed[j] /\ client.times[i] >= client.times[j]

Ahead(a) ==
  client.cursor # NONE =>
    IF client.query = "id" THEN a > client.cursor
    ELSE strategies[a].updated_at <= client.cursor

\* What is owed was listed, or shares its second with a cursor, or lies ahead.
Accounted(a) ==
  /\ a \in DOMAIN strategies
  /\ Matches(strategies[a], client.filter)
  /\ \/ \E i \in DOMAIN client.listed : client.listed[i] = a
     \/ client.query = "updated" /\ strategies[a].updated_at \in client.cursors
     \/ ~client.done /\ Ahead(a)

ClientInv ==
  client # NONE =>
    /\ client \in Clients
    /\ client.query = "id" => client.filter = NoFilter
    /\ Len(client.times) = Len(client.listed)
    /\ \A i \in DOMAIN client.listed : Behind(i)
    /\ \A i, j \in DOMAIN client.listed : i < j => InSequence(i, j)
    /\ \A a \in client.owed : Accounted(a)

\* The updates of the records are times.
LEMMA UpdatesAreTimes ==
  ASSUME IInv, NEW a \in DOMAIN strategies
  PROVE  /\ strategies[a].updated_at \in Nat /\ strategies[a].updated_at <= time
         /\ time \in Nat /\ a \in Nat /\ a \in Addresses
<1>1. /\ strategies[a] \in Strategy /\ strategies[a].updated_at <= time
      /\ time \in 0 .. MaxTime /\ a \in Addresses
  BY DEF IInv, TypeOK
<1>2. strategies[a].updated_at \in 0 .. MaxTime
  BY <1>1 DEF Strategy
<1>3. QED BY <1>1, <1>2, RegistryAssumption

\* What others do to the registry only adds to it, and moves updates on; those that
\* the client was owed and are updated are owed no longer.
OthersStep ==
  /\ client # NONE
  /\ client' \in Clients
  /\ /\ client'.query = client.query
     /\ client'.filter = client.filter
     /\ client'.cursor = client.cursor
     /\ client'.cursors = client.cursors
     /\ client'.listed = client.listed
     /\ client'.times = client.times
     /\ client'.done = client.done
     /\ client'.owed \subseteq client.owed
  /\ \A a \in DOMAIN strategies :
       /\ a \in DOMAIN strategies'
       /\ strategies'[a].updated_at \in Nat
       /\ strategies[a].updated_at <= strategies'[a].updated_at
  /\ \A a \in client'.owed :
       client.query = "updated" /\ a \in DOMAIN strategies =>
         /\ strategies'[a].updated_at = strategies[a].updated_at
         /\ strategies'[a].owner = strategies[a].owner
         /\ strategies'[a].status = strategies[a].status

\* They do not disturb a listing.
LEMMA OthersKeepPages ==
  ASSUME IInv, ClientInv, OthersStep
  PROVE  ClientInv'
<1>1. /\ client \in Clients
      /\ client.query = "id" => client.filter = NoFilter
      /\ Len(client.times) = Len(client.listed)
      /\ \A i \in DOMAIN client.listed : Behind(i)
      /\ \A i, j \in DOMAIN client.listed : i < j => InSequence(i, j)
      /\ \A a \in client.owed : Accounted(a)
  BY DEF ClientInv, OthersStep
<1>2. /\ client.query \in {"updated", "id"} /\ client.listed \in Seq(Addresses)
      /\ client.times \in Seq(Nat) /\ client.cursor \in Nat \cup {NONE}
  BY <1>1 DEF Clients
<1>3. ASSUME NEW i \in DOMAIN client.listed PROVE Behind(i)'
  <2>1. Behind(i)
    BY <1>1
  <2>2. client.listed[i] \in DOMAIN strategies
    BY <2>1 DEF Behind
  <2>3. /\ client.listed[i] \in DOMAIN strategies'
        /\ strategies'[client.listed[i]].updated_at \in Nat
        /\ strategies[client.listed[i]].updated_at <= strategies'[client.listed[i]].updated_at
        /\ strategies[client.listed[i]].updated_at \in Nat
    BY <2>2, UpdatesAreTimes DEF OthersStep
  <2>4. client.times[i] \in Nat
    BY <1>1, <1>2
  <2>5. client.query = "updated" =>
          client.times[i] <= strategies'[client.listed[i]].updated_at
    BY <2>1, <2>3, <2>4 DEF Behind
  <2> QED BY <2>1, <2>3, <2>5 DEF Behind, OthersStep
<1>4. \A i, j \in DOMAIN client.listed : i < j => InSequence(i, j)'
  BY <1>1 DEF InSequence, OthersStep
<1>5. ASSUME NEW a \in client'.owed PROVE Accounted(a)'
  <2>1. Accounted(a)
    BY <1>1, <1>5 DEF OthersStep
  <2>2. a \in DOMAIN strategies /\ a \in DOMAIN strategies'
    BY <2>1 DEF Accounted, OthersStep
  <2>3. CASE client.query = "id"
    BY <1>1, <2>1, <2>2, <2>3 DEF Accounted, Ahead, Matches, NoFilter, OthersStep
  <2>4. CASE client.query = "updated"
    <3>1. /\ strategies'[a].updated_at = strategies[a].updated_at
          /\ strategies'[a].owner = strategies[a].owner
          /\ strategies'[a].status = strategies[a].status
      BY <1>5, <2>2, <2>4 DEF OthersStep
    <3> QED BY <2>1, <2>2, <2>4, <3>1 DEF Accounted, Ahead, Matches, OthersStep
  <2> QED BY <1>2, <2>3, <2>4
<1>6. /\ client' \in Clients
      /\ client'.query = "id" => client'.filter = NoFilter
      /\ Len(client'.times) = Len(client'.listed)
      /\ client'.listed = client.listed
  BY <1>1 DEF OthersStep
<1>7. QED BY <1>3, <1>4, <1>5, <1>6 DEF ClientInv

\* The next page: what is asked for, and in which order it comes.
ListedNow ==
  IF client.query = "updated"
    THEN {a \in DOMAIN strategies :
            Matches(strategies[a], client.filter) /\ Before(a, client.cursor)}
    ELSE {a \in DOMAIN strategies : After(a, client.cursor)}

OrderNow ==
  IF client.query = "updated"
    THEN {p \in ListedNow \X ListedNow : Newer(p[1], p[2])}
    ELSE {p \in ListedNow \X ListedNow : p[1] < p[2]}

\* What a page of a query is to its listing: PageBegins for both queries.
LEMMA PageIsBegun ==
  ASSUME IInv, client \in Clients
  PROVE  /\ Asked \in Seq(ListedNow)
         /\ LimitOf(client.limit) \in Nat \ {0}
         /\ \A i, j \in DOMAIN Asked :
              i < j => IF client.query = "updated" THEN Newer(Asked[i], Asked[j])
                       ELSE Asked[i] < Asked[j]
         /\ \A a \in ListedNow :
              \/ \E i \in DOMAIN Asked : Asked[i] = a
              \/ /\ Len(Asked) = LimitOf(client.limit)
                 /\ IF client.query = "updated" THEN Newer(Asked[Len(Asked)], a)
                    ELSE Asked[Len(Asked)] < a
<1> DEFINE S == ListedNow
           R == OrderNow
           n == LimitOf(client.limit)
<1>1. n \in Nat \ {0}
  BY RegistryAssumption DEF Clients, LimitOf
<1>2. Asked = Take(n, InOrder(S, R))
  BY DEF Asked, ByUpdate, ById, ListedNow, OrderNow, Clients
<1>3. S \in SUBSET DOMAIN strategies /\ IsFiniteSet(S)
  <2>1. S \in SUBSET DOMAIN strategies
    BY DEF ListedNow
  <2> HIDE DEF S
  <2>2. IsFiniteSet(DOMAIN strategies)
    BY DEF IInv
  <2> QED BY <2>1, <2>2, FS_Subset, Zenon
<1>4. \A a \in S : a \in Nat /\ strategies[a].updated_at \in Nat
  BY <1>3, UpdatesAreTimes
<1>5. \A a, b \in S : <<a, b>> \in R <=> IF client.query = "updated" THEN Newer(a, b)
                                         ELSE a < b
  BY DEF OrderNow
<1>6. Orders(S, R)
  <2> HIDE DEF S, R
  <2>1. \A a \in S : <<a, a>> \notin R
    BY <1>4, <1>5 DEF Newer
  <2>2. \A a, b \in S : a # b => <<a, b>> \in R \/ <<b, a>> \in R
    BY <1>4, <1>5 DEF Newer
  <2>3. \A a, b, c \in S : <<a, b>> \in R /\ <<b, c>> \in R => <<a, c>> \in R
    BY <1>4, <1>5 DEF Newer
  <2> QED BY <2>1, <2>2, <2>3 DEF Orders
<1> HIDE DEF S, R, n
<1> DEFINE page == Take(n, InOrder(S, R))
<1>7. /\ page \in Seq(S)
      /\ \A i, j \in DOMAIN page : i < j => <<page[i], page[j]>> \in R
      /\ \A a \in S : \/ \E i \in DOMAIN page : page[i] = a
                      \/ Len(page) = n /\ <<page[Len(page)], a>> \in R
  BY <1>1, <1>3, <1>6, PageBegins
<1> HIDE DEF page
<1>8. \A i \in DOMAIN page : page[i] \in S
  BY <1>7
<1>9. Len(page) = n => Len(page) \in DOMAIN page
  BY <1>1, <1>7
<1>10. /\ page \in Seq(S)
       /\ \A i, j \in DOMAIN page : i < j => IF client.query = "updated"
                                               THEN Newer(page[i], page[j])
                                               ELSE page[i] < page[j]
       /\ \A a \in S : \/ \E i \in DOMAIN page : page[i] = a
                       \/ /\ Len(page) = n
                          /\ IF client.query = "updated" THEN Newer(page[Len(page)], a)
                             ELSE page[Len(page)] < a
  BY <1>5, <1>7, <1>8, <1>9
<1>11. Asked = page
  BY <1>2 DEF page
<1>12. QED BY <1>1, <1>10, <1>11 DEF S, n

\* The members of a list that another follows.
LEMMA InEither ==
  ASSUME NEW A, NEW s \in Seq(A), NEW t \in Seq(A)
  PROVE  /\ s \o t \in Seq(A)
         /\ Len(s \o t) = Len(s) + Len(t)
         /\ Len(s) \in Nat /\ Len(t) \in Nat
         /\ \A i \in DOMAIN (s \o t) :
              \/ i \in DOMAIN s /\ (s \o t)[i] = s[i]
              \/ /\ i - Len(s) \in DOMAIN t /\ (s \o t)[i] = t[i - Len(s)]
                 /\ \A k \in DOMAIN s : k < i
         /\ \A i \in DOMAIN s : i \in DOMAIN (s \o t) /\ (s \o t)[i] = s[i]
         /\ \A k \in DOMAIN t : /\ k + Len(s) \in DOMAIN (s \o t)
                                /\ (s \o t)[k + Len(s)] = t[k]
  OBVIOUS

TimesOf(page) == [i \in DOMAIN page |-> strategies[page[i]].updated_at]

NextCursor == IF Asked = <<>> THEN client.cursor ELSE CursorAfter(Asked)

NextCursors ==
  IF client.cursor = NONE THEN client.cursors ELSE client.cursors \cup {client.cursor}

\* What a page does to the client.
LEMMA PageStep ==
  ASSUME IInv, client \in Clients, Page
  PROVE  /\ ~client.done
         /\ client'.query = client.query
         /\ client'.filter = client.filter
         /\ client'.cursor = NextCursor
         /\ client'.cursors = NextCursors
         /\ client'.listed = client.listed \o Asked
         /\ client'.times = client.times \o TimesOf(Asked)
         /\ client'.owed = client.owed
         /\ client'.done = (Len(Asked) < LimitOf(client.limit))
         /\ client' \in Clients
         /\ UNCHANGED <<strategies, code, counter, time>>
         /\ \A k \in DOMAIN Asked :
              /\ Asked[k] \in ListedNow /\ Asked[k] \in DOMAIN strategies
              /\ Asked[k] \in Nat
              /\ TimesOf(Asked)[k] = strategies[Asked[k]].updated_at
              /\ TimesOf(Asked)[k] \in Nat
         /\ Asked \in Seq(Addresses) /\ TimesOf(Asked) \in Seq(Nat)
         /\ Len(TimesOf(Asked)) = Len(Asked)
<1> DEFINE p == Asked
           q == TimesOf(p)
           cursor == NextCursor
           cursors == NextCursors
           done == (Len(p) < LimitOf(client.limit))
<1>1. client' =
         [client EXCEPT
            !.listed = client.listed \o p,
            !.times = client.times \o q,
            !.cursor = cursor,
            !.cursors = cursors,
            !.done = done]
  BY Zenon DEF Page, NextCursor, NextCursors, TimesOf
<1>2. /\ p \in Seq(ListedNow) /\ ListedNow \subseteq DOMAIN strategies
      /\ LimitOf(client.limit) \in Nat
  BY PageIsBegun DEF ListedNow
<1>3. \A k \in DOMAIN p :
        /\ p[k] \in ListedNow /\ p[k] \in DOMAIN strategies
        /\ p[k] \in Nat /\ p[k] \in Addresses
        /\ strategies[p[k]].updated_at \in Nat
  <2> SUFFICES ASSUME NEW k \in DOMAIN p
               PROVE  /\ p[k] \in ListedNow /\ p[k] \in DOMAIN strategies
                      /\ p[k] \in Nat /\ p[k] \in Addresses
                      /\ strategies[p[k]].updated_at \in Nat
    OBVIOUS
  <2>1. p[k] \in ListedNow /\ p[k] \in DOMAIN strategies
    BY <1>2
  <2> HIDE DEF p
  <2> QED BY <2>1, UpdatesAreTimes
<1>4. /\ p \in Seq(Addresses) /\ q \in Seq(Nat) /\ Len(q) = Len(p)
      /\ \A k \in DOMAIN p : q[k] = strategies[p[k]].updated_at
  <2> HIDE DEF p
  <2>1. Len(p) \in Nat /\ DOMAIN p = 1 .. Len(p)
    BY <1>2
  <2>2. p = [k \in 1 .. Len(p) |-> p[k]]
    BY <1>2
  <2>3. p \in Seq(Addresses)
    BY <1>3, <2>1, <2>2
  <2>4. \A k \in 1 .. Len(p) : q[k] = strategies[p[k]].updated_at /\ q[k] \in Nat
    BY <1>3, <2>1 DEF TimesOf
  <2>5. q = [k \in 1 .. Len(p) |-> strategies[p[k]].updated_at]
    BY <2>1 DEF TimesOf
  <2>6. q \in [1 .. Len(p) -> Nat]
    <3>1. q = [k \in 1 .. Len(p) |-> q[k]]
      BY <2>5
    <3> HIDE DEF q
    <3> QED BY <2>4, <3>1
  <2> HIDE DEF q
  <2>7. q \in Seq(Nat) /\ Len(q) = Len(p)
    BY <2>1, <2>6
  <2> QED BY <2>1, <2>3, <2>4, <2>7
<1>5. p # <<>> => Len(p) \in DOMAIN p
  BY <1>2
<1>6. cursor \in Nat \cup {NONE}
  <2>1. client.cursor \in Nat \cup {NONE}
    BY DEF Clients
  <2>2. ASSUME p # <<>> PROVE CursorAfter(p) \in Nat
    <3>1. p[Len(p)] \in Nat /\ strategies[p[Len(p)]].updated_at \in Nat
      BY <1>3, <1>5, <2>2
    <3> QED BY <3>1 DEF CursorAfter, Last
  <2> QED BY <2>1, <2>2 DEF NextCursor
<1>7. cursors \in SUBSET Nat
  BY DEF NextCursors, Clients
<1>8. done \in BOOLEAN
  OBVIOUS
<1>9. /\ client.listed \in Seq(Addresses) /\ client.times \in Seq(Nat)
  BY DEF Clients
<1> HIDE DEF p, q, cursor, cursors, done
<1>10. client.listed \o p \in Seq(Addresses) /\ client.times \o q \in Seq(Nat)
  BY <1>4, <1>9, InEither
<1> DEFINE listed == client.listed \o p
           times == client.times \o q
<1> HIDE DEF listed, times
<1>11. client' = [client EXCEPT !.listed = listed, !.times = times, !.cursor = cursor,
                                !.cursors = cursors, !.done = done]
  BY <1>1 DEF listed, times
<1>12. listed \in Seq(Addresses) /\ times \in Seq(Nat)
  BY <1>10 DEF listed, times
<1>13. client' \in Clients
  BY <1>6, <1>7, <1>8, <1>11, <1>12 DEF Clients
<1>14. /\ client'.query = client.query /\ client'.filter = client.filter
       /\ client'.cursor = cursor /\ client'.cursors = cursors
       /\ client'.listed = listed /\ client'.times = times
       /\ client'.owed = client.owed /\ client'.done = done
  BY <1>11 DEF Clients
<1>15. ~client.done /\ UNCHANGED <<strategies, code, counter, time>>
  BY DEF Page, registryVars
<1>16. QED
  BY <1>3, <1>4, <1>13, <1>14, <1>15
  DEF p, q, cursor, cursors, done, listed, times

\* Whatever is on the page comes before its end, which is the next cursor, and after
\* the last cursor.
LEMMA EndsPage ==
  ASSUME IInv, client \in Clients, NEW k \in DOMAIN Asked
  PROVE  /\ Asked # <<>> /\ NextCursor \in Nat
         /\ client.query = "id" =>
              /\ Asked[k] <= NextCursor
              /\ client.cursor # NONE => client.cursor < Asked[k]
         /\ client.query = "updated" =>
              /\ NextCursor <= strategies[Asked[k]].updated_at
              /\ client.cursor # NONE =>
                   strategies[Asked[k]].updated_at < client.cursor
<1> DEFINE p == Asked
           m == Len(p)
<1>1. p \in Seq(ListedNow) /\ k \in DOMAIN p
  BY PageIsBegun
<1>2. m \in Nat /\ m \in DOMAIN p /\ k <= m /\ p # <<>> /\ k \in Nat
  BY <1>1
<1>3. p[k] \in ListedNow /\ p[m] \in ListedNow
  BY <1>1, <1>2
<1>4. /\ p[k] \in Nat /\ p[m] \in Nat
      /\ strategies[p[k]].updated_at \in Nat /\ strategies[p[m]].updated_at \in Nat
  BY <1>3, UpdatesAreTimes DEF ListedNow
<1>5. NextCursor = IF client.query = "updated" THEN strategies[p[m]].updated_at ELSE p[m]
  BY <1>2 DEF NextCursor, CursorAfter, Last
<1>6. k = m \/ IF client.query = "updated" THEN Newer(p[k], p[m]) ELSE p[k] < p[m]
  BY <1>2, PageIsBegun
<1> HIDE DEF m, p
<1>7. client.query = "id" =>
        /\ p[k] <= NextCursor
        /\ client.cursor # NONE => client.cursor < p[k]
  BY <1>3, <1>4, <1>5, <1>6 DEF ListedNow, After, Clients
<1>8. client.query = "updated" =>
        /\ NextCursor <= strategies[p[k]].updated_at
        /\ client.cursor # NONE => strategies[p[k]].updated_at < client.cursor
  BY <1>3, <1>4, <1>5, <1>6 DEF ListedNow, Before, Newer, Clients
<1>9. QED BY <1>2, <1>4, <1>5, <1>7, <1>8 DEF p

\* The cursors descend by update, and ascend by id.
LEMMA CursorMoves ==
  ASSUME IInv, client \in Clients, client.cursor # NONE
  PROVE  /\ NextCursor \in Nat /\ client.cursor \in Nat
         /\ client.query = "id" => client.cursor <= NextCursor
         /\ client.query = "updated" => NextCursor <= client.cursor
<1>1. client.cursor \in Nat
  BY DEF Clients
<1>2. CASE Asked = <<>>
  BY <1>1, <1>2 DEF NextCursor
<1>3. CASE Asked # <<>>
  <2>1. Asked \in Seq(ListedNow)
    BY PageIsBegun
  <2>2. 1 \in DOMAIN Asked
    BY <1>3, <2>1
  <2>3. Asked[1] \in ListedNow
    BY <2>1, <2>2
  <2>4. Asked[1] \in Nat /\ strategies[Asked[1]].updated_at \in Nat
    BY <2>3, UpdatesAreTimes DEF ListedNow
  <2>5. QED BY <1>1, <2>2, <2>4, EndsPage
<1>4. QED BY <1>2, <1>3

\* A page that the client reads: what is listed is behind the new cursor.
LEMMA PageKeepsPages ==
  ASSUME IInv, ClientInv, client # NONE, Page
  PROVE  ClientInv'
<1> DEFINE l == client.listed
           t == client.times
           p == Asked
           q == TimesOf(p)
<1>1. /\ client \in Clients
      /\ client.query = "id" => client.filter = NoFilter
      /\ Len(t) = Len(l)
      /\ \A i \in DOMAIN l : Behind(i)
      /\ \A i, j \in DOMAIN l : i < j => InSequence(i, j)
      /\ \A a \in client.owed : Accounted(a)
  BY DEF ClientInv
<1>2. /\ client.query \in {"updated", "id"} /\ l \in Seq(Addresses)
      /\ t \in Seq(Nat) /\ client.cursor \in Nat \cup {NONE}
  BY <1>1 DEF Clients
<1>3. /\ ~client.done
      /\ client'.query = client.query
      /\ client'.filter = client.filter
      /\ client'.cursor = NextCursor
      /\ client'.cursors = NextCursors
      /\ client'.listed = l \o p
      /\ client'.times = t \o q
      /\ client'.owed = client.owed
      /\ client'.done = (Len(p) < LimitOf(client.limit))
      /\ client' \in Clients
      /\ strategies' = strategies
      /\ \A k \in DOMAIN p :
           /\ p[k] \in ListedNow /\ p[k] \in DOMAIN strategies /\ p[k] \in Nat
           /\ q[k] = strategies[p[k]].updated_at /\ q[k] \in Nat
      /\ p \in Seq(Addresses) /\ q \in Seq(Nat) /\ Len(q) = Len(p)
  BY <1>1, PageStep
<1>4. \A i \in DOMAIN l :
        /\ l[i] \in DOMAIN strategies /\ l[i] \in Nat /\ t[i] \in Nat
        /\ client.cursor # NONE /\ client.cursor \in Nat
        /\ client.query = "id" => l[i] <= client.cursor
        /\ client.query = "updated" =>
             client.cursor <= t[i] /\ t[i] <= strategies[l[i]].updated_at
        /\ strategies[l[i]].updated_at \in Nat
  BY <1>1, <1>2, UpdatesAreTimes DEF Behind
<1>5. \A k \in DOMAIN p :
        /\ p # <<>> /\ NextCursor \in Nat
        /\ client.query = "id" =>
             /\ p[k] <= NextCursor
             /\ client.cursor # NONE => client.cursor < p[k]
        /\ client.query = "updated" =>
             /\ NextCursor <= q[k]
             /\ client.cursor # NONE => q[k] < client.cursor
  BY <1>1, <1>3, EndsPage
<1>6. client.cursor # NONE =>
        /\ NextCursor \in Nat /\ client.cursor \in Nat
        /\ client.query = "id" => client.cursor <= NextCursor
        /\ client.query = "updated" => NextCursor <= client.cursor
  BY <1>1, CursorMoves
<1>7. \A a \in ListedNow : /\ a \in DOMAIN strategies /\ a \in Nat
                           /\ strategies[a].updated_at \in Nat
  BY UpdatesAreTimes DEF ListedNow
<1>8. NONE \notin Nat
  BY RegistryAssumption
<1>9. \A a \in ListedNow :
        \/ \E i \in DOMAIN p : p[i] = a
        \/ /\ Len(p) = LimitOf(client.limit)
           /\ IF client.query = "updated" THEN Newer(p[Len(p)], a) ELSE p[Len(p)] < a
  BY <1>1, PageIsBegun
<1>l. LimitOf(client.limit) \in Nat \ {0}
  BY <1>1, PageIsBegun
<1> HIDE DEF l, t, p, q
<1> DEFINE L == l \o p
           T == t \o q
<1>10. /\ L \in Seq(Addresses) /\ Len(L) = Len(l) + Len(p)
       /\ Len(l) \in Nat /\ Len(p) \in Nat
       /\ \A i \in DOMAIN L :
            \/ i \in DOMAIN l /\ L[i] = l[i]
            \/ /\ i - Len(l) \in DOMAIN p /\ L[i] = p[i - Len(l)]
               /\ \A k \in DOMAIN l : k < i
       /\ \A i \in DOMAIN l : i \in DOMAIN L /\ L[i] = l[i]
       /\ \A k \in DOMAIN p : k + Len(l) \in DOMAIN L /\ L[k + Len(l)] = p[k]
  <2>1. l \in Seq(Addresses) /\ p \in Seq(Addresses)
    BY <1>2, <1>3
  <2> QED BY <2>1, InEither
<1>11. /\ T \in Seq(Nat) /\ Len(T) = Len(t) + Len(q)
       /\ \A i \in DOMAIN t : i \in DOMAIN T /\ T[i] = t[i]
       /\ \A k \in DOMAIN q : k + Len(t) \in DOMAIN T /\ T[k + Len(t)] = q[k]
  <2>1. t \in Seq(Nat) /\ q \in Seq(Nat)
    BY <1>2, <1>3
  <2> QED BY <2>1, InEither
<1> HIDE DEF L, T
<1>12. \A i \in DOMAIN L :
         \/ i \in DOMAIN l /\ L[i] = l[i] /\ T[i] = t[i]
         \/ /\ i - Len(l) \in DOMAIN p /\ L[i] = p[i - Len(l)] /\ T[i] = q[i - Len(l)]
            /\ \A k \in DOMAIN l : k < i
  <2>1. DOMAIN l = DOMAIN t /\ DOMAIN p = DOMAIN q /\ Len(l) = Len(t)
    BY <1>1, <1>2, <1>3 DEF l, t
  <2>2. ASSUME NEW i \in DOMAIN L, i - Len(l) \in DOMAIN p
        PROVE T[i] = q[i - Len(l)]
    <3>1. i \in Nat /\ (i - Len(l)) + Len(l) = i
      BY <1>10
    <3> QED BY <1>11, <2>1, <2>2, <3>1
  <2> QED BY <1>10, <1>11, <2>1, <2>2
<1>13. client' # NONE => client'.listed = L /\ client'.times = T
  BY <1>3 DEF L, T
<1>14. ASSUME NEW i \in DOMAIN L PROVE Behind(i)'
  <2>1. CASE i \in DOMAIN l /\ L[i] = l[i] /\ T[i] = t[i]
    <3> DEFINE x == strategies[l[i]].updated_at y == l[i] z == t[i] c == client.cursor
               d == NextCursor
    <3>1. /\ y \in DOMAIN strategies /\ y \in Nat /\ z \in Nat /\ x \in Nat
          /\ c # NONE /\ c \in Nat /\ d \in Nat
          /\ client.query = "id" => y <= c /\ c <= d
          /\ client.query = "updated" => c <= z /\ z <= x /\ d <= c
      BY <1>4, <1>6, <2>1
    <3>2. L[i] = y /\ T[i] = z /\ strategies[L[i]].updated_at = x
      BY <2>1
    <3> HIDE DEF x, y, z, c, d
    <3>3. /\ y \in DOMAIN strategies /\ d # NONE
          /\ client.query = "id" => y <= d
          /\ client.query = "updated" => d <= z /\ z <= x
      BY <1>8, <3>1
    <3> QED BY <1>3, <3>2, <3>3 DEF Behind, L, T, d
  <2>2. CASE /\ i - Len(l) \in DOMAIN p /\ L[i] = p[i - Len(l)] /\ T[i] = q[i - Len(l)]
    <3> DEFINE k == i - Len(l) y == p[k] z == q[k] d == NextCursor
    <3>1. /\ y \in DOMAIN strategies /\ d \in Nat /\ z = strategies[y].updated_at
          /\ z \in Nat
          /\ client.query = "id" => y <= d
          /\ client.query = "updated" => d <= z
      BY <1>3, <1>5, <2>2
    <3>2. L[i] = y /\ T[i] = z /\ strategies[L[i]].updated_at = z
      BY <2>2, <3>1
    <3> HIDE DEF k, y, z, d
    <3>3. d # NONE /\ z <= z
      BY <1>8, <3>1
    <3> QED BY <1>3, <3>1, <3>2, <3>3 DEF Behind, L, T, d
  <2> QED BY <1>12, <2>1, <2>2
<1>15. ASSUME NEW i \in DOMAIN L, NEW j \in DOMAIN L, i < j PROVE InSequence(i, j)'
  <2>1. SUFFICES IF client.query = "id" THEN L[i] < L[j]
                 ELSE L[i] # L[j] /\ T[i] >= T[j]
    BY <1>3 DEF InSequence, L, T
  <2>0. i \in Nat /\ j \in Nat
    BY <1>10
  <2>2. CASE i \in DOMAIN l /\ j \in DOMAIN l
    <3>1. L[i] = l[i] /\ L[j] = l[j] /\ T[i] = t[i] /\ T[j] = t[j]
      <4>1. DOMAIN l = DOMAIN t
        BY <1>1, <1>2 DEF l, t
      <4> QED BY <1>10, <1>11, <2>2, <4>1
    <3>2. InSequence(i, j)
      BY <1>1, <1>15, <2>2
    <3> QED BY <3>1, <3>2 DEF InSequence, l, t
  <2>3. CASE i \in DOMAIN l /\ j \notin DOMAIN l
    <3> DEFINE k == j - Len(l) a == l[i] b == p[k] c == client.cursor
               z == t[i] y == strategies[a].updated_at
    <3>1. k \in DOMAIN p /\ L[j] = b /\ T[j] = q[k]
      BY <1>12, <2>3
    <3>2. L[i] = a /\ T[i] = z
      <4>1. DOMAIN l = DOMAIN t
        BY <1>1, <1>2 DEF l, t
      <4> QED BY <1>10, <1>11, <2>3, <4>1
    <3>3. /\ c # NONE /\ c \in Nat /\ a \in Nat /\ z \in Nat /\ y \in Nat
          /\ client.query = "id" => a <= c
          /\ client.query = "updated" => c <= z /\ z <= y
      BY <1>4, <2>3
    <3>4. /\ b \in Nat /\ q[k] \in Nat /\ q[k] = strategies[b].updated_at
          /\ client.query = "id" => c < b
          /\ client.query = "updated" => q[k] < c
      BY <1>3, <1>5, <3>1, <3>3
    <3>5. client.query = "updated" => a # b
      BY <3>3, <3>4
    <3> HIDE DEF k, a, b, c, z, y
    <3> QED BY <1>2, <3>1, <3>2, <3>3, <3>4, <3>5
  <2>4. CASE i \notin DOMAIN l
    <3> DEFINE k == i - Len(l) m == j - Len(l)
    <3>1. j \notin DOMAIN l
      BY <1>12, <1>15, <2>0, <2>4
    <3>2. /\ k \in DOMAIN p /\ L[i] = p[k] /\ T[i] = q[k]
          /\ m \in DOMAIN p /\ L[j] = p[m] /\ T[j] = q[m]
      BY <1>12, <2>4, <3>1
    <3>3. k < m
      BY <1>10, <1>15, <2>0
    <3>4. /\ p[k] \in Nat /\ p[m] \in Nat /\ q[k] \in Nat /\ q[m] \in Nat
          /\ q[k] = strategies[p[k]].updated_at /\ q[m] = strategies[p[m]].updated_at
      BY <1>3, <3>2
    <3>5. IF client.query = "updated" THEN Newer(p[k], p[m]) ELSE p[k] < p[m]
      BY <1>1, <3>2, <3>3, PageIsBegun DEF p
    <3> HIDE DEF k, m
    <3> QED BY <1>2, <3>2, <3>4, <3>5 DEF Newer
  <2> QED BY <2>2, <2>3, <2>4
<1>16. ASSUME NEW a \in client.owed PROVE Accounted(a)'
  <2>1. Accounted(a)
    BY <1>1
  <2>2. a \in DOMAIN strategies /\ Matches(strategies[a], client.filter)
    BY <2>1 DEF Accounted
  <2>3. a \in Nat /\ strategies[a].updated_at \in Nat
    BY <2>2, UpdatesAreTimes
  <2>4. SUFFICES \/ \E i \in DOMAIN L : L[i] = a
                 \/ client.query = "updated" /\ strategies[a].updated_at \in NextCursors
                 \/ ~(Len(p) < LimitOf(client.limit)) /\ Ahead(a)'
    BY <1>3, <2>2 DEF Accounted, L
  <2>5. CASE \E i \in DOMAIN l : l[i] = a
    BY <1>10, <2>5
  <2>6. CASE client.query = "updated" /\ strategies[a].updated_at \in client.cursors
    BY <2>6 DEF NextCursors
  <2>7. CASE Ahead(a) /\ a \in ListedNow
    <3>1. CASE \E i \in DOMAIN p : p[i] = a
      BY <1>10, <3>1
    <3>2. CASE ~ \E i \in DOMAIN p : p[i] = a
      <4>1. /\ Len(p) = LimitOf(client.limit)
            /\ IF client.query = "updated" THEN Newer(p[Len(p)], a) ELSE p[Len(p)] < a
        BY <1>9, <2>7, <3>2
      <4>2. p # <<>> /\ Len(p) \in DOMAIN p /\ Len(p) \in Nat
        BY <1>3, <1>l, <4>1
      <4>3. NextCursor = IF client.query = "updated"
                           THEN strategies[p[Len(p)]].updated_at ELSE p[Len(p)]
        BY <4>2 DEF NextCursor, CursorAfter, Last, p
      <4>4. p[Len(p)] \in Nat /\ strategies[p[Len(p)]].updated_at \in Nat
        BY <1>3, <4>2
      <4>5. IF client.query = "id" THEN a > NextCursor
            ELSE strategies[a].updated_at <= NextCursor
        BY <1>2, <2>3, <4>1, <4>3, <4>4 DEF Newer
      <4>6. Ahead(a)'
        BY <1>3, <4>5 DEF Ahead
      <4>7. ~(Len(p) < LimitOf(client.limit))
        BY <4>1, <4>2
      <4> QED BY <4>6, <4>7
    <3> QED BY <3>1, <3>2
  <2>8. CASE Ahead(a) /\ a \notin ListedNow
    <3>1. client.query = "updated" /\ client.cursor # NONE
          /\ strategies[a].updated_at = client.cursor
      BY <1>2, <2>2, <2>3, <2>8 DEF ListedNow, Before, After, Ahead
    <3> QED BY <3>1 DEF NextCursors
  <2> QED BY <2>1, <2>5, <2>6, <2>7, <2>8 DEF Accounted, l
<1>17. /\ client' \in Clients
       /\ client'.query = "id" => client'.filter = NoFilter
       /\ Len(T) = Len(L) /\ client'.listed = L /\ client'.times = T
       /\ client'.owed = client.owed
  <2>1. Len(T) = Len(L)
    BY <1>1, <1>2, <1>3, <1>10, <1>11
  <2> QED BY <1>1, <1>3, <2>1 DEF L, T
<1>18. QED BY <1>14, <1>15, <1>16, <1>17 DEF ClientInv

\* A listing begins with nothing listed and everything ahead.
LEMMA StartKeepsPages ==
  ASSUME IInv, Start
  PROVE  ClientInv'
<1>1. UNCHANGED <<strategies, code, counter, time>>
  BY DEF Start, registryVars
<1>2. PICK query \in {"updated", "id"}, filter \in Filters \cup {NoFilter},
           limit \in Limits \cup {NONE} :
        /\ client' = Listing(query, filter, limit)
        /\ query = "id" => filter = NoFilter
  <2>1. PICK limit \in Limits \cup {NONE} :
          \/ \E filter \in Filters : client' = Listing("updated", filter, limit)
          \/ client' = Listing("id", NoFilter, limit)
    BY DEF Start, NoFilter
  <2> QED BY <2>1
<1> DEFINE owed == {a \in DOMAIN strategies : Matches(strategies[a], filter)}
<1>3. owed \in SUBSET Addresses
  BY DEF IInv, TypeOK
<1> HIDE DEF owed
<1>4. /\ client'.query = query /\ client'.filter = filter /\ client'.cursor = NONE
      /\ client'.listed = <<>> /\ client'.times = <<>>
      /\ client'.owed = owed /\ client'.done = FALSE
  BY <1>2 DEF Listing, owed
<1>5. client' \in Clients
  BY <1>2, <1>3 DEF Listing, Clients, owed
<1>6. ASSUME NEW a \in owed PROVE Accounted(a)'
  <2>1. a \in DOMAIN strategies /\ Matches(strategies[a], filter)
    BY <1>6 DEF owed
  <2> QED BY <1>1, <1>4, <2>1 DEF Accounted, Ahead
<1>7. DOMAIN client'.listed = {} /\ Len(client'.times) = Len(client'.listed)
  BY <1>4
<1>8. QED BY <1>2, <1>4, <1>5, <1>6, <1>7 DEF ClientInv

\* A record that is saved is as new as the block, and owed no longer.
LEMMA SaveKeepsPages ==
  ASSUME IInv, ClientInv, NEW a \in DOMAIN strategies, NEW record,
         record.updated_at = time, Save(a, record)
  PROVE  ClientInv'
<1>1. CASE client = NONE
  BY <1>1 DEF Save, ClientInv
<1>2. CASE client # NONE
  <2>1. client \in Clients
    BY <1>2 DEF ClientInv
  <2>2. CASE client.query = "id"
    <3>1. client' = client
      BY <2>2 DEF Save
    <3>2. \A b \in DOMAIN strategies :
            /\ b \in DOMAIN strategies'
            /\ strategies'[b].updated_at \in Nat
            /\ strategies[b].updated_at <= strategies'[b].updated_at
      <4> SUFFICES ASSUME NEW b \in DOMAIN strategies
                   PROVE  /\ b \in DOMAIN strategies'
                          /\ strategies'[b].updated_at \in Nat
                          /\ strategies[b].updated_at <= strategies'[b].updated_at
        OBVIOUS
      <4>1. strategies'[b] = IF b = a THEN record ELSE strategies[b]
        BY DEF Save
      <4>2. b \in DOMAIN strategies'
        BY DEF Save
      <4> QED BY <4>1, <4>2, UpdatesAreTimes
    <3>3. OthersStep
      BY <1>2, <2>1, <2>2, <3>1, <3>2 DEF OthersStep
    <3> QED BY <3>3, OthersKeepPages
  <2>3. CASE client.query # "id"
    <3> DEFINE owed == client.owed \ {a}
    <3>0. owed \in SUBSET Addresses
      BY <2>1 DEF Clients
    <3>1. client' = [client EXCEPT !.owed = owed]
      BY <1>2, <2>3 DEF Save
    <3>a. \A b \in owed : b # a
      OBVIOUS
    <3>o. owed \subseteq client.owed
      OBVIOUS
    <3> HIDE DEF owed
    <3>2. /\ client' \in Clients
          /\ client'.query = client.query /\ client'.filter = client.filter
          /\ client'.cursor = client.cursor /\ client'.cursors = client.cursors
          /\ client'.listed = client.listed /\ client'.times = client.times
          /\ client'.done = client.done /\ client'.owed = owed
      BY <2>1, <3>0, <3>1 DEF Clients
    <3>3. \A b \in DOMAIN strategies :
            /\ b \in DOMAIN strategies'
            /\ strategies'[b] = IF b = a THEN record ELSE strategies[b]
            /\ strategies'[b].updated_at \in Nat
            /\ strategies[b].updated_at <= strategies'[b].updated_at
      <4> SUFFICES ASSUME NEW b \in DOMAIN strategies
                   PROVE  /\ b \in DOMAIN strategies'
                          /\ strategies'[b] = IF b = a THEN record ELSE strategies[b]
                          /\ strategies'[b].updated_at \in Nat
                          /\ strategies[b].updated_at <= strategies'[b].updated_at
        OBVIOUS
      <4>1. strategies'[b] = IF b = a THEN record ELSE strategies[b]
        BY DEF Save
      <4>2. b \in DOMAIN strategies'
        BY DEF Save
      <4> QED BY <4>1, <4>2, UpdatesAreTimes
    <3>4. \A b \in owed : b \in DOMAIN strategies => strategies'[b] = strategies[b]
      BY <3>3, <3>a
    <3>5. OthersStep
      BY <1>2, <3>2, <3>3, <3>4, <3>o DEF OthersStep
    <3> QED BY <3>5, OthersKeepPages
  <2> QED BY <2>2, <2>3
<1>3. QED BY <1>1, <1>2

\* A step that leaves the records, or but adds one, leaves the client alone.
LEMMA AddingKeepsPages ==
  ASSUME IInv, ClientInv, client' = client,
         \A a \in DOMAIN strategies :
           /\ a \in DOMAIN strategies'
           /\ strategies'[a].updated_at = strategies[a].updated_at
           /\ strategies'[a].owner = strategies[a].owner
           /\ strategies'[a].status = strategies[a].status
  PROVE  ClientInv'
<1>1. CASE client = NONE
  BY <1>1 DEF ClientInv
<1>2. CASE client # NONE
  <2>1. client \in Clients
    BY <1>2 DEF ClientInv
  <2>2. \A a \in DOMAIN strategies :
          /\ strategies'[a].updated_at \in Nat
          /\ strategies[a].updated_at <= strategies'[a].updated_at
    BY UpdatesAreTimes
  <2>3. OthersStep
    BY <1>2, <2>1, <2>2 DEF OthersStep
  <2> QED BY <2>3, OthersKeepPages
<1>3. QED BY <1>1, <1>2

\* A client that lists nothing has nothing to be in order.
LEMMA PagesInit == Init => ClientInv
BY DEF Init, ClientInv

\* Each step is the client's own, adds a record, or moves one ahead.
LEMMA PagesStep == IInv /\ ClientInv /\ [Next]_vars => ClientInv'
<1> SUFFICES ASSUME IInv, ClientInv, [Next]_vars PROVE ClientInv'
  OBVIOUS
<1>1. ASSUME NEW a \in DOMAIN strategies
      PROVE  strategies[a] \in Strategy
  BY DEF IInv, TypeOK
<1>2. ASSUME strategies' = strategies, client' = client PROVE ClientInv'
  BY <1>2, AddingKeepsPages
<1>3. CASE NextBlock
  BY <1>2, <1>3 DEF NextBlock, registryVars
<1>4. ASSUME NEW new \in Codes \cup InvalidCodes, Configure(new) PROVE ClientInv'
  BY <1>2, <1>4 DEF Configure
<1>5. ASSUME NEW owner \in Owners, NEW label \in Labels \cup BadLabels,
             Instantiate(owner, label)
      PROVE  ClientInv'
  <2>1. /\ client' = client
        /\ \A a \in DOMAIN strategies :
             a \in DOMAIN strategies' /\ strategies'[a] = strategies[a]
    BY <1>5 DEF Instantiate, Free
  <2> QED BY <2>1, AddingKeepsPages
<1>6. ASSUME NEW a \in DOMAIN strategies, Execute(a) PROVE ClientInv'
  <2> DEFINE record == [strategies[a] EXCEPT !.updated_at = time]
  <2>1. record.updated_at = time
    BY <1>1 DEF Strategy
  <2>2. Save(a, record)
    BY <1>6 DEF Execute
  <2> HIDE DEF record
  <2> QED BY <2>1, <2>2, SaveKeepsPages
<1>7. ASSUME NEW sender \in Owners, NEW a \in DOMAIN strategies, Update(sender, a)
      PROVE  ClientInv'
  <2> DEFINE record == [strategies[a] EXCEPT !.updated_at = time]
  <2>1. record.updated_at = time
    BY <1>1 DEF Strategy
  <2>2. Save(a, record)
    BY <1>7 DEF Update
  <2> HIDE DEF record
  <2> QED BY <2>1, <2>2, SaveKeepsPages
<1>8. ASSUME NEW sender \in Owners, NEW a \in DOMAIN strategies,
             NEW status \in Statuses, UpdateStatus(sender, a, status)
      PROVE  ClientInv'
  <2> DEFINE touched == [strategies[a] EXCEPT !.updated_at = time]
             record == [touched EXCEPT !.status = status]
  <2>1. touched \in [id : 1 .. MaxStrategies, owner : Owners, created_at : 0 .. MaxTime,
                     updated_at : {time}, label : Labels, status : Statuses]
    BY <1>1 DEF Strategy
  <2>2. touched.updated_at = time
    BY <2>1
  <2>3. Save(a, record)
    BY <1>8 DEF UpdateStatus
  <2>4. record.updated_at = time
    <3> HIDE DEF touched
    <3> QED BY <2>1, <2>2
  <2> HIDE DEF record
  <2> QED BY <2>3, <2>4, SaveKeepsPages
<1>9. ASSUME NEW sender \in Owners, NEW a \in DOMAIN strategies,
             NEW label \in Labels \cup BadLabels, UpdateLabel(sender, a, label)
      PROVE  ClientInv'
  <2> DEFINE record == [strategies[a] EXCEPT !.label = label]
  <2>1. /\ record.updated_at = strategies[a].updated_at
        /\ record.owner = strategies[a].owner
        /\ record.status = strategies[a].status
    BY <1>1 DEF Strategy
  <2>2. strategies' = [strategies EXCEPT ![a] = record] /\ client' = client
    BY <1>9 DEF UpdateLabel
  <2> HIDE DEF record
  <2>3. \A b \in DOMAIN strategies :
          /\ b \in DOMAIN strategies'
          /\ strategies'[b] = IF b = a THEN record ELSE strategies[b]
    BY <2>2
  <2>4. \A b \in DOMAIN strategies :
          /\ b \in DOMAIN strategies'
          /\ strategies'[b].updated_at = strategies[b].updated_at
          /\ strategies'[b].owner = strategies[b].owner
          /\ strategies'[b].status = strategies[b].status
    BY <2>1, <2>3
  <2> QED BY <2>2, <2>4, AddingKeepsPages
<1>10. CASE Start
  BY <1>10, StartKeepsPages
<1>11. CASE Page
  BY <1>11, PageKeepsPages DEF Page
<1>12. CASE UNCHANGED vars
  BY <1>2, <1>12 DEF vars
<1> QED BY <1>3, <1>4, <1>5, <1>6, <1>7, <1>8, <1>9, <1>10, <1>11, <1>12 DEF Next

\* The invariant of the manager and the client.
LEMMA PagesHold == Spec => [](IInv /\ ClientInv)
BY InvInit, InvStep, PagesInit, PagesStep, PTL DEF Spec

\* A client that reads page after page sees the updates in descending order and no
\* strategy twice, and by id the addresses in ascending order, whatever is created,
\* updated or renamed between two pages, for every limit and filter.
THEOREM PagesAreOrdered == Spec => []OrderedAcrossPages
<1>1. ClientInv => OrderedAcrossPages
  BY DEF ClientInv, OrderedAcrossPages, InSequence
<1> QED BY <1>1, PagesHold, PTL

\* What a complete listing lacks, of the strategies that nobody updated while it was
\* read, is only those last updated in a second that a page ended in.
THEOREM OnlyTiesAreMissed == Spec => []PagesMissOnlyTies
<1>1. ClientInv => PagesMissOnlyTies
  BY DEF ClientInv, PagesMissOnlyTies, Accounted
<1> QED BY <1>1, PagesHold, PTL

=============================================================================
