-------------------------- MODULE DistributionProofs --------------------------
(***************************************************************************)
(* Whoever is named as a destination or an affiliate, and whatever the     *)
(* shares and the points: a distribution gives out the whole balance, each *)
(* its share to within the roundings, a withdrawal takes what is asked for *)
(* and no more fees than quoted, and somebody is always left to give to.   *)
(* First what this needs and the library does not have: induction, and the *)
(* sums of functions over finite sets.                                     *)
(***************************************************************************)
EXTENDS Distribution, FiniteSetTheorems, WellFoundedInduction, TLAPS

-----------------------------------------------------------------------------
(* Induction *)

\* A set of numbers has a least one.
LEMMA LeastNumber ==
  ASSUME NEW T \in SUBSET Nat, T # {}
  PROVE  \E n \in T : \A m \in T : n <= m
<1> DEFINE R == {ss \in Nat \X Nat : ss[1] < ss[2]}
<1>1. IsWellFoundedOn(R, Nat)
  BY NatLessThanWellFounded DEF OpToRel
<1>2. PICK n \in T : \A m \in T : ~ (<<m, n>> \in R)
  <2> HIDE DEF R
  <2> QED BY <1>1, WFMin
<1>3. \A m \in T : ~(m < n)
  BY <1>2
<1>4. QED BY <1>3

\* Induction: a set that holds 0, and the successor of each of its numbers, holds all.
\* That it is a set, and not a predicate, is what lets the provers use it.
LEMMA EveryNumber ==
  ASSUME NEW Q, 0 \in Q, \A n \in Nat : n \in Q => n + 1 \in Q
  PROVE  Nat \subseteq Q
<1>1. SUFFICES ASSUME Nat \ Q # {} PROVE FALSE
  OBVIOUS
<1>2. PICK n \in Nat \ Q : \A m \in Nat \ Q : n <= m
  BY <1>1, LeastNumber
<1>3. n # 0 /\ n - 1 \in Nat
  BY <1>2
<1>4. n - 1 \in Q
  BY <1>2, <1>3
<1>5. QED BY <1>2, <1>3, <1>4

\* A set of sets that holds the empty one, and with a set that set and one element more,
\* holds every finite set.
LEMMA EveryFiniteSet ==
  ASSUME NEW S, IsFiniteSet(S), NEW Q, {} \in Q,
         \A T \in SUBSET S : \A x \in S \ T : T \in Q => T \cup {x} \in Q
  PROVE  S \in Q
<1> DEFINE N == {n \in Nat : \A T \in SUBSET S : Cardinality(T) = n => T \in Q}
<1>1. 0 \in N
  BY FS_EmptySet, FS_Subset
<1>2. ASSUME NEW n \in Nat, n \in N PROVE n + 1 \in N
  <2> SUFFICES ASSUME NEW T \in SUBSET S, Cardinality(T) = n + 1 PROVE T \in Q
    OBVIOUS
  <2>1. IsFiniteSet(T) /\ T # {}
    BY FS_Subset, FS_EmptySet
  <2>2. PICK x \in T : TRUE
    BY <2>1
  <2>3. Cardinality(T \ {x}) = Cardinality(T) - 1
    BY <2>1, <2>2, FS_RemoveElement, Zenon
  <2>4. T \ {x} \in Q
    BY <1>2, <2>3
  <2>5. (T \ {x}) \cup {x} \in Q
    BY <2>2, <2>4
  <2>6. QED BY <2>2, <2>5, (T \ {x}) \cup {x} = T
<1>3. Nat \subseteq N
  <2> HIDE DEF N
  <2> QED BY <1>1, <1>2, EveryNumber
<1>4. Cardinality(S) \in N
  <2> HIDE DEF N
  <2> QED BY <1>3, FS_CardinalityType
<1>5. QED BY <1>4

-----------------------------------------------------------------------------
(* Sums *)

Choice(s) == CHOOSE x \in s : TRUE

Step(f, g, s) ==
  IF s = {} THEN 0 ELSE f[Choice(s)] + g[s \ {Choice(s)}]

Partial(f, S) == CHOOSE g : g = [s \in SUBSET S |-> Step(f, g, s)]

\* The fold over a set is a function on its subsets.
LEMMA SumIsPartial ==
  ASSUME NEW f, NEW S
  PROVE  SumFunctionOnSet(f, S) = Partial(f, S)[S]
BY DEF SumFunctionOnSet, FoldFunctionOnSet, MapThenFoldSet, Partial, Step, Choice

\* The element taken next is one of the set.
LEMMA ChoiceIsMember ==
  ASSUME NEW s, s # {}
  PROVE  Choice(s) \in s
BY DEF Choice

\* Without one of its elements a finite set is smaller by one.
LEMMA CardinalityLess ==
  ASSUME NEW s, IsFiniteSet(s), NEW x \in s
  PROVE  /\ IsFiniteSet(s \ {x})
         /\ Cardinality(s) \in Nat \ {0}
         /\ Cardinality(s \ {x}) = Cardinality(s) - 1
         /\ Cardinality(s \ {x}) \in Nat
<1>1. IsFiniteSet(s \ {x}) /\ Cardinality(s \ {x}) = Cardinality(s) - 1
  BY FS_RemoveElement, Zenon
<1>2. Cardinality(s) \in Nat /\ Cardinality(s \ {x}) \in Nat
  BY <1>1, FS_CardinalityType, Zenon
<1>3. Cardinality(s) # 0
  BY FS_EmptySet, Zenon
<1>4. QED BY <1>1, <1>2, <1>3

\* A sum rests on the sums of smaller sets alone.
LEMMA StepUsesLess ==
  ASSUME NEW S, IsFiniteSet(S), NEW f, NEW g, NEW h, NEW s \in SUBSET S,
         \A t \in SUBSET S : Cardinality(t) < Cardinality(s) => g[t] = h[t]
  PROVE  Step(f, g, s) = Step(f, h, s)
<1>1. CASE s = {}
  BY <1>1 DEF Step
<1>2. CASE s # {}
  <2>1. Choice(s) \in s /\ IsFiniteSet(s)
    BY <1>2, ChoiceIsMember, FS_Subset, Zenon
  <2>2. Cardinality(s \ {Choice(s)}) < Cardinality(s)
    BY <2>1, CardinalityLess
  <2>3. g[s \ {Choice(s)}] = h[s \ {Choice(s)}]
    BY <2>2, s \ {Choice(s)} \in SUBSET S
  <2>4. QED BY <2>3 DEF Step
<1>3. QED BY <1>1, <1>2

\* The function that the fold chooses exists.
LEMMA PartialSums ==
  ASSUME NEW S, IsFiniteSet(S), NEW f
  PROVE  \A s \in SUBSET S : Partial(f, S)[s] = Step(f, Partial(f, S), s)
<1> DEFINE Good(g, n) == \A s \in SUBSET S : Cardinality(s) < n => g[s] = Step(f, g, s)
           Q == {n \in Nat : \E g : Good(g, n)}
<1>1. 0 \in Q
  <2>1. \A s \in SUBSET S : Cardinality(s) \in Nat
    BY FS_Subset, FS_CardinalityType, Zenon
  <2>2. Good({}, 0)
    BY <2>1
  <2>3. QED BY <2>2
<1>2. ASSUME NEW n \in Nat, n \in Q PROVE n + 1 \in Q
  <2>1. PICK g : Good(g, n)
    BY <1>2
  <2> DEFINE h == [s \in SUBSET S |-> IF Cardinality(s) < n THEN g[s] ELSE Step(f, g, s)]
  <2>2. ASSUME NEW s \in SUBSET S, Cardinality(s) < n + 1 PROVE h[s] = Step(f, h, s)
    <3>1. \A t \in SUBSET S : Cardinality(t) \in Nat
      BY FS_Subset, FS_CardinalityType, Zenon
    <3>2. \A t \in SUBSET S : Cardinality(t) < Cardinality(s) => g[t] = h[t]
      BY <2>2, <3>1
    <3>3. Step(f, g, s) = Step(f, h, s)
      <4> HIDE DEF h
      <4> QED BY <3>2, StepUsesLess
    <3>4. h[s] = Step(f, g, s)
      BY <2>1
    <3>5. QED BY <3>3, <3>4
  <2>3. Good(h, n + 1)
    <3> HIDE DEF h
    <3> QED BY <2>2
  <2>4. QED
    <3> HIDE DEF Good
    <3> QED BY <2>3
<1>3. PICK g : Good(g, Cardinality(S) + 1)
  <2>1. Nat \subseteq Q
    <3> HIDE DEF Q
    <3> QED BY <1>1, <1>2, EveryNumber
  <2>2. Cardinality(S) + 1 \in Nat
    BY FS_CardinalityType
  <2>3. QED BY <2>1, <2>2
<1> DEFINE h == [s \in SUBSET S |-> g[s]]
<1>4. ASSUME NEW s \in SUBSET S PROVE h[s] = Step(f, h, s)
  <2>1. \A t \in SUBSET S : Cardinality(t) \in Nat /\ Cardinality(t) <= Cardinality(S)
    BY FS_Subset, FS_CardinalityType, Zenon
  <2>2. Cardinality(s) < Cardinality(S) + 1
    BY <2>1, S \in SUBSET S
  <2>3. g[s] = Step(f, g, s)
    BY <1>3, <2>2
  <2>4. \A t \in SUBSET S : g[t] = h[t]
    OBVIOUS
  <2>5. Step(f, g, s) = Step(f, h, s)
    <3> HIDE DEF h
    <3> QED BY <2>4, StepUsesLess
  <2>6. QED BY <2>3, <2>4, <2>5
<1>5. h = [s \in SUBSET S |-> Step(f, h, s)]
  <2>1. h = [s \in SUBSET S |-> h[s]]
    OBVIOUS
  <2> HIDE DEF h
  <2> QED BY <1>4, <2>1
<1> DEFINE p == Partial(f, S)
<1>6. p = [s \in SUBSET S |-> Step(f, p, s)]
  <2> HIDE DEF h
  <2> QED BY <1>5 DEF Partial
<1>7. QED
  <2> HIDE DEF p
  <2>1. \A s \in SUBSET S : p[s] = Step(f, p, s)
    BY <1>6
  <2>2. QED BY <2>1 DEF p

\* The sum of a set is the same, whichever set the fold began with.
LEMMA PartialAgree ==
  ASSUME NEW S, IsFiniteSet(S), NEW f,
         NEW U \in SUBSET S, NEW T \in SUBSET U
  PROVE  Partial(f, U)[T] = Partial(f, S)[T]
<1> DEFINE Same(t) == Partial(f, U)[t] = Partial(f, S)[t]
           Q == {n \in Nat : \A t \in SUBSET U : Cardinality(t) < n => Same(t)}
<1>1. \A t \in SUBSET U : IsFiniteSet(t) /\ Cardinality(t) \in Nat
  BY FS_Subset, FS_CardinalityType, Zenon
<1>2. 0 \in Q
  BY <1>1
<1>3. ASSUME NEW n \in Nat, n \in Q PROVE n + 1 \in Q
  <2> SUFFICES ASSUME NEW t \in SUBSET U, Cardinality(t) < n + 1 PROVE Same(t)
    OBVIOUS
  <2>1. IsFiniteSet(U)
    BY FS_Subset, Zenon
  <2>2. Partial(f, U)[t] = Step(f, Partial(f, U), t)
    BY <2>1, PartialSums
  <2>3. Partial(f, S)[t] = Step(f, Partial(f, S), t)
    BY PartialSums
  <2>4. \A s \in SUBSET U : Cardinality(s) < Cardinality(t) => Partial(f, U)[s] = Partial(f, S)[s]
    BY <1>1, <1>3
  <2>5. Step(f, Partial(f, U), t) = Step(f, Partial(f, S), t)
    BY <2>1, <2>4, StepUsesLess
  <2>6. QED BY <2>2, <2>3, <2>5
<1>4. Nat \subseteq Q
  <2> HIDE DEF Q
  <2> QED BY <1>2, <1>3, EveryNumber
<1>5. Cardinality(T) + 1 \in Q
  BY <1>1, <1>4
<1>6. Cardinality(T) < Cardinality(T) + 1
  BY <1>1
<1>7. QED BY <1>5, <1>6

\* There is nothing in the sum of nothing.
LEMMA SumOfNone ==
  ASSUME NEW f
  PROVE  SumFunctionOnSet(f, {}) = 0
<1>1. Partial(f, {})[{}] = Step(f, Partial(f, {}), {})
  BY PartialSums, FS_EmptySet
<1>2. QED BY <1>1, SumIsPartial DEF Step

\* A sum is the term of the element taken first and the sum of the rest.
LEMMA SumOfChoice ==
  ASSUME NEW S, IsFiniteSet(S), S # {}, NEW f
  PROVE  SumFunctionOnSet(f, S)
           = f[Choice(S)] + SumFunctionOnSet(f, S \ {Choice(S)})
<1>1. Partial(f, S)[S] = Step(f, Partial(f, S), S)
  BY PartialSums
<1> DEFINE R == S \ {Choice(S)}
<1>2. Partial(f, S)[R] = Partial(f, R)[R]
  BY PartialAgree
<1>3. QED BY <1>1, <1>2, SumIsPartial DEF Step

\* A sum is the term of any one of its members and the sum of the others.
LEMMA SumWithout ==
  ASSUME NEW S, IsFiniteSet(S), NEW f, \A x \in S : f[x] \in Int
  PROVE  /\ SumFunctionOnSet(f, S) \in Int
         /\ \A x \in S : SumFunctionOnSet(f, S) = f[x] + SumFunctionOnSet(f, S \ {x})
<1> DEFINE Sum(T) == SumFunctionOnSet(f, T)
           Good(T) == Sum(T) \in Int /\ \A x \in T : Sum(T) = f[x] + Sum(T \ {x})
           Q == {n \in Nat : \A T \in SUBSET S : Cardinality(T) < n => Good(T)}
<1>1. \A T \in SUBSET S : IsFiniteSet(T) /\ Cardinality(T) \in Nat
  BY FS_Subset, FS_CardinalityType, Zenon
<1>2. 0 \in Q
  <2> HIDE DEF Good
  <2> QED BY <1>1
<1>3. ASSUME NEW n \in Nat, n \in Q PROVE n + 1 \in Q
  <2> SUFFICES ASSUME NEW T \in SUBSET S, Cardinality(T) < n + 1 PROVE Good(T)
    OBVIOUS
  <2>1. CASE T = {}
    BY <2>1, SumOfNone
  <2>2. CASE T # {}
    <3> DEFINE c == Choice(T)
    <3>1. c \in T
      BY <2>2, ChoiceIsMember, Zenon
    <3>2. Sum(T) = f[c] + Sum(T \ {c})
      BY <1>1, <2>2, SumOfChoice, Zenon
    <3> HIDE DEF c
    <3>3. \A U \in SUBSET T : \A x \in U : Good(U \ {x})
      <4> SUFFICES ASSUME NEW U \in SUBSET T, NEW x \in U PROVE Good(U \ {x})
        OBVIOUS
      <4>1. Cardinality(U) \in Nat /\ Cardinality(U \ {x}) = Cardinality(U) - 1
        BY <1>1, CardinalityLess
      <4>2. Cardinality(U) <= Cardinality(T)
        BY <1>1, FS_Subset
      <4>3. Cardinality(U \ {x}) < n
        BY <1>1, <4>1, <4>2
      <4> HIDE DEF Good
      <4> QED BY <1>3, <4>3
    <3>4. f[c] \in Int /\ Sum(T \ {c}) \in Int /\ Sum(T) \in Int
      <4>1. f[c] \in Int /\ Sum(T \ {c}) \in Int
        BY <3>1, <3>3
      <4> HIDE DEF Sum
      <4> QED BY <3>2, <4>1
    <3>5. ASSUME NEW x \in T, x # c PROVE Sum(T) = f[x] + Sum(T \ {x})
      <4> DEFINE U == (T \ {c}) \ {x}
      <4>1. Sum(T \ {c}) = f[x] + Sum(U)
        <5>1. Good(T \ {c})
          <6> HIDE DEF Good
          <6> QED BY <3>1, <3>3, T \in SUBSET T
        <5>2. x \in T \ {c}
          BY <3>5
        <5> QED BY <5>1, <5>2
      <4>2. Sum(T \ {x}) = f[c] + Sum(U)
        <5>1. Good(T \ {x})
          <6> HIDE DEF Good
          <6> QED BY <3>3, T \in SUBSET T
        <5>3. c \in T \ {x}
          BY <3>1, <3>5
        <5>2. (T \ {x}) \ {c} = U
          OBVIOUS
        <5> HIDE DEF U
        <5> QED BY <5>1, <5>2, <5>3
      <4>3. Sum(U) \in Int
        <5>1. Good(U)
          BY <3>1, <3>3, <3>5, T \ {c} \in SUBSET T, x \in T \ {c}
        <5> QED BY <5>1
      <4> HIDE DEF U, Sum
      <4> QED BY <3>2, <3>4, <4>1, <4>2, <4>3
    <3> HIDE DEF Sum
    <3> QED BY <3>2, <3>4, <3>5
  <2>3. QED BY <2>1, <2>2
<1>4. Nat \subseteq Q
  <2> HIDE DEF Q
  <2> QED BY <1>2, <1>3, EveryNumber
<1>5. Good(S)
  <2>1. Cardinality(S) + 1 \in Q /\ Cardinality(S) < Cardinality(S) + 1
    BY <1>1, <1>4
  <2> HIDE DEF Good
  <2> QED BY <2>1
<1>6. QED BY <1>5

IntTerms(f, S) == \A y \in S : f[y] \in Int

\* One more element is one more term.
LEMMA SumWith ==
  ASSUME NEW S, IsFiniteSet(S), NEW f, IntTerms(f, S),
         NEW T \in SUBSET S, NEW x \in S \ T
  PROVE  /\ SumFunctionOnSet(f, T) \in Int
         /\ SumFunctionOnSet(f, T \cup {x}) = f[x] + SumFunctionOnSet(f, T)
<1>1. IsFiniteSet(T) /\ IsFiniteSet(T \cup {x})
  BY FS_Subset, Zenon
<1>2. (T \cup {x}) \ {x} = T
  OBVIOUS
<1>3. \A y \in T \cup {x} : f[y] \in Int
  BY DEF IntTerms
<1>4. SumFunctionOnSet(f, T) \in Int
  BY <1>1, <1>3, SumWithout
<1>5. SumFunctionOnSet(f, T \cup {x})
        = f[x] + SumFunctionOnSet(f, (T \cup {x}) \ {x})
  BY <1>1, <1>3, SumWithout
<1>6. QED BY <1>2, <1>4, <1>5

\* The same of all subsets at once.
LEMMA SumGrows ==
  ASSUME NEW S, IsFiniteSet(S), NEW f, IntTerms(f, S)
  PROVE  \A T \in SUBSET S :
           /\ SumFunctionOnSet(f, T) \in Int
           /\ \A x \in S \ T :
                SumFunctionOnSet(f, T \cup {x}) = f[x] + SumFunctionOnSet(f, T)
<1>1. ASSUME NEW T \in SUBSET S PROVE SumFunctionOnSet(f, T) \in Int
  <2>1. IsFiniteSet(T) /\ \A x \in T : f[x] \in Int
    BY FS_Subset, Zenon DEF IntTerms
  <2>2. QED BY <2>1, SumWithout
<1>2. QED BY <1>1, SumWith

\* Terms compared one by one compare the sums, each in units of its own.
LEMMA SumAtMost ==
  ASSUME NEW S, IsFiniteSet(S), NEW a \in Nat, NEW b \in Nat, NEW f, NEW g,
         IntTerms(f, S), IntTerms(g, S), \A x \in S : f[x] * a <= g[x] * b
  PROVE  SumFunctionOnSet(f, S) * a <= SumFunctionOnSet(g, S) * b
<1>a. \A T \in SUBSET S :
        /\ SumFunctionOnSet(f, T) \in Int
        /\ \A x \in S \ T :
             SumFunctionOnSet(f, T \cup {x}) = f[x] + SumFunctionOnSet(f, T)
  BY SumGrows, Zenon
<1>b. \A T \in SUBSET S :
        /\ SumFunctionOnSet(g, T) \in Int
        /\ \A x \in S \ T :
             SumFunctionOnSet(g, T \cup {x}) = g[x] + SumFunctionOnSet(g, T)
  BY SumGrows, Zenon
<1> DEFINE Sum(h, T) == SumFunctionOnSet(h, T)
           Q == {T \in SUBSET S : Sum(f, T) * a <= Sum(g, T) * b}
<1>1. {} \in Q
  BY SumOfNone
<1>2. ASSUME NEW T \in SUBSET S, NEW x \in S \ T, T \in Q PROVE T \cup {x} \in Q
  <2>1. Sum(f, T) \in Int /\ Sum(f, T \cup {x}) = f[x] + Sum(f, T)
    BY <1>a
  <2>2. Sum(g, T) \in Int /\ Sum(g, T \cup {x}) = g[x] + Sum(g, T)
    BY <1>b
  <2>3. f[x] \in Int /\ g[x] \in Int /\ f[x] * a <= g[x] * b
    BY DEF IntTerms
  <2>4. Sum(f, T) * a <= Sum(g, T) * b
    BY <1>2
  <2> DEFINE p == Sum(f, T) q == Sum(g, T) u == f[x] v == g[x]
  <2>5. (u + p) * a <= (v + q) * b
    <3>1. p \in Int /\ q \in Int /\ u \in Int /\ v \in Int /\ u * a <= v * b /\ p * a <= q * b
      BY <2>1, <2>2, <2>3, <2>4
    <3> HIDE DEF p, q, u, v
    <3>2. (u + p) * a = u * a + p * a /\ (v + q) * b = v * b + q * b
      BY <3>1, Z3
    <3>3. u * a \in Int /\ p * a \in Int /\ v * b \in Int /\ q * b \in Int
      BY <3>1
    <3> QED BY <3>1, <3>2, <3>3
  <2>6. QED BY <2>1, <2>2, <2>5
<1>3. S \in Q
  <2> HIDE DEF Q
  <2> QED BY <1>1, <1>2, EveryFiniteSet
<1>4. QED BY <1>3

\* Numbers add up to a number.
LEMMA SumIsNat ==
  ASSUME NEW S, IsFiniteSet(S), NEW f, \A x \in S : f[x] \in Nat
  PROVE  SumFunctionOnSet(f, S) \in Nat
<1> DEFINE Q == {T \in SUBSET S : SumFunctionOnSet(f, T) \in Nat}
<1>1. {} \in Q
  BY SumOfNone
<1>2. ASSUME NEW T \in SUBSET S, NEW x \in S \ T, T \in Q PROVE T \cup {x} \in Q
  <2>1. SumFunctionOnSet(f, T \cup {x}) = f[x] + SumFunctionOnSet(f, T)
    BY SumWith DEF IntTerms
  <2>2. SumFunctionOnSet(f, T) \in Nat /\ f[x] \in Nat
    BY <1>2
  <2>3. QED BY <2>1, <2>2
<1>3. S \in Q
  <2> HIDE DEF Q
  <2> QED BY <1>1, <1>2, EveryFiniteSet
<1>4. QED BY <1>3

\* Terms may be taken from another set, one for one.
LEMMA SumReindexed ==
  ASSUME NEW S, IsFiniteSet(S), NEW f, NEW g, NEW h,
         \A x \in S : f[x] \in Int /\ f[x] = g[h[x]],
         \A x, y \in S : h[x] = h[y] => x = y
  PROVE  SumFunctionOnSet(f, S) = SumFunctionOnSet(g, {h[x] : x \in S})
<1> DEFINE Img(T) == {h[x] : x \in T}
           Q == {T \in SUBSET S : /\ SumFunctionOnSet(f, T) = SumFunctionOnSet(g, Img(T))
                                  /\ IsFiniteSet(Img(T))}
<1>1. {} \in Q
  <2>1. Img({}) = {}
    OBVIOUS
  <2> HIDE DEF Img
  <2> QED BY <2>1, SumOfNone, FS_EmptySet
<1>2. ASSUME NEW T \in SUBSET S, NEW x \in S \ T, T \in Q PROVE T \cup {x} \in Q
  <2>1. SumFunctionOnSet(f, T \cup {x}) = f[x] + SumFunctionOnSet(f, T)
    BY SumWith DEF IntTerms
  <2>2. Img(T \cup {x}) = Img(T) \cup {h[x]}
    OBVIOUS
  <2>3. Img(T) \in SUBSET Img(T \cup {x}) /\ h[x] \in Img(T \cup {x}) \ Img(T)
    OBVIOUS
  <2>4. \A y \in Img(T \cup {x}) : g[y] \in Int
    OBVIOUS
  <2> HIDE DEF Img
  <2> DEFINE A == Img(T \cup {x}) B == Img(T) z == h[x]
  <2>5. IsFiniteSet(B) /\ SumFunctionOnSet(f, T) = SumFunctionOnSet(g, B)
    BY <1>2
  <2>6. IsFiniteSet(A)
    <3>1. IsFiniteSet(B \cup {z})
      <4> HIDE DEF B, z
      <4> QED BY <2>5, FS_AddElement
    <3> QED BY <2>2, <3>1
  <2>7. SumFunctionOnSet(g, B \cup {z}) = g[z] + SumFunctionOnSet(g, B)
    <3>1. B \in SUBSET A /\ z \in A \ B /\ \A y \in A : g[y] \in Int
      BY <2>3, <2>4
    <3> HIDE DEF A, B, z
    <3> QED BY <3>1, <2>6, SumWith DEF IntTerms
  <2>8. g[z] = f[x]
    OBVIOUS
  <2>9. SumFunctionOnSet(f, T \cup {x}) = SumFunctionOnSet(g, Img(T \cup {x}))
    BY <2>1, <2>2, <2>5, <2>7, <2>8
  <2>10. QED BY <2>6, <2>9
<1>3. S \in Q
  <2> HIDE DEF Q
  <2> QED BY <1>1, <1>2, EveryFiniteSet
<1>4. QED BY <1>3

AddUp(S, f, g, h) == \A x \in S : h[x] = f[x] + g[x]

\* The sum of two terms each is the two sums.
LEMMA SumOfSums ==
  ASSUME NEW S, IsFiniteSet(S), NEW f, NEW g, NEW h,
         IntTerms(f, S), IntTerms(g, S),
         AddUp(S, f, g, h)
  PROVE  SumFunctionOnSet(h, S) = SumFunctionOnSet(f, S) + SumFunctionOnSet(g, S)
<1> DEFINE Sum(k, T) == SumFunctionOnSet(k, T)
           Q == {T \in SUBSET S : Sum(h, T) = Sum(f, T) + Sum(g, T)}
<1>1. {} \in Q
  BY SumOfNone
<1>2. ASSUME NEW T \in SUBSET S, NEW x \in S \ T, T \in Q PROVE T \cup {x} \in Q
  <2>1. Sum(f, T) \in Int /\ Sum(f, T \cup {x}) = f[x] + Sum(f, T)
    BY SumWith
  <2>2. Sum(g, T) \in Int /\ Sum(g, T \cup {x}) = g[x] + Sum(g, T)
    BY SumWith
  <2>3. Sum(h, T \cup {x}) = h[x] + Sum(h, T)
    <3>1. IntTerms(h, S)
      BY DEF AddUp, IntTerms
    <3> QED BY <3>1, SumWith
  <2> HIDE DEF Sum
  <2>4. f[x] \in Int /\ g[x] \in Int /\ h[x] = f[x] + g[x]
    BY DEF AddUp, IntTerms
  <2>5. Sum(h, T) = Sum(f, T) + Sum(g, T)
    BY <1>2
  <2>6. Sum(h, T \cup {x}) = Sum(f, T \cup {x}) + Sum(g, T \cup {x})
    BY <2>1, <2>2, <2>3, <2>4, <2>5
  <2>7. QED BY <2>6
<1>3. S \in Q
  <2> HIDE DEF Q
  <2> QED BY <1>1, <1>2, EveryFiniteSet
<1>4. QED BY <1>3

\* Terms that are nothing may be left out.
LEMMA SumOfTheRest ==
  ASSUME NEW S, IsFiniteSet(S), NEW f, IntTerms(f, S),
         NEW R \in SUBSET S, \A x \in S \ R : f[x] = 0
  PROVE  SumFunctionOnSet(f, S) = SumFunctionOnSet(f, R)
<1>a. \A T \in SUBSET S :
        /\ SumFunctionOnSet(f, T) \in Int
        /\ \A x \in S \ T :
             SumFunctionOnSet(f, T \cup {x}) = f[x] + SumFunctionOnSet(f, T)
  BY SumGrows, Zenon
<1> DEFINE Sum(T) == SumFunctionOnSet(f, T)
           Q == {T \in SUBSET S : Sum(T) = Sum(T \cap R)}
<1>1. {} \in Q
  BY {} \cap R = {}
<1>2. ASSUME NEW T \in SUBSET S, NEW x \in S \ T, T \in Q PROVE T \cup {x} \in Q
  <2>1. Sum(T) \in Int /\ Sum(T \cup {x}) = f[x] + Sum(T)
    BY SumWith
  <2>2. Sum(T) = Sum(T \cap R)
    BY <1>2
  <2>3. CASE x \in R
    <3>1. T \cap R \in SUBSET S /\ x \in S \ (T \cap R)
      BY <2>3
    <3>2. Sum((T \cap R) \cup {x}) = f[x] + Sum(T \cap R)
      BY <1>a, <3>1
    <3>3. (T \cup {x}) \cap R = (T \cap R) \cup {x}
      BY <2>3
    <3> QED BY <2>1, <2>2, <3>2, <3>3
  <2>4. CASE x \notin R
    <3>1. (T \cup {x}) \cap R = T \cap R
      BY <2>4
    <3>2. f[x] = 0
      BY <2>4
    <3>3. Sum(T \cup {x}) = Sum((T \cup {x}) \cap R)
      <4>1. Sum((T \cup {x}) \cap R) = Sum(T \cap R)
        BY <3>1
      <4> HIDE DEF Sum
      <4>2. Sum(T \cup {x}) = Sum(T)
        BY <2>1, <3>2
      <4> QED BY <2>2, <4>1, <4>2
    <3> QED BY <3>3
  <2>5. QED BY <2>3, <2>4
<1>3. S \in Q
  <2> HIDE DEF Q
  <2> QED BY <1>1, <1>2, EveryFiniteSet
<1>4. QED
  BY <1>3, S \cap R = R

\* A sum of equal terms is as many times the term.
LEMMA SumOfSame ==
  ASSUME NEW S, IsFiniteSet(S), NEW c \in Int, NEW f, \A x \in S : f[x] = c
  PROVE  SumFunctionOnSet(f, S) = Cardinality(S) * c
<1> DEFINE Sum(T) == SumFunctionOnSet(f, T)
           Q == {T \in SUBSET S : Sum(T) = Cardinality(T) * c}
<1>1. {} \in Q
  BY SumOfNone, FS_EmptySet
<1>2. ASSUME NEW T \in SUBSET S, NEW x \in S \ T, T \in Q PROVE T \cup {x} \in Q
  <2>1. Sum(T \cup {x}) = f[x] + Sum(T)
    BY SumWith DEF IntTerms
  <2>2. Cardinality(T) \in Nat /\ Cardinality(T \cup {x}) = Cardinality(T) + 1
    <3>1. IsFiniteSet(T)
      BY FS_Subset
    <3> QED BY <3>1, FS_AddElement, FS_CardinalityType
  <2>3. Sum(T) = Cardinality(T) * c /\ f[x] = c
    BY <1>2
  <2> DEFINE n == Cardinality(T)
  <2>4. c + n * c = (n + 1) * c
    <3>1. n \in Int
      BY <2>2
    <3> HIDE DEF n
    <3> QED BY <3>1, Z3
  <2>5. Sum(T \cup {x}) = Cardinality(T \cup {x}) * c
    BY <2>1, <2>2, <2>3, <2>4
  <2>6. QED BY <2>5
<1>3. S \in Q
  <2> HIDE DEF Q
  <2> QED BY <1>1, <1>2, EveryFiniteSet
<1>4. QED BY <1>3

\* A sum depends on its terms and on nothing else.
LEMMA SumOfEquals ==
  ASSUME NEW S, IsFiniteSet(S), NEW f, NEW g, IntTerms(f, S), \A x \in S : f[x] = g[x]
  PROVE  SumFunctionOnSet(f, S) = SumFunctionOnSet(g, S)
<1> DEFINE h == [x \in S |-> x]
<1>1. \A x \in S : f[x] \in Int /\ f[x] = g[h[x]]
  BY DEF IntTerms
<1>2. \A x, y \in S : h[x] = h[y] => x = y
  OBVIOUS
<1>3. {h[x] : x \in S} = S
  OBVIOUS
<1> HIDE DEF h
<1>4. QED BY <1>1, <1>2, <1>3, SumReindexed

\* The first term of a list and the sum of the others, which count from one again.
LEMMA SumAfterFirst ==
  ASSUME NEW n \in Nat, n > 0, NEW f, NEW g,
         \A k \in 1 .. n : f[k] \in Int,
         \A k \in 1 .. n - 1 : g[k] = f[k + 1]
  PROVE  SumFunctionOnSet(f, 1 .. n) = f[1] + SumFunctionOnSet(g, 1 .. n - 1)
<1> DEFINE A == 1 .. n
           B == 1 .. n - 1
           h == [k \in B |-> k + 1]
<1>1. IsFiniteSet(A) /\ IsFiniteSet(B)
  <2>1. n - 1 \in Int /\ n \in Int /\ 1 \in Int
    OBVIOUS
  <2> QED BY <2>1, FS_Interval, Zenon
<1>2. SumFunctionOnSet(f, A) = f[1] + SumFunctionOnSet(f, A \ {1})
  <2>1. 1 \in A /\ \A k \in A : f[k] \in Int
    OBVIOUS
  <2> HIDE DEF A
  <2> QED BY <1>1, <2>1, SumWithout
<1>3. SumFunctionOnSet(g, B) = SumFunctionOnSet(f, {h[k] : k \in B})
  <2>1. \A k \in B : k + 1 \in A
    OBVIOUS
  <2>2. \A k \in B : h[k] = k + 1
    OBVIOUS
  <2>3. \A k \in B : g[k] \in Int /\ g[k] = f[h[k]]
    BY <2>1, <2>2
  <2>4. \A k, l \in B : h[k] = h[l] => k = l
    BY <2>2
  <2>5. IsFiniteSet(B)
    BY <1>1
  <2> HIDE DEF A, B, h
  <2> DEFINE Q == {h[k] : k \in B}
  <2>6. SumFunctionOnSet(g, B) = SumFunctionOnSet(f, Q)
    BY <2>3, <2>4, <2>5, SumReindexed, SMTT(60)
  <2> QED BY <2>6
<1>4. {h[k] : k \in B} = A \ {1}
  <2>1. \A k \in B : h[k] \in A \ {1}
    OBVIOUS
  <2>2. \A i \in A \ {1} : i - 1 \in B /\ h[i - 1] = i
    OBVIOUS
  <2> HIDE DEF A, B, h
  <2> QED BY <2>1, <2>2
<1>5. QED BY <1>2, <1>3, <1>4

-----------------------------------------------------------------------------
(* Division *)

\* Division with remainder.
LEMMA Quotient ==
  ASSUME NEW a \in Nat, NEW c \in Nat, c > 0
  PROVE  /\ a \div c \in Nat
         /\ (a \div c) * c <= a
         /\ a < (a \div c + 1) * c
<1>1. a \div c \in Int /\ a % c \in 0 .. c - 1 /\ a = c * (a \div c) + (a % c)
  BY Z3
<1> DEFINE q == a \div c r == a % c
<1> HIDE DEF q, r
<1>2. q \in Int /\ r \in Int /\ 0 <= r /\ r < c /\ a = c * q + r
  BY <1>1 DEF q, r
<1>3. q >= 0
  BY <1>2, Z3
<1>4. q * c <= a /\ a < (q + 1) * c
  BY <1>2, Z3
<1>5. QED BY <1>2, <1>3, <1>4 DEF q

\* Division rounded up is less than one off.
LEMMA QuotientUp ==
  ASSUME NEW a \in Nat, NEW c \in Nat, c > 0
  PROVE  /\ DivCeil(a, c) \in Nat
         /\ a <= DivCeil(a, c) * c
         /\ DivCeil(a, c) * c < a + c
         /\ a > 0 => DivCeil(a, c) > 0
<1> DEFINE m == a + c - 1 q == m \div c
<1>1. m \in Nat
  OBVIOUS
<1>2. q \in Nat /\ q * c <= m /\ m < (q + 1) * c
  <2> HIDE DEF m
  <2> QED BY <1>1, Quotient
<1>3. q \in Nat /\ q * c <= a + c - 1 /\ a + c - 1 < (q + 1) * c
  BY <1>2
<1>4. q = DivCeil(a, c)
  BY DEF DivCeil
<1> HIDE DEF q, m
<1>5. (q + 1) * c = q * c + c /\ q * c \in Nat
  BY <1>3, Z3
<1>6. a <= q * c /\ q * c < a + c
  BY <1>3, <1>5
<1>7. a > 0 => q > 0
  <2> SUFFICES ASSUME a > 0, q = 0 PROVE FALSE
    BY <1>3
  <2>1. q * c = 0
    OBVIOUS
  <2>2. QED BY <1>6, <2>1
<1>8. QED BY <1>3, <1>4, <1>6, <1>7

\* A common factor cancels.
LEMMA LessByFactor ==
  ASSUME NEW a \in Int, NEW b \in Int, NEW c \in Nat, c > 0
  PROVE  /\ a * c <= b * c => a <= b
         /\ a * c < b * c => a < b
BY Z3

-----------------------------------------------------------------------------
(* The shares *)

\* The shares of a balance of b, of all but the last of n that have s.
SharesOfAll(f, s, n, b) ==
  \A j \in 1 .. n - 1 :
    f[j] = (b * ((s[j] * UNIT) \div SumFunctionOnSet(s, 1 .. n))) \div UNIT

\* However shares are cut down, what all but the last are given is no more than the
\* balance, and less if the last has a share of its own.
LEMMA RestIsLess ==
  ASSUME NEW n \in Nat, n > 0, NEW s, \A i \in 1 .. n : s[i] \in Nat,
         SumFunctionOnSet(s, 1 .. n) > 0,
         NEW b \in Nat, NEW f, SharesOfAll(f, s, n, b)
  PROVE  /\ SumFunctionOnSet(s, 1 .. n) \in Nat
         /\ \A j \in 1 .. n - 1 : f[j] \in Nat
         /\ SumFunctionOnSet(f, 1 .. n - 1) \in Nat
         /\ SumFunctionOnSet(f, 1 .. n - 1) <= b
         /\ b > 0 /\ s[n] > 0 => SumFunctionOnSet(f, 1 .. n - 1) < b
<1> DEFINE R == 1 .. n - 1
           T == SumFunctionOnSet(s, 1 .. n)
           S == SumFunctionOnSet(s, R)
           r == [j \in R |-> (s[j] * UNIT) \div T]
<1>1. IsFiniteSet(1 .. n) /\ IsFiniteSet(R) /\ (1 .. n) \ {n} = R /\ R \subseteq 1 .. n
  <2>1. IsFiniteSet(1 .. n) /\ IsFiniteSet(R)
    <3>1. n - 1 \in Int /\ n \in Int /\ 1 \in Int
      OBVIOUS
    <3> QED BY <3>1, FS_Interval, Zenon
  <2>2. (1 .. n) \ {n} = R /\ R \subseteq 1 .. n
    OBVIOUS
  <2> QED BY <2>1, <2>2
<1>2. T = s[n] + S /\ S \in Nat
  <2>1. \A i \in 1 .. n : s[i] \in Int
    OBVIOUS
  <2>2. n \in 1 .. n
    OBVIOUS
  <2>3. T = s[n] + SumFunctionOnSet(s, (1 .. n) \ {n})
    BY <1>1, <2>1, <2>2, SumWithout
  <2>4. \A i \in R : s[i] \in Nat
    OBVIOUS
  <2>5. S \in Nat
    <3> HIDE DEF R
    <3> QED BY <1>1, <2>4, SumIsNat
  <2>6. QED BY <1>1, <2>3, <2>5
<1>3. T \in Nat /\ T > 0 /\ S <= T /\ (s[n] > 0 => S < T)
  <2>1. s[n] \in Nat /\ T > 0
    OBVIOUS
  <2> HIDE DEF T, S
  <2> QED BY <1>2, <2>1
<1>4. UNIT \in Nat /\ UNIT > 0
  BY DistributionAssumption
<1>5. \A j \in R : r[j] \in Nat /\ r[j] * T <= s[j] * UNIT
  <2> SUFFICES ASSUME NEW j \in R PROVE r[j] \in Nat /\ r[j] * T <= s[j] * UNIT
    OBVIOUS
  <2>1. s[j] \in Nat
    OBVIOUS
  <2>2. s[j] * UNIT \in Nat
    BY <1>4, <2>1
  <2>3. r[j] = (s[j] * UNIT) \div T
    OBVIOUS
  <2> DEFINE a == s[j] * UNIT
  <2>4. a \div T \in Nat /\ (a \div T) * T <= a
    <3> HIDE DEF a, T
    <3> QED BY <1>3, <2>2, Quotient DEF a
  <2> HIDE DEF r, T
  <2> QED BY <2>3, <2>4
<1>6. \A j \in R : f[j] \in Nat /\ f[j] * UNIT <= r[j] * b
  <2> SUFFICES ASSUME NEW j \in R PROVE f[j] \in Nat /\ f[j] * UNIT <= r[j] * b
    OBVIOUS
  <2>1. f[j] = (b * r[j]) \div UNIT
    BY DEF SharesOfAll
  <2>2. r[j] \in Nat
    BY <1>5
  <2> DEFINE q == r[j]
  <2> HIDE DEF q, r
  <2>3. q \in Nat /\ b * q \in Nat /\ b * q = q * b
    BY <2>2 DEF q
  <2>4. (b * q) \div UNIT \in Nat /\ ((b * q) \div UNIT) * UNIT <= b * q
    BY <1>4, <2>3, Quotient
  <2> QED BY <2>1, <2>3, <2>4 DEF q
<1> DEFINE F == SumFunctionOnSet(f, R)
           P == SumFunctionOnSet(r, R)
<1>7. F \in Nat /\ P \in Nat
  <2> HIDE DEF R, r
  <2> QED BY <1>1, <1>5, <1>6, SumIsNat
<1>8. P * T <= S * UNIT
  <2>1. IntTerms(r, R) /\ IntTerms(s, R)
    <3>1. \A j \in R : s[j] \in Int
      OBVIOUS
    <3> HIDE DEF R, r
    <3> QED BY <1>5, <3>1 DEF IntTerms
  <2>2. \A j \in R : r[j] * T <= s[j] * UNIT
    BY <1>5
  <2> HIDE DEF R, r, T
  <2> QED BY <1>1, <1>3, <1>4, <2>1, <2>2, SumAtMost
<1>9. F * UNIT <= P * b
  <2>1. IntTerms(r, R) /\ IntTerms(f, R)
    <3> HIDE DEF R, r
    <3> QED BY <1>5, <1>6 DEF IntTerms
  <2>2. \A j \in R : f[j] * UNIT <= r[j] * b
    BY <1>6
  <2> HIDE DEF R, r
  <2> QED BY <1>1, <1>4, <2>1, <2>2, SumAtMost
<1> HIDE DEF F, P, S, T, r
<1>10. P <= UNIT
  <2>1. S * UNIT <= UNIT * T
    BY <1>2, <1>3, <1>4, Z3
  <2>2. P * T <= UNIT * T
    BY <1>2, <1>3, <1>4, <1>7, <1>8, <2>1
  <2>3. QED BY <1>3, <1>4, <1>7, <2>2, LessByFactor
<1>14. ASSUME s[n] > 0 PROVE P < UNIT
  <2>1. S < T
    BY <1>3, <1>14
  <2>2. S * UNIT < UNIT * T
    BY <1>2, <1>3, <1>4, <2>1, Z3
  <2>3. P * T < UNIT * T
    BY <1>2, <1>3, <1>4, <1>7, <1>8, <2>2
  <2>4. QED BY <1>3, <1>4, <1>7, <2>3, LessByFactor
<1>11. F <= b
  <2>1. P * b <= UNIT * b /\ UNIT * b = b * UNIT
    BY <1>4, <1>7, <1>10, Z3
  <2>2. F * UNIT <= b * UNIT
    BY <1>4, <1>7, <1>9, <2>1
  <2>3. QED BY <1>4, <1>7, <2>2, LessByFactor
<1>12. ASSUME b > 0, s[n] > 0 PROVE F < b
  <2>0. P < UNIT
    BY <1>12, <1>14
  <2>1. P * b < UNIT * b /\ UNIT * b = b * UNIT
    BY <1>4, <1>7, <1>12, <2>0, Z3
  <2>2. F * UNIT < b * UNIT
    BY <1>4, <1>7, <1>9, <2>1
  <2>3. QED BY <1>4, <1>7, <2>2, LessByFactor
<1>13. QED BY <1>3, <1>6, <1>7, <1>11, <1>12 DEF F, T

-----------------------------------------------------------------------------
(* The indices of a set in their order *)

KeptStep(K, u, i) ==
  IF i = 0 THEN <<>>
  ELSE IF i \in K THEN Append(u[i - 1], i) ELSE u[i - 1]

KeptUpTo(K, n) == CHOOSE u : u = [i \in 0 .. n |-> KeptStep(K, u, i)]

\* The function by which the paid destinations are collected exists.
LEMMA KeptUpToEach ==
  ASSUME NEW n \in Nat, NEW K
  PROVE  \A i \in 0 .. n : KeptUpTo(K, n)[i] = KeptStep(K, KeptUpTo(K, n), i)
<1> DEFINE Good(u, m) == \A i \in 0 .. n : i < m => u[i] = KeptStep(K, u, i)
           Q == {m \in Nat : \E u : Good(u, m)}
<1>1. 0 \in Q
  OBVIOUS
<1>2. ASSUME NEW m \in Nat, m \in Q PROVE m + 1 \in Q
  <2>1. PICK u : Good(u, m)
    BY <1>2
  <2> DEFINE v == [i \in 0 .. n |-> IF i < m THEN u[i] ELSE KeptStep(K, u, i)]
  <2>2. ASSUME NEW i \in 0 .. n, i < m + 1 PROVE v[i] = KeptStep(K, v, i)
    <3>1. v[i] = KeptStep(K, u, i)
      BY <2>1
    <3>2. i # 0 => i - 1 \in 0 .. n /\ i - 1 < m
      BY <2>2
    <3>3. i # 0 => v[i - 1] = u[i - 1]
      BY <3>2
    <3>4. QED BY <3>1, <3>3 DEF KeptStep
  <2>3. Good(v, m + 1)
    <3> HIDE DEF v
    <3> QED BY <2>2
  <2>4. QED
    <3> HIDE DEF Good
    <3> QED BY <2>3
<1>3. PICK u : Good(u, n + 1)
  <2>1. Nat \subseteq Q
    <3> HIDE DEF Q
    <3> QED BY <1>1, <1>2, EveryNumber
  <2>2. n + 1 \in Nat
    OBVIOUS
  <2>3. QED BY <2>1, <2>2
<1> DEFINE v == [i \in 0 .. n |-> u[i]]
<1>4. ASSUME NEW i \in 0 .. n PROVE v[i] = KeptStep(K, v, i)
  <2>1. u[i] = KeptStep(K, u, i)
    BY <1>3
  <2>2. i # 0 => v[i - 1] = u[i - 1]
    OBVIOUS
  <2>3. QED BY <2>1, <2>2 DEF KeptStep
<1>5. v = [i \in 0 .. n |-> KeptStep(K, v, i)]
  <2>1. v = [i \in 0 .. n |-> v[i]]
    OBVIOUS
  <2> HIDE DEF v
  <2> QED BY <1>4, <2>1
<1> DEFINE p == KeptUpTo(K, n)
<1>6. p = [i \in 0 .. n |-> KeptStep(K, p, i)]
  <2> HIDE DEF v
  <2> QED BY <1>5 DEF KeptUpTo
<1>7. QED
  <2> HIDE DEF p
  <2>1. \A i \in 0 .. n : p[i] = KeptStep(K, p, i)
    BY <1>6
  <2>2. QED BY <2>1 DEF p

\* p lists the members of K.
ListsAll(p, K) ==
  /\ p \in Seq(Nat)
  /\ \A k \in DOMAIN p : p[k] \in K
  /\ \A i \in K : \E k \in DOMAIN p : p[k] = i
  /\ \A k, l \in DOMAIN p : p[k] = p[l] => k = l

\* It lists the members of a set once each, and the highest last.
LEMMA KeptAreListed ==
  ASSUME NEW n \in Nat, NEW K \in SUBSET (1 .. n)
  PROVE  /\ ListsAll(KeptUpTo(K, n)[n], K)
         /\ n \in K => /\ Len(KeptUpTo(K, n)[n]) > 0
                       /\ KeptUpTo(K, n)[n][Len(KeptUpTo(K, n)[n])] = n
<1> DEFINE u == KeptUpTo(K, n)
           Upto(m) == {i \in K : i <= m}
           Q == {m \in Nat : m <= n => ListsAll(u[m], Upto(m))}
<1>1. \A i \in 0 .. n : u[i] = KeptStep(K, u, i)
  BY KeptUpToEach
<1> HIDE DEF u
<1>k. \A i \in K : i \in Nat /\ 1 <= i /\ i <= n
  OBVIOUS
<1>2. 0 \in Q
  <2>1. u[0] = <<>>
    BY <1>1 DEF KeptStep
  <2>2. Upto(0) = {}
    <3>1. \A i \in K : ~(i <= 0)
      BY <1>k
    <3> QED BY <3>1
  <2>3. ListsAll(<<>>, {})
    BY DEF ListsAll
  <2>4. QED BY <2>1, <2>2, <2>3
<1>3. ASSUME NEW m \in Nat, m \in Q PROVE m + 1 \in Q
  <2> SUFFICES ASSUME m + 1 <= n PROVE ListsAll(u[m + 1], Upto(m + 1))
    OBVIOUS
  <2>1. ListsAll(u[m], Upto(m))
    BY <1>3
  <2>2. u[m + 1] = IF m + 1 \in K THEN Append(u[m], m + 1) ELSE u[m]
    BY <1>1 DEF KeptStep
  <2>3. CASE m + 1 \in K
    <3> DEFINE p == u[m] q == Append(p, m + 1)
    <3>1. p \in Seq(Nat) /\ q = u[m + 1]
      BY <2>1, <2>2, <2>3 DEF ListsAll
    <3>2. /\ q \in Seq(Nat) /\ DOMAIN p = 1 .. Len(p) /\ DOMAIN q = 1 .. Len(p) + 1
          /\ q[Len(p) + 1] = m + 1 /\ \A k \in 1 .. Len(p) : q[k] = p[k]
          /\ Len(p) \in Nat
      BY <3>1
    <3>3. Upto(m + 1) = Upto(m) \cup {m + 1} /\ m + 1 \notin Upto(m)
      <4>1. \A i \in K : i <= m + 1 <=> i <= m \/ i = m + 1
        BY <1>k
      <4>2. ~(m + 1 <= m)
        OBVIOUS
      <4> QED BY <2>3, <4>1, <4>2
    <3>4. /\ \A k \in DOMAIN p : p[k] \in Upto(m)
          /\ \A i \in Upto(m) : \E k \in DOMAIN p : p[k] = i
          /\ \A k, l \in DOMAIN p : p[k] = p[l] => k = l
      BY <2>1 DEF ListsAll
    <3> HIDE DEF p, q, Upto
    <3>5. \A k \in DOMAIN q : q[k] \in Upto(m + 1)
      BY <3>2, <3>3, <3>4
    <3>6. \A i \in Upto(m + 1) : \E k \in DOMAIN q : q[k] = i
      <4> SUFFICES ASSUME NEW i \in Upto(m + 1) PROVE \E k \in DOMAIN q : q[k] = i
        OBVIOUS
      <4>1. CASE i = m + 1
        BY <3>2, <4>1
      <4>2. CASE i \in Upto(m)
        <5>1. PICK k \in DOMAIN p : p[k] = i
          BY <3>4, <4>2
        <5> QED BY <3>2, <5>1
      <4> QED BY <3>3, <4>1, <4>2
    <3>7. \A k, l \in DOMAIN q : q[k] = q[l] => k = l
      <4> SUFFICES ASSUME NEW k \in DOMAIN q, NEW l \in DOMAIN q, q[k] = q[l] PROVE k = l
        OBVIOUS
      <4>1. CASE k \in DOMAIN p /\ l \in DOMAIN p
        BY <3>2, <3>4, <4>1
      <4>2. CASE k = Len(p) + 1 /\ l \in DOMAIN p
        BY <3>2, <3>3, <3>4, <4>2
      <4>3. CASE k \in DOMAIN p /\ l = Len(p) + 1
        BY <3>2, <3>3, <3>4, <4>3
      <4> QED BY <3>2, <4>1, <4>2, <4>3
    <3> QED BY <3>1, <3>2, <3>5, <3>6, <3>7 DEF ListsAll
  <2>4. CASE m + 1 \notin K
    <3>1. Upto(m + 1) = Upto(m)
      <4>1. \A i \in K : i <= m + 1 <=> i <= m
        BY <1>k, <2>4
      <4> QED BY <4>1
    <3> QED BY <2>1, <2>2, <2>4, <3>1
  <2>5. QED BY <2>3, <2>4
<1>4. ListsAll(u[n], K)
  <2>1. Nat \subseteq Q
    <3> HIDE DEF Q
    <3> QED BY <1>2, <1>3, EveryNumber
  <2>2. Upto(n) = K
    BY <1>k
  <2>3. QED BY <2>1, <2>2
<1>5. ASSUME n \in K PROVE Len(u[n]) > 0 /\ u[n][Len(u[n])] = n
  <2>1. n - 1 \in Nat /\ n - 1 \in Q
    <3>1. Nat \subseteq Q
      <4> HIDE DEF Q
      <4> QED BY <1>2, <1>3, EveryNumber
    <3>2. n - 1 \in Nat
      BY <1>k, <1>5
    <3> HIDE DEF Q
    <3> QED BY <3>1, <3>2
  <2>2. u[n - 1] \in Seq(Nat)
    BY <2>1 DEF ListsAll
  <2>3. u[n] = Append(u[n - 1], n)
    <3>1. n \in 0 .. n /\ n # 0
      BY <1>k, <1>5
    <3>2. u[n] = KeptStep(K, u, n)
      BY <1>1, <3>1
    <3> QED BY <1>5, <3>1, <3>2 DEF KeptStep
  <2>4. QED BY <2>2, <2>3
<1>6. QED BY <1>4, <1>5 DEF u

-----------------------------------------------------------------------------
(* What a distribution gives *)

Stored ==
  /\ destinations \in Seq(Destinations)
  /\ destinations # <<>>
  /\ balance \in Coins

\* Somebody has a share, so that a distribution does not fail.
Ready == Stored /\ SharesOf(destinations) > 0

SharesListed == [i \in DOMAIN destinations |-> destinations[i].shares]

\* The shares of the stored destinations, and their total, as numbers.
LEMMA StoredShares ==
  ASSUME Stored
  PROVE  /\ Len(destinations) \in Nat /\ Len(destinations) > 0
         /\ DOMAIN destinations = 1 .. Len(destinations)
         /\ DOMAIN SharesListed = 1 .. Len(destinations)
         /\ \A i \in 1 .. Len(destinations) :
              /\ destinations[i] \in Destinations
              /\ SharesListed[i] = destinations[i].shares
              /\ SharesListed[i] \in Nat
         /\ SharesOf(destinations) = SumFunctionOnSet(SharesListed, 1 .. Len(destinations))
<1>1. Len(destinations) \in Nat /\ Len(destinations) > 0 /\ DOMAIN destinations = 1 .. Len(destinations)
  BY DEF Stored
<1>2. \A i \in 1 .. Len(destinations) : destinations[i] \in Destinations
  BY DEF Stored
<1>3. \A i \in 1 .. Len(destinations) :
        SharesListed[i] = destinations[i].shares /\ SharesListed[i] \in Nat
  BY <1>1, <1>2 DEF SharesListed, Destinations
<1>6. DOMAIN SharesListed = 1 .. Len(destinations)
  BY <1>1 DEF SharesListed
<1>7. SharesOf(destinations) = SumFunctionOnSet(SharesListed, DOMAIN SharesListed)
  BY DEF SharesOf, SharesListed, SumFunction
<1>8. QED BY <1>1, <1>2, <1>3, <1>6, <1>7

LEMMA ReadyShares ==
  ASSUME Ready
  PROVE  /\ Len(destinations) \in Nat /\ Len(destinations) > 0
         /\ DOMAIN destinations = 1 .. Len(destinations)
         /\ DOMAIN SharesListed = 1 .. Len(destinations)
         /\ \A i \in 1 .. Len(destinations) :
              /\ destinations[i] \in Destinations
              /\ SharesListed[i] = destinations[i].shares
              /\ SharesListed[i] \in Nat
         /\ SharesOf(destinations) = SumFunctionOnSet(SharesListed, 1 .. Len(destinations))
         /\ SharesOf(destinations) > 0
BY StoredShares DEF Ready

Parts(d) == [j \in 1 .. Len(destinations) - 1 |-> Share(j, d)]

AllAmounts(d) == [i \in 1 .. Len(destinations) |-> Amount(i, d)]

\* The amounts of a distribution are numbers and come to the balance; the last
\* destination, if it has a share, is given something wherever there is something.
LEMMA AmountsFit ==
  ASSUME Ready, NEW d \in Denoms
  PROVE  /\ SharesOf(destinations) \in Nat /\ SharesOf(destinations) > 0
         /\ balance[d] \in Nat
         /\ \A i \in 1 .. Len(destinations) : Amount(i, d) \in Nat
         /\ \A i \in 1 .. Len(destinations) - 1 : Amount(i, d) = Share(i, d)
         /\ Amount(Len(destinations), d)
              = balance[d] - SumFunctionOnSet(Parts(d), 1 .. Len(destinations) - 1)
         /\ balance[d] > 0 /\ destinations[Len(destinations)].shares > 0
              => Amount(Len(destinations), d) > 0
         /\ SumFunctionOnSet(AllAmounts(d), 1 .. Len(destinations)) = balance[d]
<1> DEFINE n == Len(destinations)
           b == balance[d]
           R == 1 .. n - 1
           F == SumFunctionOnSet(Parts(d), R)
<1>1. n \in Nat /\ n > 0 /\ b \in Nat
  BY ReadyShares DEF Ready, Stored, Coins
<1>2. SharesOfAll(Parts(d), SharesListed, n, b)
  <2> SUFFICES ASSUME NEW j \in 1 .. n - 1
               PROVE Parts(d)[j] = (b * ((SharesListed[j] * UNIT)
                        \div SumFunctionOnSet(SharesListed, 1 .. n))) \div UNIT
    BY DEF SharesOfAll
  <2>1. j \in 1 .. n
    BY <1>1
  <2>2. SharesListed[j] = destinations[j].shares
    BY <2>1, ReadyShares
  <2>3. SharesOf(destinations) = SumFunctionOnSet(SharesListed, 1 .. n)
    BY ReadyShares
  <2>4. Parts(d)[j] = Share(j, d)
    BY DEF Parts
  <2>5. Share(j, d) = (b * ((SharesListed[j] * UNIT)
                        \div SumFunctionOnSet(SharesListed, 1 .. n))) \div UNIT
    BY <2>2, <2>3 DEF Share
  <2>6. QED BY <2>4, <2>5
<1>3. /\ SumFunctionOnSet(SharesListed, 1 .. n) \in Nat
      /\ SumFunctionOnSet(SharesListed, 1 .. n) > 0
      /\ \A j \in R : Parts(d)[j] \in Nat
      /\ F \in Nat
      /\ F <= b
      /\ b > 0 /\ SharesListed[n] > 0 => F < b
  <2>1. /\ \A i \in 1 .. n : SharesListed[i] \in Nat
        /\ SumFunctionOnSet(SharesListed, 1 .. n) > 0
    BY ReadyShares
  <2> HIDE DEF n, b
  <2> QED BY <1>1, <1>2, <2>1, RestIsLess
<1>4. \A i \in R : Amount(i, d) = Share(i, d) /\ Share(i, d) \in Nat /\ i # n
  <2> SUFFICES ASSUME NEW i \in R
               PROVE Amount(i, d) = Share(i, d) /\ Share(i, d) \in Nat /\ i # n
    OBVIOUS
  <2>1. i # n
    BY <1>1
  <2>2. Parts(d)[i] = Share(i, d) /\ Parts(d)[i] \in Nat
    BY <1>3 DEF Parts
  <2>3. QED BY <2>1, <2>2 DEF Amount
<1>5. Amount(n, d) = b - F
  <2>1. SumFunction([j \in 1 .. n - 1 |-> Share(j, d)]) = F
    BY DEF SumFunction, Parts
  <2>2. QED BY <2>1 DEF Amount
<1>6. /\ Amount(n, d) \in Nat
      /\ b > 0 /\ destinations[n].shares > 0 => Amount(n, d) > 0
  <2>1. n \in 1 .. n
    BY <1>1
  <2>2. SharesListed[n] = destinations[n].shares
    BY <2>1, ReadyShares
  <2> HIDE DEF b, F
  <2> QED BY <1>1, <1>3, <1>5, <2>2
<1>7. \A i \in 1 .. n : i \in R \/ i = n
  BY <1>1
<1>8. \A i \in 1 .. n : Amount(i, d) \in Nat
  <2> HIDE DEF n, R
  <2> QED BY <1>4, <1>6, <1>7
<1>9. SumFunctionOnSet(AllAmounts(d), 1 .. n) = b
  <2>1. \A i \in 1 .. n : AllAmounts(d)[i] = Amount(i, d)
    BY DEF AllAmounts
  <2>2. IsFiniteSet(1 .. n) /\ IsFiniteSet(R)
    <3>1. n - 1 \in Int /\ n \in Int /\ 1 \in Int
      BY <1>1
    <3> QED BY <3>1, FS_Interval, Zenon
  <2>3. n \in 1 .. n /\ (1 .. n) \ {n} = R /\ R \subseteq 1 .. n
    BY <1>1
  <2>4. \A i \in 1 .. n : AllAmounts(d)[i] \in Int
    BY <1>8, <2>1
  <2>5. SumFunctionOnSet(AllAmounts(d), 1 .. n)
          = AllAmounts(d)[n] + SumFunctionOnSet(AllAmounts(d), R)
    <3> HIDE DEF n, R
    <3>1. SumFunctionOnSet(AllAmounts(d), 1 .. n)
            = AllAmounts(d)[n] + SumFunctionOnSet(AllAmounts(d), (1 .. n) \ {n})
      BY <2>2, <2>3, <2>4, SumWithout
    <3> QED BY <2>3, <3>1
  <2>6. SumFunctionOnSet(AllAmounts(d), R) = F
    <3>1. \A i \in R : AllAmounts(d)[i] = Parts(d)[i]
      BY <1>4, <2>1, <2>3 DEF Parts
    <3>2. IntTerms(AllAmounts(d), R)
      BY <2>3, <2>4 DEF IntTerms
    <3> HIDE DEF R
    <3> QED BY <2>2, <3>1, <3>2, SumOfEquals
  <2>7. AllAmounts(d)[n] = b - F
    BY <1>5, <2>1, <2>3
  <2> HIDE DEF b, F
  <2> QED BY <1>1, <1>3, <2>5, <2>6, <2>7
<1>10. SharesOf(destinations) \in Nat /\ SharesOf(destinations) > 0
  BY <1>3, ReadyShares
<1>11. QED BY <1>1, <1>4, <1>5, <1>6, <1>8, <1>9, <1>10

PaidSet == {i \in DOMAIN destinations : Given(i) # NoCoins}

\* The destinations that are paid are listed once each.
LEMMA PaidInOrder ==
  ASSUME Ready
  PROVE  ListsAll(PaidOnes, PaidSet)
<1> DEFINE n == Len(destinations)
<1>1. PaidOnes = KeptUpTo(PaidSet, n)[n]
  BY DEF PaidOnes, KeptUpTo, KeptStep, PaidSet
<1>2. n \in Nat /\ PaidSet \in SUBSET (1 .. n)
  BY ReadyShares DEF PaidSet
<1>3. QED
  <2> HIDE DEF n
  <2> QED BY <1>1, <1>2, KeptAreListed

\* The last destination is given something if it has a share, and is kept if it is
\* given something.
LEMMA LastIsPaid ==
  ASSUME Ready, balance # NoCoins,
         \/ destinations[Len(destinations)].shares > 0
         \/ \E d \in Denoms : Amount(Len(destinations), d) > 0
  PROVE  /\ Len(PaidOnes) > 0
         /\ PaidOnes[Len(PaidOnes)] = Len(destinations)
<1> DEFINE n == Len(destinations)
<1>1. PaidOnes = KeptUpTo(PaidSet, n)[n]
  BY DEF PaidOnes, KeptUpTo, KeptStep, PaidSet
<1>2. n \in Nat /\ PaidSet \in SUBSET (1 .. n)
  BY ReadyShares DEF PaidSet
<1>3. PICK d \in Denoms : Amount(n, d) > 0
  <2>1. PICK d \in Denoms : balance[d] > 0
    BY DEF Ready, Stored, Coins, NoCoins
  <2> QED BY <2>1, AmountsFit
<1>4. Given(n)[d] # 0
  BY <1>3 DEF Given
<1>5. Given(n) # NoCoins
  BY <1>4 DEF NoCoins
<1>6. n \in PaidSet
  BY <1>5, ReadyShares DEF PaidSet
<1>7. QED
  <2> HIDE DEF n
  <2> QED BY <1>1, <1>2, <1>6, KeptAreListed DEF n

-----------------------------------------------------------------------------
(* The transfers under way *)

Transfer == [to : Recipients, coins : Coins]

Pending(ms) == SumOfCoins([k \in DOMAIN ms |-> ms[k].coins])

CoinsListed(ms, d) == [k \in DOMAIN ms |-> ms[k].coins[d]]

\* What the pending transfers come to, coin by coin.
LEMMA PendingEach ==
  ASSUME NEW ms \in Seq(Transfer), NEW d \in Denoms
  PROVE  /\ IsFiniteSet(DOMAIN ms)
         /\ \A k \in DOMAIN ms :
              CoinsListed(ms, d)[k] = ms[k].coins[d] /\ CoinsListed(ms, d)[k] \in Nat
         /\ Pending(ms)[d] = SumFunctionOnSet(CoinsListed(ms, d), DOMAIN ms)
         /\ Pending(ms)[d] \in Nat
<1>1. IsFiniteSet(DOMAIN ms)
  <2>1. DOMAIN ms = 1 .. Len(ms) /\ Len(ms) \in Int /\ 1 \in Int
    OBVIOUS
  <2>2. QED BY <2>1, FS_Interval, Zenon
<1>2. \A k \in DOMAIN ms :
        CoinsListed(ms, d)[k] = ms[k].coins[d] /\ CoinsListed(ms, d)[k] \in Nat
  <2> SUFFICES ASSUME NEW k \in DOMAIN ms
               PROVE CoinsListed(ms, d)[k] = ms[k].coins[d] /\ ms[k].coins[d] \in Nat
    OBVIOUS
  <2>1. ms[k] \in Transfer
    OBVIOUS
  <2>2. QED BY <2>1 DEF CoinsListed, Transfer, Coins
<1>3. Pending(ms)[d] = SumFunctionOnSet(CoinsListed(ms, d), DOMAIN ms)
  <2> DEFINE c == [k \in DOMAIN ms |-> ms[k].coins]
  <2>1. Pending(ms)[d] = SumFunction([k \in DOMAIN c |-> c[k][d]])
    BY DEF Pending, SumOfCoins
  <2>2. [k \in DOMAIN c |-> c[k][d]] = CoinsListed(ms, d)
    BY DEF CoinsListed
  <2>3. DOMAIN CoinsListed(ms, d) = DOMAIN ms
    BY DEF CoinsListed
  <2>4. SumFunction(CoinsListed(ms, d)) = SumFunctionOnSet(CoinsListed(ms, d), DOMAIN CoinsListed(ms, d))
    BY DEF SumFunction
  <2>5. QED BY <2>1, <2>2, <2>3, <2>4
<1>4. SumFunctionOnSet(CoinsListed(ms, d), DOMAIN ms) \in Nat
  BY <1>1, <1>2, SumIsNat
<1>5. QED BY <1>1, <1>2, <1>3, <1>4

\* The first transfer and the others are all transfers.
LEMMA PendingAfterOne ==
  ASSUME NEW ms \in Seq(Transfer), ms # <<>>, NEW d \in Denoms
  PROVE  /\ Tail(ms) \in Seq(Transfer)
         /\ Head(ms).coins[d] \in Nat
         /\ Pending(ms)[d] = Head(ms).coins[d] + Pending(Tail(ms))[d]
<1> DEFINE n == Len(ms)
           t == Tail(ms)
           f == CoinsListed(ms, d)
           g == CoinsListed(t, d)
<1>1. /\ n \in Nat /\ n > 0 /\ DOMAIN ms = 1 .. n
      /\ t \in Seq(Transfer) /\ DOMAIN t = 1 .. n - 1
      /\ \A k \in 1 .. n - 1 : t[k] = ms[k + 1] /\ k + 1 \in 1 .. n
      /\ Head(ms) = ms[1] /\ 1 \in 1 .. n
  OBVIOUS
<1>2. /\ \A k \in 1 .. n : f[k] = ms[k].coins[d] /\ f[k] \in Nat
      /\ Pending(ms)[d] = SumFunctionOnSet(f, 1 .. n)
  BY <1>1, PendingEach
<1>3. /\ \A k \in 1 .. n - 1 : g[k] = t[k].coins[d] /\ g[k] \in Nat
      /\ Pending(t)[d] = SumFunctionOnSet(g, 1 .. n - 1)
      /\ Pending(t)[d] \in Nat
  BY <1>1, PendingEach
<1>4. /\ \A k \in 1 .. n : f[k] \in Int
      /\ \A k \in 1 .. n - 1 : g[k] = f[k + 1]
  <2>1. \A k \in 1 .. n : f[k] \in Int
    BY <1>2
  <2>2. ASSUME NEW k \in 1 .. n - 1 PROVE g[k] = f[k + 1]
    <3>1. t[k] = ms[k + 1] /\ k + 1 \in 1 .. n
      BY <1>1
    <3>2. f[k + 1] = ms[k + 1].coins[d]
      BY <1>2, <3>1
    <3>3. g[k] = t[k].coins[d]
      BY <1>3
    <3>4. QED BY <3>1, <3>2, <3>3
  <2>3. QED BY <2>1, <2>2
<1>5. SumFunctionOnSet(f, 1 .. n) = f[1] + SumFunctionOnSet(g, 1 .. n - 1)
  <2> HIDE DEF f, g, n
  <2> QED BY <1>1, <1>4, SumAfterFirst
<1>6. f[1] = Head(ms).coins[d] /\ f[1] \in Nat
  BY <1>1, <1>2
<1>7. QED
  <2> HIDE DEF f, g, n
  <2> QED BY <1>1, <1>2, <1>3, <1>5, <1>6

-----------------------------------------------------------------------------
(* The shares of a distribution are all there is *)

Payments == [k \in DOMAIN PaidOnes |-> [to    |-> destinations[PaidOnes[k]].to,
                                        coins |-> Given(PaidOnes[k])]]

\* Whatever a destination is given is coins.
LEMMA GivenAreCoins ==
  ASSUME Ready, NEW i \in 1 .. Len(destinations)
  PROVE  Given(i) \in Coins
BY AmountsFit DEF Given, Coins

\* A distribution sends transfers, and keeps destinations.
LEMMA PaymentsAreTransfers ==
  ASSUME Ready
  PROVE  /\ Payments \in Seq(Transfer)
         /\ DOMAIN Payments = DOMAIN PaidOnes
         /\ Len(Payments) = Len(PaidOnes)
         /\ [k \in DOMAIN PaidOnes |-> destinations[PaidOnes[k]]] \in Seq(Destinations)
         /\ Len([k \in DOMAIN PaidOnes |-> destinations[PaidOnes[k]]]) = Len(PaidOnes)
<1> DEFINE p == PaidOnes
<1>1. p \in Seq(Nat) /\ \A k \in DOMAIN p : p[k] \in 1 .. Len(destinations)
  BY PaidInOrder, ReadyShares DEF ListsAll, PaidSet
<1>2. DOMAIN p = 1 .. Len(p) /\ Len(p) \in Nat
  BY <1>1
<1>3. \A k \in DOMAIN p :
        /\ destinations[p[k]] \in Destinations
        /\ [to |-> destinations[p[k]].to, coins |-> Given(p[k])] \in Transfer
  <2> SUFFICES ASSUME NEW k \in DOMAIN p
      PROVE  /\ destinations[p[k]] \in Destinations
             /\ [to |-> destinations[p[k]].to, coins |-> Given(p[k])] \in Transfer
    OBVIOUS
  <2>1. p[k] \in 1 .. Len(destinations)
    BY <1>1
  <2>2. destinations[p[k]] \in Destinations
    BY <2>1, ReadyShares
  <2>3. Given(p[k]) \in Coins
    BY <2>1, GivenAreCoins
  <2>4. QED BY <2>2, <2>3 DEF Destinations, Transfer
<1> HIDE DEF p
<1>4. Payments = [k \in 1 .. Len(p) |-> [to |-> destinations[p[k]].to, coins |-> Given(p[k])]]
  BY <1>2 DEF Payments, p
<1>5. [k \in DOMAIN p |-> destinations[p[k]]] = [k \in 1 .. Len(p) |-> destinations[p[k]]]
  BY <1>2
<1>6. Payments \in Seq(Transfer) /\ Len(Payments) = Len(p) /\ DOMAIN Payments = DOMAIN p
  BY <1>2, <1>3, <1>4
<1>7. /\ [k \in 1 .. Len(p) |-> destinations[p[k]]] \in Seq(Destinations)
      /\ Len([k \in 1 .. Len(p) |-> destinations[p[k]]]) = Len(p)
  <2> DEFINE q == [k \in 1 .. Len(p) |-> destinations[p[k]]]
  <2>1. \A k \in 1 .. Len(p) : q[k] \in Destinations
    BY <1>2, <1>3
  <2>2. q \in [1 .. Len(p) -> Destinations]
    <3>1. q = [k \in 1 .. Len(p) |-> q[k]]
      OBVIOUS
    <3> HIDE DEF q
    <3> QED BY <2>1, <3>1
  <2> HIDE DEF q
  <2>3. q \in Seq(Destinations) /\ Len(q) = Len(p)
    BY <1>2, <2>2
  <2> QED BY <2>3 DEF q
<1>8. QED BY <1>5, <1>6, <1>7 DEF p

\* Its transfers come to the balance.
LEMMA PaymentsComeToAll ==
  ASSUME Ready, NEW d \in Denoms
  PROVE  Pending(Payments)[d] = balance[d]
<1> DEFINE n == Len(destinations)
           p == PaidOnes
           f == CoinsListed(Payments, d)
           g == AllAmounts(d)
           D == DOMAIN p
           Q == {p[k] : k \in D}
<1>1. /\ Payments \in Seq(Transfer) /\ DOMAIN Payments = D
      /\ ListsAll(p, PaidSet)
  BY PaymentsAreTransfers, PaidInOrder
<1>2. /\ IsFiniteSet(D)
      /\ \A k \in D : f[k] = Payments[k].coins[d] /\ f[k] \in Nat
      /\ Pending(Payments)[d] = SumFunctionOnSet(f, D)
  BY <1>1, PendingEach
<1>3. \A k \in D : p[k] \in PaidSet /\ p[k] \in 1 .. n
  BY <1>1, ReadyShares DEF ListsAll, PaidSet
<1>4. \A k \in D : f[k] = g[p[k]]
  <2> SUFFICES ASSUME NEW k \in D PROVE f[k] = g[p[k]]
    OBVIOUS
  <2>1. f[k] = Payments[k].coins[d]
    BY <1>2
  <2>2. Payments[k].coins = Given(p[k])
    BY DEF Payments
  <2>3. Given(p[k])[d] = Amount(p[k], d)
    BY DEF Given
  <2>4. g[p[k]] = Amount(p[k], d)
    BY <1>3 DEF AllAmounts
  <2>5. QED BY <2>1, <2>2, <2>3, <2>4
<1>5. SumFunctionOnSet(f, D) = SumFunctionOnSet(g, Q)
  <2>1. \A k \in D : f[k] \in Int /\ f[k] = g[p[k]]
    BY <1>2, <1>4
  <2>2. \A k, l \in D : p[k] = p[l] => k = l
    BY <1>1 DEF ListsAll
  <2> HIDE DEF f, g, p, D
  <2> QED BY <1>2, <2>1, <2>2, SumReindexed
<1>6. Q = PaidSet
  BY <1>1 DEF ListsAll
<1>7. PaidSet \in SUBSET (1 .. n) /\ \A i \in (1 .. n) \ PaidSet : g[i] = 0
  <2>1. PaidSet \in SUBSET (1 .. n)
    BY ReadyShares DEF PaidSet
  <2>2. ASSUME NEW i \in 1 .. n, i \notin PaidSet PROVE g[i] = 0
    <3>1. Given(i) = NoCoins
      BY <2>2, ReadyShares DEF PaidSet
    <3>2. Given(i)[d] = 0
      BY <3>1 DEF NoCoins
    <3>3. QED BY <3>2 DEF Given, AllAmounts
  <2>3. QED BY <2>1, <2>2
<1>8. IntTerms(g, 1 .. n) /\ IsFiniteSet(1 .. n)
  <2>1. \A i \in 1 .. n : g[i] \in Int
    <3>1. \A i \in 1 .. n : Amount(i, d) \in Nat
      BY AmountsFit
    <3> QED BY <3>1 DEF AllAmounts
  <2>2. n \in Int /\ 1 \in Int
    BY ReadyShares
  <2> HIDE DEF n
  <2>3. IsFiniteSet(1 .. n)
    BY <2>2, FS_Interval, Zenon
  <2> QED BY <2>1, <2>3 DEF IntTerms
<1>9. SumFunctionOnSet(g, 1 .. n) = SumFunctionOnSet(g, PaidSet)
  <2> HIDE DEF g, n
  <2> QED BY <1>7, <1>8, SumOfTheRest
<1>10. SumFunctionOnSet(g, 1 .. n) = balance[d]
  BY AmountsFit
<1>11. QED BY <1>2, <1>5, <1>6, <1>9, <1>10

\* Somebody is always given something: nothing is left over.
LEMMA SomeIsPaid ==
  ASSUME Ready, balance # NoCoins
  PROVE  Len(PaidOnes) \in Nat /\ Len(PaidOnes) > 0
<1>1. PICK d \in Denoms : balance[d] > 0
  BY DEF Ready, Stored, Coins, NoCoins
<1>2. Payments \in Seq(Transfer) /\ DOMAIN Payments = DOMAIN PaidOnes
  BY PaymentsAreTransfers
<1>3. DOMAIN Payments # {}
  <2> SUFFICES ASSUME DOMAIN Payments = {} PROVE FALSE
    OBVIOUS
  <2>1. Pending(Payments)[d] = SumFunctionOnSet(CoinsListed(Payments, d), {})
    BY <1>2, PendingEach
  <2>2. Pending(Payments)[d] = 0
    BY <2>1, SumOfNone
  <2>3. Pending(Payments)[d] = balance[d]
    BY PaymentsComeToAll
  <2> QED BY <1>1, <2>2, <2>3
<1>4. Len(PaidOnes) \in Nat /\ DOMAIN PaidOnes = 1 .. Len(PaidOnes)
  BY PaidInOrder DEF ListsAll
<1> QED BY <1>2, <1>3, <1>4

-----------------------------------------------------------------------------
(* The fees *)

Fee == [to : Recipients, bps : Nat]

BpsListed(fees) == [k \in DOMAIN fees |-> fees[k].bps]

\* The points of a list of fees, and their sum, as numbers.
LEMMA BpsOfEach ==
  ASSUME NEW fees \in Seq(Fee)
  PROVE  /\ Len(fees) \in Nat
         /\ IsFiniteSet(1 .. Len(fees))
         /\ \A k \in 1 .. Len(fees) :
              BpsListed(fees)[k] = fees[k].bps /\ BpsListed(fees)[k] \in Nat
         /\ BpsOf(fees) = SumFunctionOnSet(BpsListed(fees), 1 .. Len(fees))
         /\ BpsOf(fees) \in Nat
<1>1. Len(fees) \in Nat /\ DOMAIN fees = 1 .. Len(fees)
  OBVIOUS
<1>2. IsFiniteSet(1 .. Len(fees))
  <2>1. Len(fees) \in Int /\ 1 \in Int
    BY <1>1
  <2> QED BY <2>1, FS_Interval, Zenon
<1>3. \A k \in 1 .. Len(fees) :
        BpsListed(fees)[k] = fees[k].bps /\ BpsListed(fees)[k] \in Nat
  <2> SUFFICES ASSUME NEW k \in 1 .. Len(fees)
               PROVE BpsListed(fees)[k] = fees[k].bps /\ fees[k].bps \in Nat
    OBVIOUS
  <2>1. fees[k] \in Fee
    BY <1>1
  <2>2. QED BY <1>1, <2>1 DEF BpsListed, Fee
<1>4. BpsOf(fees) = SumFunctionOnSet(BpsListed(fees), 1 .. Len(fees))
  <2>1. DOMAIN BpsListed(fees) = 1 .. Len(fees)
    BY <1>1 DEF BpsListed
  <2>2. BpsOf(fees) = SumFunctionOnSet(BpsListed(fees), DOMAIN BpsListed(fees))
    BY DEF BpsOf, BpsListed, SumFunction
  <2>3. QED BY <2>1, <2>2
<1>5. SumFunctionOnSet(BpsListed(fees), 1 .. Len(fees)) \in Nat
  <2> DEFINE A == 1 .. Len(fees)
  <2>1. IsFiniteSet(A) /\ \A k \in A : BpsListed(fees)[k] \in Nat
    BY <1>2, <1>3
  <2> HIDE DEF A
  <2>2. SumFunctionOnSet(BpsListed(fees), A) \in Nat
    BY <2>1, SumIsNat
  <2> QED BY <2>2 DEF A
<1>6. QED BY <1>1, <1>2, <1>3, <1>4, <1>5

\* The fees are the collector's and the affiliates', and within the whole.
LEMMA FeesListed ==
  /\ Fees \in Seq(Fee)
  /\ Len(Fees) = Len(Affiliates) + 1
  /\ Len(Affiliates) \in Nat
  /\ DOMAIN Affiliates = 1 .. Len(Affiliates)
  /\ Fees[1].bps \in Nat /\ Fees[1].bps >= MIN_FEE_BPS
  /\ Fees[1].bps + BpsOf(Affiliates) <= 10000
  /\ \A k \in 1 .. Len(Affiliates) : Fees[k + 1] = Affiliates[k]
<1> DEFINE total == BpsOf(Affiliates)
           own == Larger(SatSub(BASE_FEE_BPS, total), MIN_FEE_BPS)
           first == [to |-> CALC, bps |-> own]
<1>1. Affiliates \in Seq(Fee) /\ CALC \in Recipients
  BY DistributionAssumption DEF Fee
<1>2. total \in Nat /\ total <= 200
  BY <1>1, BpsOfEach, DistributionAssumption DEF MAX_TOTAL_AFFILIATE_BPS
<1>3. own \in Nat /\ own >= MIN_FEE_BPS /\ own + total <= 10000
  <2> HIDE DEF total
  <2> QED BY <1>2 DEF Larger, SatSub, BASE_FEE_BPS, MIN_FEE_BPS
<1> HIDE DEF own, total
<1>4. first \in Fee
  BY <1>1, <1>3 DEF Fee
<1>5. Fees = <<first>> \o Affiliates
  BY DEF Fees, own, total
<1>6. /\ <<first>> \in Seq(Fee) /\ Len(<<first>>) = 1 /\ <<first>>[1] = first
      /\ Len(Affiliates) \in Nat /\ DOMAIN Affiliates = 1 .. Len(Affiliates)
  BY <1>1, <1>4
<1> HIDE DEF first
<1>7. Fees \in Seq(Fee) /\ Len(Fees) = Len(Affiliates) + 1
  BY <1>1, <1>5, <1>6
<1>8. Fees[1] = first
  BY <1>1, <1>5, <1>6
<1>9. \A k \in 1 .. Len(Affiliates) : Fees[k + 1] = Affiliates[k]
  BY <1>1, <1>5, <1>6
<1>10. first.bps = own
  BY DEF first
<1>11. QED BY <1>3, <1>6, <1>7, <1>8, <1>9, <1>10 DEF total

\* What is quoted is the points of all fees, and no more than the whole.
LEMMA QuotedIsAll ==
  /\ QuotedBps = Fees[1].bps + BpsOf(Affiliates)
  /\ QuotedBps \in Nat
  /\ QuotedBps <= 10000
<1> DEFINE m == Len(Affiliates)
           n == Len(Fees)
           f == BpsListed(Fees)
           g == BpsListed(Affiliates)
<1>1. Affiliates \in Seq(Fee) /\ Fees \in Seq(Fee) /\ m \in Nat /\ n = m + 1
  BY DistributionAssumption, FeesListed DEF Fee
<1>2. /\ \A k \in 1 .. n : f[k] = Fees[k].bps /\ f[k] \in Nat
      /\ QuotedBps = SumFunctionOnSet(f, 1 .. n)
      /\ QuotedBps \in Nat
  BY <1>1, BpsOfEach DEF QuotedBps
<1>3. /\ \A k \in 1 .. m : g[k] = Affiliates[k].bps
      /\ BpsOf(Affiliates) = SumFunctionOnSet(g, 1 .. m)
  BY <1>1, BpsOfEach
<1>4. \A k \in 1 .. m : Fees[k + 1] = Affiliates[k] /\ k + 1 \in 1 .. n
  BY <1>1, FeesListed
<1>5. \A k \in 1 .. m : g[k] = f[k + 1]
  BY <1>2, <1>3, <1>4
<1>6. \A k \in 1 .. n : f[k] \in Int
  BY <1>2
<1>7. SumFunctionOnSet(f, 1 .. n) = f[1] + SumFunctionOnSet(g, 1 .. m)
  <2>1. n \in Nat /\ n > 0 /\ m = n - 1
    BY <1>1
  <2> HIDE DEF f, g, n, m
  <2> QED BY <1>5, <1>6, <2>1, SumAfterFirst
<1>8. f[1] = Fees[1].bps
  BY <1>1, <1>2
<1>9. QED BY <1>2, <1>3, <1>7, <1>8, FeesListed

\* The shares of a list add up to a number.
LEMMA SharesOfList ==
  ASSUME NEW g \in Seq(Destinations)
  PROVE  SharesOf(g) \in Nat
<1> DEFINE f == [i \in DOMAIN g |-> g[i].shares]
           A == DOMAIN g
<1>1. SharesOf(g) = SumFunctionOnSet(f, A)
  BY DEF SharesOf, SumFunction
<1>2. IsFiniteSet(A)
  <2>1. A = 1 .. Len(g) /\ Len(g) \in Int /\ 1 \in Int
    OBVIOUS
  <2> QED BY <2>1, FS_Interval, Zenon
<1>3. \A i \in A : f[i] \in Nat
  <2> SUFFICES ASSUME NEW i \in A PROVE g[i].shares \in Nat
    OBVIOUS
  <2>1. g[i] \in Destinations
    OBVIOUS
  <2>2. QED BY <2>1 DEF Destinations
<1> HIDE DEF f, A
<1>4. QED BY <1>1, <1>2, <1>3, SumIsNat

\* One list after the other.
LEMMA Joined ==
  ASSUME NEW S, NEW a \in Seq(S), NEW b \in Seq(S)
  PROVE  a \o b \in Seq(S) /\ Len(a \o b) = Len(a) + Len(b)
OBVIOUS

\* The affiliates of a list that initialises are destinations, too.
LEMMA AffiliatesLast ==
  ASSUME NEW g \in Seq(Destinations), Initialises(g)
  PROVE  /\ WithAffiliates(g) \in Seq(Destinations)
         /\ WithAffiliates(g) # <<>>
<1> DEFINE a == [i \in DOMAIN g |-> Destination(g[i].to, g[i].shares)]
           F(k) == DivCeil(SharesOf(g) * Fees[k].bps, 10000)
           b == [k \in DOMAIN Fees |-> Destination(Fees[k].to, F(k))]
           n == Len(Fees)
<1>1. WithAffiliates(g) = a \o b
  BY DEF WithAffiliates
<1>2. a \in Seq(Destinations)
  <2>1. \A i \in 1 .. Len(g) : a[i] \in Destinations
    <3> SUFFICES ASSUME NEW i \in 1 .. Len(g) PROVE a[i] \in Destinations
      OBVIOUS
    <3>1. g[i] \in Destinations /\ DOMAIN g = 1 .. Len(g)
      OBVIOUS
    <3>2. QED BY <3>1 DEF Destinations, Destination
  <2>2. a = [i \in 1 .. Len(g) |-> a[i]] /\ Len(g) \in Nat
    OBVIOUS
  <2> HIDE DEF a
  <2> QED BY <2>1, <2>2
<1>3. n \in Nat /\ n > 0 /\ DOMAIN Fees = 1 .. n /\ Fees \in Seq(Fee)
  BY FeesListed
<1>4. SharesOf(g) \in Nat
  BY SharesOfList
<1>5. ASSUME NEW k \in 1 .. n PROVE F(k) \in Nat
  <2> DEFINE x == SharesOf(g) y == Fees[k].bps z == x * y
  <2>1. x \in Nat /\ y \in Nat
    <3>1. Fees[k] \in Fee
      BY <1>3
    <3> QED BY <1>4, <3>1 DEF Fee
  <2>2. z \in Nat
    <3> HIDE DEF x, y
    <3> QED BY <2>1
  <2> HIDE DEF z
  <2>3. DivCeil(z, 10000) \in Nat
    <3> DEFINE u == 10000
    <3>1. u \in Nat /\ u > 0
      OBVIOUS
    <3> HIDE DEF u
    <3>2. DivCeil(z, u) \in Nat
      BY <2>2, <3>1, QuotientUp
    <3> QED BY <3>2 DEF u
  <2> QED BY <2>3 DEF z
<1>6. ASSUME NEW k \in 1 .. n PROVE b[k] \in Destinations /\ b[k].shares = F(k)
  <2>1. Fees[k] \in Fee
    BY <1>3
  <2>2. F(k) \in Nat /\ b[k] = Destination(Fees[k].to, F(k))
    BY <1>3, <1>5
  <2> HIDE DEF F, b
  <2> QED BY <2>1, <2>2 DEF Destinations, Destination, Fee
<1>7. b \in Seq(Destinations) /\ Len(b) = n
  <2>1. b = [k \in 1 .. n |-> b[k]]
    BY <1>3
  <2>2. \A k \in 1 .. n : b[k] \in Destinations
    BY <1>6
  <2> HIDE DEF b, n
  <2> QED BY <1>3, <2>1, <2>2
<1> HIDE DEF a, b, n
<1>9. /\ a \o b \in Seq(Destinations) /\ Len(a \o b) = Len(a) + n /\ Len(a) \in Nat
  <2> HIDE DEF F
  <2>1. a \o b \in Seq(Destinations) /\ Len(a \o b) = Len(a) + Len(b)
    BY <1>2, <1>7, Joined
  <2>2. Len(a) \in Nat
    BY <1>2
  <2> QED BY <1>7, <2>1, <2>2
<1>10. QED BY <1>1, <1>3, <1>9

-----------------------------------------------------------------------------
(* What holds throughout *)

\* What is left of a distribution: the coins of its failed and its pending transfers.
Inv ==
  /\ Stored
  /\ withdrawals \in Coins
  /\ bounced \in Coins
  /\ messages \in Seq(Transfer)
  /\ events \in 0 .. MaxEvents
  /\ alone \in BOOLEAN
  /\ SharesOutTheBalance

\* What the shares are divided by.
LEMMA SharesArePositive ==
  ASSUME Ready
  PROVE  SharesOf(destinations) \in Nat /\ SharesOf(destinations) > 0
BY ReadyShares, SharesOfList DEF Ready, Stored

\* The pending transfers come to coins.
LEMMA PendingAreCoins ==
  ASSUME NEW ms \in Seq(Transfer)
  PROVE  Pending(ms) \in Coins
<1>1. \A d \in Denoms : Pending(ms)[d] \in Nat
  BY PendingEach
<1>2. Pending(ms) = [d \in Denoms |-> Pending(ms)[d]]
  BY DEF Pending, SumOfCoins
<1>3. QED BY <1>1, <1>2 DEF Coins

\* Coins are added coin by coin, and are the same when each is.
LEMMA PlusEach ==
  /\ \A c \in Coins, e \in Coins : Plus(c, e) \in Coins
  /\ \A c, e : \A d \in Denoms : Plus(c, e)[d] = c[d] + e[d]
  /\ \A c \in Coins, e \in Coins :
       (\A d \in Denoms : c[d] = e[d]) => c = e
BY DEF Plus, Coins

\* Coins that cover others leave coins.
LEMMA MinusEach ==
  /\ \A c \in Coins, e \in Coins : Covers(c, e) => Minus(c, e) \in Coins
  /\ \A c, e : \A d \in Denoms : Minus(c, e)[d] = c[d] - e[d]
BY DEF Minus, Coins, Covers

\* The same, coin by coin.
SharedEach ==
  alone => \A d \in Denoms : balance[d] = bounced[d] + Pending(messages)[d]

\* What is shared out is shared out coin by coin.
LEMMA SharedIsEach ==
  ASSUME NEW b \in Coins, NEW c \in Coins, NEW ms \in Seq(Transfer)
  PROVE  b = Plus(c, Pending(ms)) <=> \A d \in Denoms : b[d] = c[d] + Pending(ms)[d]
<1> DEFINE p == Pending(ms)
<1>1. p \in Coins
  BY PendingAreCoins
<1> HIDE DEF p
<1>2. b = Plus(c, p) <=> \A d \in Denoms : b[d] = c[d] + p[d]
  BY <1>1, PlusEach
<1>3. QED BY <1>2 DEF p

\* It is so in every state ...
LEMMA SharedInInv ==
  ASSUME Inv
  PROVE  SharedEach
BY SharedIsEach DEF Inv, Stored, SharedEach, SharesOutTheBalance, Pending

\* ... and a step need only be looked at coin by coin.
LEMMA SharedAfterStep ==
  ASSUME balance' \in Coins, bounced' \in Coins, messages' \in Seq(Transfer), SharedEach'
  PROVE  SharesOutTheBalance'
BY SharedIsEach DEF SharedEach, SharesOutTheBalance, Pending

\* No coins are coins.
LEMMA NoneAreCoins ==
  /\ NoCoins \in Coins
  /\ \A d \in Denoms : NoCoins[d] = 0
BY DEF NoCoins, Coins

\* A strategy that has been instantiated has destinations.
LEMMA InvInit ==
  ASSUME Init
  PROVE  Inv
<1>1. PICK g \in Lists : Initialises(g) /\ destinations = WithAffiliates(g)
  BY DEF Init
<1>2. g \in Seq(Destinations)
  BY DistributionAssumption
<1>3. Stored
  BY <1>1, <1>2, AffiliatesLast, NoneAreCoins DEF Stored, Init
<1>4. messages = <<>> /\ messages \in Seq(Transfer) /\ events \in 0 .. MaxEvents
  BY DistributionAssumption DEF Init
<1>5. QED BY <1>3, <1>4, NoneAreCoins DEF Inv, Init, SharesOutTheBalance

\* A deposit ends the time when a distribution is alone.
LEMMA InvDeposit ==
  ASSUME Inv, NEW d \in Denoms, NEW amount \in Amounts, Deposit(d, amount)
  PROVE  Inv'
<1>1. amount \in Nat /\ balance \in Coins
  BY DistributionAssumption DEF Inv, Stored
<1>2. balance' \in Coins
  BY <1>1 DEF Deposit, Coins
<1>3. Stored'
  BY <1>2 DEF Stored, Deposit, Inv
<1>4. events' \in 0 .. MaxEvents
  BY DistributionAssumption DEF Inv, Deposit, Event
<1>5. QED BY <1>3, <1>4, NoneAreCoins DEF Inv, Deposit, SharesOutTheBalance

\* A distribution keeps some destination, and sends all there is.
LEMMA InvDistribute ==
  ASSUME Inv, Distribute
  PROVE  Inv'
<1> DEFINE q == [k \in DOMAIN PaidOnes |-> destinations[PaidOnes[k]]]
           n == Len(destinations)
           m == Len(PaidOnes)
<1>1. Ready /\ Stored /\ balance # NoCoins
  BY DEF Inv, Distribute, Ready
<1>2. destinations' = q /\ messages' = Payments
  BY DEF Distribute, Payments
<1>3. /\ q \in Seq(Destinations) /\ Len(q) = m
      /\ Payments \in Seq(Transfer)
  BY <1>1, PaymentsAreTransfers
<1>4. m \in Nat /\ m > 0
  BY <1>1, SomeIsPaid
<1>5. q # <<>>
  <2> HIDE DEF q
  <2> QED BY <1>3, <1>4
<1> HIDE DEF q
<1>6. Stored'
  BY <1>1, <1>2, <1>3, <1>5 DEF Stored, Distribute
<1>7. SharedEach'
  <2> SUFFICES ASSUME NEW d \in Denoms
               PROVE balance'[d] = bounced'[d] + Pending(messages')[d]
    BY DEF SharedEach
  <2>1. Pending(messages')[d] = balance[d]
    BY <1>1, <1>2, PaymentsComeToAll
  <2>2. balance[d] \in Nat /\ bounced'[d] = 0 /\ balance' = balance
    BY <1>1, NoneAreCoins DEF Stored, Coins, Distribute
  <2>3. QED BY <2>1, <2>2
<1>8. bounced' \in Coins /\ messages' \in Seq(Transfer) /\ balance' \in Coins
  BY <1>1, <1>2, <1>3, NoneAreCoins DEF Distribute, Stored
<1>9. SharesOutTheBalance'
  BY <1>7, <1>8, SharedAfterStep
<1>10. QED BY <1>6, <1>8, <1>9 DEF Inv, Distribute

\* What is delivered has left both the balance and the transfers.
LEMMA InvDeliver ==
  ASSUME Inv, Deliver
  PROVE  Inv'
<1> DEFINE c == Head(messages).coins
<1>1. /\ messages \in Seq(Transfer) /\ messages # <<>>
      /\ balance \in Coins /\ bounced \in Coins
  BY DEF Inv, Stored, Deliver, Idle
<1>2. messages' = Tail(messages) /\ balance' = Minus(balance, c) /\ Covers(balance, c)
      /\ bounced' = bounced /\ alone' = alone
  BY DEF Deliver
<1>3. c \in Coins /\ messages' \in Seq(Transfer)
  <2>1. Head(messages) \in Transfer /\ Tail(messages) \in Seq(Transfer)
    BY <1>1
  <2> QED BY <1>2, <2>1 DEF Transfer
<1>4. \A d \in Denoms : /\ c[d] \in Nat /\ Pending(messages')[d] \in Nat
                        /\ Pending(messages)[d] = c[d] + Pending(messages')[d]
  BY <1>1, <1>2, <1>3, PendingAfterOne, PendingEach
<1> HIDE DEF c
<1>5. balance' \in Coins /\ \A d \in Denoms : balance'[d] = balance[d] - c[d]
  BY <1>1, <1>2, <1>3, MinusEach
<1>6. SharedEach'
  <2> SUFFICES ASSUME alone, NEW d \in Denoms
               PROVE balance'[d] = bounced'[d] + Pending(messages')[d]
    BY <1>2 DEF SharedEach
  <2>1. balance[d] = bounced[d] + Pending(messages)[d]
    BY SharedInInv DEF SharedEach
  <2>2. balance[d] \in Nat /\ bounced[d] \in Nat
    BY <1>1 DEF Coins
  <2>3. QED BY <1>2, <1>4, <1>5, <2>1, <2>2
<1>7. SharesOutTheBalance'
  BY <1>1, <1>2, <1>3, <1>5, <1>6, SharedAfterStep
<1>8. Stored'
  BY <1>5 DEF Inv, Stored, Deliver
<1>9. QED BY <1>1, <1>2, <1>3, <1>7, <1>8 DEF Inv, Deliver

\* What bounces stays in the balance, and is counted.
LEMMA InvBounce ==
  ASSUME Inv, Bounce
  PROVE  Inv'
<1> DEFINE c == Head(messages).coins
<1>1. /\ messages \in Seq(Transfer) /\ messages # <<>>
      /\ balance \in Coins /\ bounced \in Coins
  BY DEF Inv, Stored, Bounce, Idle
<1>2. messages' = Tail(messages) /\ balance' = balance /\ alone' = alone
      /\ bounced' = IF alone THEN Plus(bounced, c) ELSE bounced
  BY DEF Bounce
<1>3. c \in Coins /\ messages' \in Seq(Transfer)
  <2>1. Head(messages) \in Transfer /\ Tail(messages) \in Seq(Transfer)
    BY <1>1
  <2> QED BY <1>2, <2>1 DEF Transfer
<1>4. \A d \in Denoms : /\ c[d] \in Nat /\ Pending(messages')[d] \in Nat
                        /\ Pending(messages)[d] = c[d] + Pending(messages')[d]
  BY <1>1, <1>2, <1>3, PendingAfterOne, PendingEach
<1> HIDE DEF c
<1>5. bounced' \in Coins /\ (alone => \A d \in Denoms : bounced'[d] = bounced[d] + c[d])
  BY <1>1, <1>2, <1>3, PlusEach
<1>6. SharedEach'
  <2> SUFFICES ASSUME alone, NEW d \in Denoms
               PROVE balance'[d] = bounced'[d] + Pending(messages')[d]
    BY <1>2 DEF SharedEach
  <2>1. balance[d] = bounced[d] + Pending(messages)[d]
    BY SharedInInv DEF SharedEach
  <2>2. balance[d] \in Nat /\ bounced[d] \in Nat
    BY <1>1 DEF Coins
  <2>3. QED BY <1>2, <1>4, <1>5, <2>1, <2>2
<1>7. SharesOutTheBalance'
  BY <1>1, <1>2, <1>3, <1>5, <1>6, SharedAfterStep
<1>8. Stored'
  BY <1>2 DEF Inv, Stored, Bounce
<1>9. events' \in 0 .. MaxEvents
  BY DistributionAssumption DEF Inv, Bounce, Event
<1>10. QED BY <1>1, <1>2, <1>3, <1>5, <1>7, <1>8, <1>9 DEF Inv, Bounce

\* New destinations are the owner's, and the collector and the affiliates.
LEMMA InvUpdate ==
  ASSUME Inv, NEW g \in Lists \cup {destinations}, Update(g)
  PROVE  Inv'
<1>1. g \in Seq(Destinations) /\ Initialises(g)
  BY DistributionAssumption DEF Inv, Stored, Update
<1>2. Stored'
  BY <1>1, AffiliatesLast DEF Update, Stored, Inv
<1>3. SharesOutTheBalance'
  BY DEF Update, Inv, SharesOutTheBalance, SumOfCoins
<1>4. QED BY <1>2, <1>3 DEF Inv, Update

-----------------------------------------------------------------------------
(* Withdrawals *)

FeesListedFor(c, d) == [k \in DOMAIN Fees |-> (c[d] * Fees[k].bps) \div 10000]

\* The fees are coins, and no more than is quoted of what they are taken from.
LEMMA AllFeesFit ==
  ASSUME NEW c \in Coins, NEW d \in Denoms
  PROVE  /\ AllFees(c)[d] \in Nat
         /\ AllFees(c)[d] * 10000 <= QuotedBps * c[d]
         /\ AllFees(c)[d] <= c[d]
<1> DEFINE n == Len(Fees)
           f == FeesListedFor(c, d)
           g == BpsListed(Fees)
           b == c[d]
           K == 1 .. n
           u == 10000
<1>1. /\ IsFiniteSet(K)
      /\ \A k \in K : g[k] = Fees[k].bps /\ g[k] \in Nat
      /\ QuotedBps = SumFunctionOnSet(g, K)
      /\ DOMAIN Fees = K
  BY FeesListed, BpsOfEach DEF QuotedBps
<1>2. b \in Nat /\ u \in Nat /\ u > 0
  BY DEF Coins
<1>3. AllFees(c)[d] = SumFunctionOnSet(f, K)
  <2> DEFINE h == [k \in DOMAIN Fees |-> FeeOn(k, c)]
  <2>1. AllFees(c)[d] = SumFunction([k \in DOMAIN h |-> h[k][d]])
    BY DEF AllFees, SumOfCoins
  <2>2. [k \in DOMAIN h |-> h[k][d]] = f
    BY DEF FeeOn, FeesListedFor
  <2>3. DOMAIN f = K
    BY <1>1 DEF FeesListedFor
  <2>4. SumFunction(f) = SumFunctionOnSet(f, DOMAIN f)
    BY DEF SumFunction
  <2>5. QED BY <2>1, <2>2, <2>3, <2>4
<1>4. ASSUME NEW k \in K PROVE f[k] \in Nat /\ f[k] * u <= g[k] * b
  <2> DEFINE x == b * g[k]
  <2>1. g[k] \in Nat
    BY <1>1
  <2>2. f[k] = x \div u
    BY <1>1 DEF FeesListedFor
  <2>3. x \in Nat /\ x = g[k] * b
    <3> HIDE DEF b, g
    <3> QED BY <1>2, <2>1
  <2> HIDE DEF f, g, b, x, u
  <2>4. x \div u \in Nat /\ (x \div u) * u <= x
    BY <1>2, <2>3, Quotient
  <2>5. QED BY <2>2, <2>3, <2>4
<1>5. \A k \in K : f[k] * u <= g[k] * b
  BY <1>4
<1>6. IntTerms(f, K) /\ IntTerms(g, K)
  <2>1. \A k \in K : f[k] \in Nat /\ g[k] \in Nat
    BY <1>1, <1>4
  <2> HIDE DEF f, g, K
  <2> QED BY <2>1 DEF IntTerms
<1>7. \A k \in K : f[k] \in Nat
  BY <1>4
<1> HIDE DEF f, g, K, b, u
<1>8. SumFunctionOnSet(f, K) * u <= SumFunctionOnSet(g, K) * b
  BY <1>1, <1>2, <1>5, <1>6, SumAtMost
<1>9. SumFunctionOnSet(f, K) \in Nat
  BY <1>1, <1>7, SumIsNat
<1> DEFINE F == AllFees(c)[d]
<1>10. F \in Nat /\ F * u <= QuotedBps * b
  BY <1>1, <1>3, <1>8, <1>9
<1>11. QuotedBps * b <= u * b
  <2> DEFINE q == QuotedBps
  <2>1. q \in Nat /\ q <= u
    BY QuotedIsAll DEF u
  <2> HIDE DEF q
  <2>2. q * b <= u * b
    BY <1>2, <2>1, Z3
  <2> QED BY <2>2 DEF q
<1>12. F <= b
  <2> HIDE DEF F
  <2>1. F * u <= b * u
    <3>1. QuotedBps * b \in Nat /\ u * b = b * u /\ b * u \in Nat /\ F * u \in Nat
      BY <1>2, <1>10, QuotedIsAll
    <3> QED BY <1>10, <1>11, <3>1
  <2>2. F \in Int /\ b \in Int
    BY <1>2, <1>10
  <2> QED BY <1>2, <2>1, <2>2, LessByFactor
<1>13. QED BY <1>10, <1>12 DEF b, u

\* What the owner is given and the fees come to what is taken.
LEMMA SentIsTaken ==
  ASSUME NEW c \in Coins
  PROVE  /\ AllFees(c) \in Coins
         /\ Kept(c) \in Coins
         /\ \A d \in Denoms : Kept(c)[d] = c[d] - AllFees(c)[d]
         /\ Plus(Kept(c), AllFees(c)) = c
<1>1. \A d \in Denoms : AllFees(c)[d] \in Nat /\ AllFees(c)[d] <= c[d] /\ c[d] \in Nat
  BY AllFeesFit DEF Coins
<1>2. AllFees(c) = [d \in Denoms |-> AllFees(c)[d]]
  BY DEF AllFees, SumOfCoins
<1>3. AllFees(c) \in Coins
  BY <1>1, <1>2 DEF Coins
<1>4. \A d \in Denoms : Kept(c)[d] = c[d] - AllFees(c)[d] /\ Kept(c)[d] \in Nat
  BY <1>1 DEF Kept, SatSub
<1>5. Kept(c) \in Coins
  BY <1>4 DEF Kept, Coins
<1>6. \A d \in Denoms : Plus(Kept(c), AllFees(c))[d] = c[d]
  BY <1>1, <1>4, PlusEach
<1>7. Plus(Kept(c), AllFees(c)) = c
  BY <1>3, <1>5, <1>6, PlusEach
<1>8. QED BY <1>3, <1>4, <1>5, <1>7

\* What a withdrawal takes is coins.
LEMMA TakenAreCoins ==
  ASSUME balance \in Coins, NEW asked \in Requests
  PROVE  Taken(asked) \in Coins
BY DistributionAssumption DEF Taken, Coins, Smaller

\* A withdrawal takes just that from the balance.
LEMMA WithdrawStep ==
  ASSUME Inv, NEW asked \in Requests, Withdraw(asked)
  PROVE  LET c == Taken(asked) IN
         /\ c \in Coins
         /\ Covers(balance, c)
         /\ balance' = Minus(balance, c)
         /\ withdrawals' = Plus(withdrawals, Kept(c))
<1>1. Taken(asked) \in Coins
  BY TakenAreCoins DEF Inv, Stored
<1>2. QED BY <1>1, SentIsTaken DEF Withdraw

\* A withdrawal leaves a balance.
LEMMA InvWithdraw ==
  ASSUME Inv, NEW asked \in Requests, Withdraw(asked)
  PROVE  Inv'
<1> DEFINE c == Taken(asked)
<1>1. /\ c \in Coins /\ Covers(balance, c)
      /\ balance' = Minus(balance, c)
      /\ withdrawals' = Plus(withdrawals, Kept(c))
  BY WithdrawStep
<1> HIDE DEF c
<1>2. balance' \in Coins /\ withdrawals' \in Coins
  BY <1>1, MinusEach, PlusEach, SentIsTaken DEF Inv, Stored
<1>3. Stored'
  BY <1>2 DEF Stored, Withdraw, Inv
<1>4. events' \in 0 .. MaxEvents
  BY DistributionAssumption DEF Inv, Withdraw, Event
<1>5. QED BY <1>2, <1>3, <1>4, NoneAreCoins DEF Inv, Withdraw, SharesOutTheBalance

\* Every step keeps the invariant.
LEMMA InvKept ==
  ASSUME Inv, [Next]_vars
  PROVE  Inv'
<1>1. ASSUME NEW d \in Denoms, NEW amount \in Amounts, Deposit(d, amount) PROVE Inv'
  BY <1>1, InvDeposit
<1>2. CASE Distribute
  BY <1>2, InvDistribute
<1>3. CASE Deliver
  BY <1>3, InvDeliver
<1>4. CASE Bounce
  BY <1>4, InvBounce
<1>5. ASSUME NEW g \in Lists \cup {destinations}, Update(g) PROVE Inv'
  BY <1>5, InvUpdate
<1>6. ASSUME NEW asked \in Requests, Withdraw(asked) PROVE Inv'
  BY <1>6, InvWithdraw
<1>7. CASE UNCHANGED vars
  BY <1>7 DEF Inv, Stored, SharesOutTheBalance, SumOfCoins, vars
<1>8. QED BY <1>1, <1>2, <1>3, <1>4, <1>5, <1>6, <1>7 DEF Next

\* The invariant gives the types.
LEMMA InvGivesTypeOK ==
  ASSUME Inv
  PROVE  TypeOK
<1>1. \A i \in DOMAIN destinations : destinations[i].shares \in Nat
  BY StoredShares DEF Inv, Destinations
<1>2. destinations # <<>>
  BY DEF Inv, Stored
<1>3. \A k \in DOMAIN messages : messages[k].coins \in Coins
  <2> SUFFICES ASSUME NEW k \in DOMAIN messages PROVE messages[k].coins \in Coins
    OBVIOUS
  <2>1. messages[k] \in Transfer
    BY DEF Inv
  <2> QED BY <2>1 DEF Transfer
<1>4. QED BY <1>1, <1>2, <1>3 DEF Inv, Stored, TypeOK

\* The inductive invariant of distributions: the stored list is never empty, and it is
\* known where each coin is.
THEOREM InvHolds == Spec => []Inv
<1>1. Init => Inv
  BY InvInit
<1>2. Inv /\ [Next]_vars => Inv'
  BY InvKept
<1>3. QED BY <1>1, <1>2, PTL DEF Spec

\* The types of a strategy's coins and records; and somebody is left to give to, however
\* often destinations have been dropped.
THEOREM TypeCorrect == Spec => []TypeOK
<1>1. Inv => TypeOK
  BY InvGivesTypeOK
<1>2. QED BY <1>1, InvHolds, PTL

\* As long as nobody intervenes, the transfers of a distribution and those that have
\* failed come to the balance, for all destinations, affiliates and amounts.
THEOREM GivesOutAll == Spec => []SharesOutTheBalance
<1>1. Inv => SharesOutTheBalance
  BY DEF Inv
<1>2. QED BY <1>1, InvHolds, PTL

-----------------------------------------------------------------------------
(* What a withdrawal takes, and what a distribution gives each *)

\* A withdrawal takes what was asked for or all there is, and its fees are within the
\* quoted points.
THEOREM WithdrawsWhatIsAsked == Spec => WithdrawTakesWhatIsAsked
<1>1. ASSUME Inv, NEW asked \in Requests, Withdraw(asked), NEW d \in Denoms
      PROVE  /\ balance[d] - balance'[d] = Taken(asked)[d]
             /\ (withdrawals'[d] - withdrawals[d]) * 10000
                  >= Taken(asked)[d] * (10000 - QuotedBps)
  <2> DEFINE c == Taken(asked)
             F == AllFees(c)[d]
             q == QuotedBps
             x == c[d]
  <2>1. /\ c \in Coins /\ balance' = Minus(balance, c)
        /\ withdrawals' = Plus(withdrawals, Kept(c))
    BY <1>1, WithdrawStep
  <2>2. x \in Nat /\ balance[d] \in Nat /\ withdrawals[d] \in Nat
    BY <1>1, <2>1 DEF Inv, Stored, Coins
  <2>3. balance'[d] = balance[d] - x
    BY <2>1, MinusEach
  <2>4. withdrawals'[d] = withdrawals[d] + (x - F)
    <3> HIDE DEF c
    <3> QED BY <2>1, PlusEach, SentIsTaken
  <2>5. F \in Nat /\ F * 10000 <= q * x
    <3> HIDE DEF c
    <3> QED BY <2>1, AllFeesFit
  <2>6. q \in Nat
    BY QuotedIsAll
  <2> HIDE DEF c, F, q, x
  <2>7. (x - F) * 10000 >= x * (10000 - q)
    BY <2>2, <2>5, <2>6, Z3
  <2>8. balance[d] - balance'[d] = x
    BY <2>2, <2>3
  <2>9. withdrawals'[d] - withdrawals[d] = x - F
    BY <2>2, <2>4, <2>5
  <2>10. QED BY <2>7, <2>8, <2>9 DEF c, F, q, x
<1>2. Inv /\ [Next]_vars =>
        [\A asked \in Requests : Withdraw(asked) =>
           \A d \in Denoms :
             /\ balance[d] - balance'[d] = Taken(asked)[d]
             /\ (withdrawals'[d] - withdrawals[d]) * 10000
                  >= Taken(asked)[d] * (10000 - QuotedBps)]_vars
  BY <1>1
<1>3. QED BY <1>2, InvHolds, PTL DEF Spec, WithdrawTakesWhatIsAsked

\* The sum of one term.
LEMMA SumOfOne ==
  ASSUME NEW x, NEW f, f[x] \in Int
  PROVE  SumFunctionOnSet(f, {x}) = f[x]
<1> DEFINE S == {x}
<1>1. IsFiniteSet(S)
  BY FS_Singleton
<1>2. SumFunctionOnSet(f, S) = f[x] + SumFunctionOnSet(f, S \ {x})
  <2>1. x \in S /\ \A y \in S : f[y] \in Int
    OBVIOUS
  <2> HIDE DEF S
  <2> QED BY <1>1, <2>1, SumWithout
<1>3. S \ {x} = {}
  OBVIOUS
<1>4. QED BY <1>2, <1>3, SumOfNone

\* A share, cut down twice, is short of what is due by less than a coin and the part
\* of the balance that the precision of the ratio hides.
LEMMA ShareIsFair ==
  ASSUME NEW x \in Nat, NEW T \in Nat, T > 0, NEW b \in Nat, NEW U \in Nat, U > 0,
         NEW r, r = (x * U) \div T, NEW s, s = (b * r) \div U
  PROVE  /\ s \in Nat
         /\ s * T <= b * x
         /\ b * x < (s + (1 + DivCeil(b, U))) * T
<1> DEFINE e == DivCeil(b, U)
           y == x * U
<1>1. y \in Nat
  OBVIOUS
<1>2. r \in Nat /\ r * T <= y /\ y < (r + 1) * T
  <2> HIDE DEF y
  <2>1. y \div T \in Nat /\ (y \div T) * T <= y /\ y < (y \div T + 1) * T
    BY <1>1, Quotient
  <2>2. r = y \div T
    BY DEF y
  <2> QED BY <2>1, <2>2
<1> DEFINE z == b * r
<1>3. z \in Nat
  BY <1>2
<1>4. s \in Nat /\ s * U <= z /\ z < (s + 1) * U
  <2> HIDE DEF z
  <2>1. z \div U \in Nat /\ (z \div U) * U <= z /\ z < (z \div U + 1) * U
    BY <1>3, Quotient
  <2>2. s = z \div U
    BY DEF z
  <2> QED BY <2>1, <2>2
<1>5. e \in Nat /\ b <= e * U
  BY QuotientUp
<1> HIDE DEF e
<1>6. s * U <= b * r /\ b * r < (s + 1) * U /\ r * T <= x * U /\ x * U < (r + 1) * T
  BY <1>2, <1>4
<1> HIDE DEF y, z
<1>7. s * T <= b * x
  <2>1. (s * U) * T <= (b * r) * T
    BY <1>2, <1>4, <1>6, Z3
  <2>2. b * (r * T) <= b * (x * U)
    BY <1>2, <1>6, Z3
  <2>3. (s * U) * T = (s * T) * U /\ (b * r) * T = b * (r * T) /\ b * (x * U) = (b * x) * U
    BY <1>2, <1>4, Z3
  <2>4. (s * T) * U <= (b * x) * U
    <3>1. (s * T) * U \in Int /\ (b * r) * T \in Int /\ (b * x) * U \in Int
      BY <1>2, <1>4
    <3> QED BY <2>1, <2>2, <2>3, <3>1
  <2>5. s * T \in Int /\ b * x \in Int
    BY <1>4
  <2>6. QED BY <2>4, <2>5, LessByFactor
<1>8. b * x < (s + (1 + e)) * T
  <2>1. b * (x * U) <= b * ((r + 1) * T)
    BY <1>2, <1>6, Z3
  <2>2. (b * r) * T < ((s + 1) * U) * T
    BY <1>2, <1>4, <1>6, Z3
  <2>3. b * T <= (e * U) * T
    BY <1>5, Z3
  <2>4. /\ b * (x * U) = (b * x) * U
        /\ b * ((r + 1) * T) = (b * r) * T + b * T
        /\ ((s + 1) * U) * T + (e * U) * T = ((s + (1 + e)) * T) * U
    BY <1>2, <1>4, <1>5, Z3
  <2>5. (b * x) * U < ((s + (1 + e)) * T) * U
    <3>1. /\ (b * x) * U \in Int /\ (b * r) * T \in Int /\ b * T \in Int
          /\ ((s + 1) * U) * T \in Int /\ (e * U) * T \in Int
          /\ ((s + (1 + e)) * T) * U \in Int
      BY <1>2, <1>4, <1>5
    <3> QED BY <2>1, <2>2, <2>3, <2>4, <3>1
  <2>6. b * x \in Int /\ (s + (1 + e)) * T \in Int
    BY <1>4, <1>5
  <2>7. QED BY <2>5, <2>6, LessByFactor
<1>9. QED BY <1>4, <1>7, <1>8 DEF e

Rounded(d) == 1 + DivCeil(balance[d], UNIT)

\* The roundings allowed for are a number.
LEMMA RoundedIsNat ==
  ASSUME Ready, NEW d \in Denoms
  PROVE  Rounded(d) \in Nat /\ Rounded(d) > 0
<1>1. balance[d] \in Nat /\ UNIT \in Nat /\ UNIT > 0
  BY DistributionAssumption DEF Ready, Stored, Coins
<1>2. DivCeil(balance[d], UNIT) \in Nat
  BY <1>1, QuotientUp
<1>3. QED BY <1>2 DEF Rounded

\* A share of a stored destination is what is due, cut down.
LEMMA EachShareIsFair ==
  ASSUME Ready, NEW d \in Denoms, NEW i \in 1 .. Len(destinations)
  PROVE  /\ Share(i, d) \in Nat
         /\ Share(i, d) * SharesOf(destinations) <= balance[d] * destinations[i].shares
         /\ balance[d] * destinations[i].shares
              < (Share(i, d) + Rounded(d)) * SharesOf(destinations)
<1> DEFINE x == destinations[i].shares
           T == SharesOf(destinations)
           b == balance[d]
           r == (x * UNIT) \div T
           s == (b * r) \div UNIT
<1>1. T \in Nat /\ T > 0 /\ b \in Nat /\ UNIT \in Nat /\ UNIT > 0
  BY SharesArePositive, DistributionAssumption DEF Ready, Stored, Coins
<1>2. x \in Nat
  BY ReadyShares DEF Destinations
<1>3. s = Share(i, d)
  BY DEF Share
<1>4. Rounded(d) = 1 + DivCeil(b, UNIT)
  BY DEF Rounded
<1>5. r = (x * UNIT) \div T /\ s = (b * r) \div UNIT
  OBVIOUS
<1> HIDE DEF x, T, b, r, s
<1>6. s \in Nat /\ s * T <= b * x /\ b * x < (s + (1 + DivCeil(b, UNIT))) * T
  BY <1>1, <1>2, <1>5, ShareIsFair
<1>7. QED BY <1>3, <1>4, <1>6 DEF x, T, b

\* The last destination is given what is due and what all the others lost.
LEMMA LastIsFair ==
  ASSUME Ready, NEW d \in Denoms
  PROVE  LET n == Len(destinations)
             T == SharesOf(destinations)
         IN  /\ balance[d] * destinations[n].shares <= Amount(n, d) * T
             /\ Amount(n, d) * T
                  < balance[d] * destinations[n].shares + n * Rounded(d) * T
<1> DEFINE n == Len(destinations)
           T == SharesOf(destinations)
           b == balance[d]
           K == 1 .. n - 1
           s == SharesListed
           f == Parts(d)
           w == Rounded(d)
           h == [j \in K |-> w]
           g == [j \in K |-> f[j] + h[j]]
           S == SumFunctionOnSet(s, K)
           F == SumFunctionOnSet(f, K)
           x == s[n]
<1>1. /\ n \in Nat /\ n > 0 /\ (\A i \in 1 .. n : s[i] \in Nat)
      /\ T = SumFunctionOnSet(s, 1 .. n) /\ x \in Nat /\ x = destinations[n].shares
  <2>1. n \in 1 .. n
    BY ReadyShares
  <2> QED BY <2>1, ReadyShares
<1>2. T \in Nat /\ T > 0 /\ b \in Nat /\ w \in Nat /\ w > 0
  BY SharesArePositive, RoundedIsNat DEF Ready, Stored, Coins
<1>3. IsFiniteSet(1 .. n) /\ IsFiniteSet(K)
  <2>1. n - 1 \in Int /\ n \in Int /\ 1 \in Int
    BY <1>1
  <2> QED BY <2>1, FS_Interval, Zenon
<1>4. \A j \in K : s[j] \in Nat
  BY <1>1
<1>5. T = x + S /\ S \in Nat
  <2>1. \A i \in 1 .. n : s[i] \in Int
    BY <1>1
  <2>2. n \in 1 .. n /\ (1 .. n) \ {n} = K
    BY <1>1
  <2>3. T = x + SumFunctionOnSet(s, (1 .. n) \ {n})
    <3> HIDE DEF n, s, T
    <3> QED BY <1>1, <1>3, <2>1, <2>2, SumWithout
  <2>4. S \in Nat
    <3> HIDE DEF s, K
    <3> QED BY <1>3, <1>4, SumIsNat
  <2>5. QED BY <2>2, <2>3, <2>4
<1>6. ASSUME NEW j \in K
      PROVE  /\ f[j] \in Nat /\ s[j] \in Nat
             /\ f[j] * T <= s[j] * b
             /\ s[j] * b <= g[j] * T
  <2>1. j \in 1 .. n
    BY <1>1
  <2>2. f[j] = Share(j, d) /\ s[j] = destinations[j].shares /\ s[j] \in Nat
    BY <2>1, ReadyShares DEF Parts
  <2>3. f[j] \in Nat /\ f[j] * T <= b * s[j] /\ b * s[j] < (f[j] + w) * T
    BY <2>1, <2>2, EachShareIsFair
  <2>4. g[j] = f[j] + w
    OBVIOUS
  <2> DEFINE y == s[j] a == f[j]
  <2>5. /\ b * y = y * b /\ y * b \in Int /\ (a + w) * T \in Int
        /\ g[j] = a + w /\ y \in Nat /\ a \in Nat
        /\ a * T <= b * y /\ b * y < (a + w) * T
    <3>1. y \in Nat /\ a \in Nat
      BY <2>2, <2>3
    <3>2. b * y = y * b /\ y * b \in Int /\ (a + w) * T \in Int
      <4> HIDE DEF y, a, b, w, T
      <4> QED BY <1>2, <3>1, Z3
    <3> QED BY <2>3, <2>4, <3>1, <3>2
  <2>6. a * T <= y * b /\ y * b <= g[j] * T
    <3> HIDE DEF y, a, b, w, T, g
    <3> QED BY <2>5
  <2>7. QED BY <2>5, <2>6
<1>7. IntTerms(f, K) /\ IntTerms(s, K) /\ IntTerms(h, K) /\ IntTerms(g, K)
  <2>1. \A j \in K : f[j] \in Nat /\ s[j] \in Nat
    BY <1>6
  <2>2. \A j \in K : h[j] = w /\ g[j] = f[j] + h[j]
    OBVIOUS
  <2> HIDE DEF f, s, h, g, K, w
  <2> QED BY <1>2, <2>1, <2>2 DEF IntTerms
<1>8. AddUp(K, f, h, g) /\ \A j \in K : h[j] = w
  BY DEF AddUp
<1>9. \A j \in K : f[j] * T <= s[j] * b
  BY <1>6
<1>10. \A j \in K : s[j] * b <= g[j] * T
  BY <1>6
<1>11. F \in Nat
  <2>1. \A j \in K : f[j] \in Nat
    BY <1>6
  <2> HIDE DEF f, K
  <2> QED BY <1>3, <2>1, SumIsNat
<1>12. Cardinality(K) = n - 1
  <2>1. n - 1 \in Int /\ 1 \in Int
    BY <1>1
  <2>2. Cardinality(K) = IF 1 > n - 1 THEN 0 ELSE (n - 1) - 1 + 1
    <3> DEFINE m == n - 1
    <3> HIDE DEF m
    <3>1. m \in Int
      BY <2>1 DEF m
    <3>2. Cardinality(1 .. m) = IF 1 > m THEN 0 ELSE m - 1 + 1
      BY <3>1, FS_Interval
    <3> QED BY <3>2 DEF m
  <2>3. QED
    <3> HIDE DEF K, n
    <3> QED BY <1>1, <2>2
<1>13. Amount(n, d) = b - F
  BY AmountsFit
<1> HIDE DEF n, T, b, K, s, f, w, h, g, x
<1>14. F * T <= S * b
  BY <1>2, <1>3, <1>7, <1>9, SumAtMost
<1>15. S * b <= SumFunctionOnSet(g, K) * T
  BY <1>2, <1>3, <1>7, <1>10, SumAtMost
<1>16. SumFunctionOnSet(g, K) = F + (n - 1) * w
  <2>1. SumFunctionOnSet(g, K) = F + SumFunctionOnSet(h, K)
    BY <1>3, <1>7, <1>8, SumOfSums
  <2>2. SumFunctionOnSet(h, K) = Cardinality(K) * w
    <3>1. w \in Int
      BY <1>2
    <3> QED BY <1>3, <1>8, <3>1, SumOfSame
  <2>3. QED BY <1>12, <2>1, <2>2
<1> HIDE DEF S, F
<1>17. /\ (b - F) * T = b * x + S * b - F * T
       /\ F * T \in Int /\ n * w * T \in Int /\ S * b \in Int /\ b * x \in Int
  <2>1. (b - F) * T = b * T - F * T
    BY <1>2, <1>11, Z3
  <2>2. b * (x + S) = b * x + b * S /\ b * S = S * b
    BY <1>1, <1>2, <1>5, Z3
  <2>3. b * T = b * (x + S)
    BY <1>5
  <2>4. F * T \in Int /\ n * w * T \in Int /\ S * b \in Int /\ b * x \in Int
    BY <1>1, <1>2, <1>5, <1>11
  <2>5. QED BY <2>1, <2>2, <2>3, <2>4
<1>18. w * T > 0 /\ w * T \in Int
  BY <1>2, Z3
<1>19. S * b <= F * T + n * w * T - w * T
  <2>1. S * b <= (F + (n - 1) * w) * T
    BY <1>15, <1>16
  <2>2. (F + (n - 1) * w) * T = F * T + n * w * T - w * T
    BY <1>1, <1>2, <1>11, Z3
  <2>3. QED BY <2>1, <2>2
<1> DEFINE p == F * T q == n * w * T v == w * T y == S * b z == b * x
<1>20. /\ p \in Int /\ q \in Int /\ v \in Int /\ y \in Int /\ z \in Int
       /\ v > 0 /\ p <= y /\ y <= p + q - v /\ (b - F) * T = z + y - p
  BY <1>14, <1>17, <1>18, <1>19
<1> HIDE DEF p, q, v, y, z
<1>21. z <= (b - F) * T /\ (b - F) * T < z + q
  BY <1>20
<1>22. QED BY <1>1, <1>13, <1>21 DEF n, T, b, w, q, z

\* What a distribution sends a destination, in all its transfers: there is one at most.
Got(i, d) ==
  SumFunction([k \in {l \in DOMAIN Payments : PaidOnes[l] = i} |-> Payments[k].coins[d]])

\* A destination gets its amount, in one transfer or none.
LEMMA GotIsAmount ==
  ASSUME Ready, NEW d \in Denoms, NEW i \in 1 .. Len(destinations)
  PROVE  Got(i, d) = Amount(i, d)
<1> DEFINE L == {l \in DOMAIN Payments : PaidOnes[l] = i}
           f == [k \in L |-> Payments[k].coins[d]]
<1>1. Got(i, d) = SumFunctionOnSet(f, L)
  BY DEF Got, SumFunction
<1>2. ListsAll(PaidOnes, PaidSet) /\ DOMAIN Payments = DOMAIN PaidOnes
  BY PaidInOrder, PaymentsAreTransfers
<1>3. Given(i)[d] = Amount(i, d) /\ Amount(i, d) \in Nat
  BY AmountsFit DEF Given
<1>4. CASE i \in PaidSet
  <2>1. PICK l \in DOMAIN PaidOnes : PaidOnes[l] = i
    BY <1>2, <1>4 DEF ListsAll
  <2>2. L = {l}
    BY <1>2, <2>1 DEF ListsAll
  <2>3. f[l] = Amount(i, d)
    <3>1. Payments[l].coins = Given(i)
      BY <2>1 DEF Payments
    <3> QED BY <1>3, <2>2, <3>1
  <2> HIDE DEF f, L
  <2>4. SumFunctionOnSet(f, {l}) = f[l]
    <3>1. f[l] \in Int
      BY <1>3, <2>3
    <3> QED BY <3>1, SumOfOne, Zenon
  <2>5. QED BY <1>1, <2>2, <2>3, <2>4
<1>5. CASE i \notin PaidSet
  <2>1. L = {}
    BY <1>2, <1>5 DEF ListsAll
  <2>2. Given(i) = NoCoins
    BY <1>5, ReadyShares DEF PaidSet
  <2>3. Amount(i, d) = 0
    BY <1>3, <2>2, NoneAreCoins
  <2> HIDE DEF f, L
  <2>4. QED BY <1>1, <2>1, <2>3, SumOfNone
<1>6. QED BY <1>4, <1>5

\* Each destination gets its share to within the roundings, the last what those of the
\* others leave, and it stays the last unless it has no share and is left nothing.
THEOREM EachIsGivenItsShare == Spec => GivesFairShares
<1> DEFINE n == Len(destinations)
           T == SharesOf(destinations)
<1>0. ASSUME Inv, Distribute PROVE Ready /\ balance # NoCoins /\ n \in 1 .. n
  <2>1. Ready /\ balance # NoCoins
    BY <1>0 DEF Inv, Distribute, Ready
  <2> QED BY <2>1, ReadyShares
<1>1. ASSUME Inv, Distribute
      PROVE  /\ destinations' # <<>>
             /\ destinations[n].shares > 0 \/ (\E d \in Denoms : Got(n, d) > 0)
                  => destinations'[Len(destinations')] = destinations[n]
  <2> DEFINE q == [k \in DOMAIN PaidOnes |-> destinations[PaidOnes[k]]]
             m == Len(PaidOnes)
  <2>1. /\ Ready /\ balance # NoCoins /\ n \in 1 .. n
        /\ destinations' = q
    BY <1>0, <1>1 DEF Distribute
  <2>2. q \in Seq(Destinations) /\ Len(q) = m
    BY <2>1, PaymentsAreTransfers
  <2>3. m \in Nat /\ m > 0 /\ m \in DOMAIN PaidOnes
    BY <2>1, SomeIsPaid, PaidInOrder DEF ListsAll
  <2>4. ASSUME destinations[n].shares > 0 \/ (\E d \in Denoms : Got(n, d) > 0)
        PROVE  q[m] = destinations[n]
    <3>1. \A d \in Denoms : Got(n, d) = Amount(n, d)
      BY <2>1, GotIsAmount
    <3>2. PaidOnes[m] = n
      BY <2>1, <2>4, <3>1, LastIsPaid
    <3> QED BY <2>3, <3>2
  <2> HIDE DEF q
  <2>5. QED BY <2>1, <2>2, <2>3, <2>4
<1>2. ASSUME Inv, Distribute, NEW d \in Denoms, NEW i \in 1 .. n - 1
      PROVE  /\ Got(i, d) * T <= balance[d] * destinations[i].shares
             /\ balance[d] * destinations[i].shares < (Got(i, d) + Rounded(d)) * T
  <2>1. Ready
    BY <1>0, <1>2
  <2>2. i \in 1 .. n
    BY <2>1, ReadyShares
  <2>3. Got(i, d) = Share(i, d)
    BY <2>1, <2>2, GotIsAmount, AmountsFit
  <2>4. QED BY <2>1, <2>2, <2>3, EachShareIsFair
<1>3. ASSUME Inv, Distribute, NEW d \in Denoms
      PROVE  /\ balance[d] * destinations[n].shares <= Got(n, d) * T
             /\ Got(n, d) * T < balance[d] * destinations[n].shares + n * Rounded(d) * T
  <2>1. Ready /\ n \in 1 .. n
    BY <1>0, <1>3
  <2>2. Got(n, d) = Amount(n, d)
    BY <2>1, GotIsAmount
  <2>3. QED BY <2>1, <2>2, LastIsFair
<1>4. Distribute => messages' = Payments
  BY DEF Distribute, Payments
<1> DEFINE Fair ==
       LET paid == PaidOnes
           Sent(i, d) == SumFunction([k \in {l \in DOMAIN messages' : paid[l] = i} |->
                                       messages'[k].coins[d]])
           Due(i, d) == balance[d] * destinations[i].shares
           Roundings(d) == 1 + DivCeil(balance[d], UNIT)
       IN  /\ destinations' # <<>>
           /\ destinations[n].shares > 0 \/ (\E d \in Denoms : Sent(n, d) > 0)
                => destinations'[Len(destinations')] = destinations[n]
           /\ \A d \in Denoms :
             /\ \A i \in 1 .. n - 1 :
                  /\ Sent(i, d) * T <= Due(i, d)
                  /\ Due(i, d) < (Sent(i, d) + Roundings(d)) * T
             /\ Due(n, d) <= Sent(n, d) * T
             /\ Sent(n, d) * T < Due(n, d) + n * Roundings(d) * T
<1>5. ASSUME Inv, Distribute PROVE Fair
  BY <1>1, <1>2, <1>3, <1>4, <1>5 DEF Got, Rounded
<1>6. Inv /\ [Next]_vars => [Distribute => Fair]_vars
  BY <1>5
<1>7. QED BY <1>6, InvHolds, PTL DEF Spec, GivesFairShares

=============================================================================
