--------------------------- MODULE MCDistribution ---------------------------
(* Instances of Distribution for TLC. *)
EXTENDS Distribution

To(to, shares) == [to |-> to, shares |-> shares]

\* Three in equal parts, no part of which is exact; one against many; one alone.
Thirds   == <<To("ann", 5000), To("bob", 5000), To("cat", 5000)>>
Unequal  == <<To("ann", 50), To("bob", 9950)>>
OnlyAnn  == <<To("ann", 10000)>>
TooLittle == <<To("ann", 9999)>>

SomeLists == {Thirds, Unequal, TooLittle}
AnnsList  == {OnlyAnn}

OneOrAll == {[d \in Denoms |-> 403], [d \in Denoms |-> IF d = "d1" THEN 1 ELSE 0]}

\* The last of them takes no fee: she is given only what the roundings leave.
TwoAffiliates == <<[to |-> "dan", bps |-> 120], [to |-> "eve", bps |-> 0]>>
NoAffiliates  == <<>>
=============================================================================
