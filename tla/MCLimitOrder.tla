---------------------------- MODULE MCLimitOrder ----------------------------
(* Instances of LimitOrder for TLC. *)
EXTENDS LimitOrder

Fixed(price) == [kind |-> "fixed", price |-> price]

Offset(side, direction, offset, tolerance) ==
  [kind |-> "offset", side |-> side, direction |-> direction,
   offset |-> offset, tolerance |-> tolerance]

Exact(n) == [kind |-> "exact", value |-> n]
PercentOf(n) == [kind |-> "percent", value |-> n]

Node(side, kind, value, pricing, min_fill) ==
  [side |-> side, bid |-> [kind |-> kind, value |-> value],
   pricing |-> pricing, min_fill |-> min_fill]

\* Two fixed orders at one price, of which the second asks for less.
Shared == << Node("base", "fixed", 2, Fixed(1), NONE),
             Node("base", "fixed", 1, Fixed(1), NONE) >>

\* Half of the coins behind the market, all of them at a price that may be met
\* by the market, and no claim before half of the order is filled.
Following == << Node("base", "percent", 50,
                     Offset("base", "below", Exact(1), NONE), 50),
                Node("base", "percent", 100, Fixed(1), NONE) >>

\* One order on each side, each fed by the proceeds of the other.
BothSides == << Node("base", "percent", 100,
                     Offset("quote", "above", PercentOf(100), Exact(1)), NONE),
                Node("quote", "fixed", 2,
                     Offset("base", "below", PercentOf(50), PercentOf(50)), 100) >>

\* A single order, and a list that init refuses.
Alone == << Node("quote", "percent", 100, Fixed(2), NONE) >>
Refused == << Node("base", "fixed", 0, Fixed(1), NONE) >>

\* An order that follows the market to the price of a smaller one, and away.
Mixed == << Node("base", "fixed", 2, Offset("base", "below", Exact(1), NONE), NONE),
            Node("base", "fixed", 1, Fixed(1), NONE) >>

\* Three, of which an execution may take the last before the second.
Three == << Node("base", "fixed", 2, Fixed(1), NONE),
            Node("quote", "percent", 100, Fixed(2), NONE),
            Node("base", "fixed", 1, Fixed(1), NONE) >>

AllLists == {Three, Mixed, Shared, Following, BothSides, Alone, Refused}
=============================================================================
