-------------------------------- MODULE MCSwap --------------------------------
(* Instances of Swap for TLC. *)
EXTENDS Swap

CONSTANTS F, G, Foreign

\* One pair that buys the denom swapped, one that sells it, one of other denoms.
Denoms ==
  [p \in {F, G, Foreign} |->
     CASE p = F -> [base |-> "out", quote |-> "in"]
       [] p = G -> [base |-> "in", quote |-> "out"]
       [] OTHER -> [base |-> "other", quote |-> "in"]]

Order(price, total) == [price |-> price, total |-> total]

\* Books that end before, at and after a page, worth enough or not in the first
\* page or the second, and some with an order that has no price.
Books ==
  LET cheap == Order(1000, 1)
      dear  == Order(2000, 2)
  IN  {<<dear>>, <<cheap, dear>>, <<cheap, cheap>>,
       <<cheap, cheap, dear>>, <<cheap, cheap, cheap, cheap, dear>>,
       <<cheap, cheap, cheap, dear>>, <<Order(1000, 4), Order(0, 1)>>,
       <<Order(1000, 4), cheap, Order(0, 1)>>, <<cheap, cheap, Order(0, 1), dear>>}

Deep == <<Order(1000, 4), Order(1000, 4)>>

Dear == <<Order(2000, 4), Order(2000, 4)>>

Pair(book, rate, depth) == [base |-> book, quote |-> book, rate |-> rate, depth |-> depth]

States ==
  [p \in {F, G, Foreign} |->
     CASE p = F -> {Pair(b, 700, 16) : b \in Books} \cup
                   {Pair(Deep, 1200, 12), Pair(Dear, 500, 16)}
       [] p = G -> {Pair(Deep, 900, 16)}
       [] OTHER -> {Pair(Deep, 1000, 16)}]

Pool(rate, slippage, min_in) ==
  [halted |-> FALSE, rate |-> rate, depth |-> 16, slippage_bps |-> slippage, min_in |-> min_in]

Pools ==
  {Pool(800, NONE, 1), Pool(1200, 2000, 4), Pool(1200, 9000, 1),
   [Pool(800, NONE, 1) EXCEPT !.halted = TRUE]}

Fixed == [kind |-> "fixed"]

Linear(base, floor) ==
  [kind |-> "linear", base |-> base, base_denom |-> "out", scalar |-> UNIT,
   floor |-> floor, floor_denom |-> "in"]

Swapping(amount, minimum, adjustment, routes) ==
  [amount |-> amount, minimum |-> minimum, maximum_slippage_bps |-> 4000,
   adjustment |-> adjustment, routes |-> routes]

Thor == ThorchainRoute(NONE, 5)

Accepted ==
  {Swapping(8, 4, Fixed, <<FinRoute(F), Thor>>),
   Swapping(8, 4, Linear(6, NONE), <<Thor, FinRoute(F)>>),
   Swapping(8, 6, Linear(8, 16), <<FinRoute(F), ThorchainRoute(2, NONE)>>),
   Swapping(8, 0, Linear(8 * UNIT + 1, NONE), <<Thor>>),
   Swapping(8, 0, Fixed, <<FinRoute(F), FinRoute(G)>>)}

\* One swap for each way to be refused.
Refused ==
  LET s == Swapping(8, 4, Linear(6, 2), <<FinRoute(F)>>)
  IN  {[s EXCEPT !.amount = 0],
       [s EXCEPT !.maximum_slippage_bps = 10001],
       [s EXCEPT !.routes = <<>>],
       [s EXCEPT !.routes = <<FinRoute(Foreign)>>],
       [s EXCEPT !.routes = <<ThorchainRoute(0, NONE)>>],
       [s EXCEPT !.routes = <<ThorchainRoute(NONE, 14401)>>],
       [s EXCEPT !.adjustment.base = 0],
       [s EXCEPT !.adjustment.base_denom = "in"],
       [s EXCEPT !.adjustment.floor_denom = "out"]}

AllSwaps == Accepted \cup Refused
=============================================================================
