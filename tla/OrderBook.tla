------------------------------- MODULE OrderBook -------------------------------
(***************************************************************************)
(* The price of a trading pair: what the actions and conditions of a       *)
(* strategy take a coin to be worth, read from the top of the pair's book. *)
(*                                                                         *)
(* A side of a book is the sequence of its orders, the best one first.  A  *)
(* price is a Decimal, in coins of the quote denom for one of the base.    *)
(***************************************************************************)
EXTENDS Integers, Sequences, SequencesExt

CONSTANTS
  UNIT,           \* a Decimal counts in parts of UNIT, 10^18 in the code
  TICK,           \* the significant digits of a pair's prices
  MIN_ORDERS,     \* orders a price must rest on, 4 in the code
  MIN_VALUE,      \* coins of the quote denom it must rest on, 10^4 in the code
  LIMIT,          \* orders in a page of the book, 4 in the code
  MAX_ITERATIONS  \* pages read at most, 2 in the code

ASSUME OrderBookAssumption ==
  /\ {UNIT, TICK, MIN_ORDERS, MIN_VALUE, LIMIT} \subseteq Nat \ {0}
  /\ MAX_ITERATIONS = 2
  /\ MIN_ORDERS <= MAX_ITERATIONS * LIMIT

DivCeil(a, b) == (a + b - 1) \div b

FromRatio(a, b) == (a * UNIT) \div b

MulFloor(amount, decimal) == (amount * decimal) \div UNIT

MulCeil(amount, decimal) == DivCeil(amount * decimal, UNIT)

\* The product and the quotient of two Decimals.
Times(x, y) == (x * y) \div UNIT

Over(x, y) == (x * UNIT) \div y

-----------------------------------------------------------------------------
(* get_side_price *)

Sides == {"base", "quote"}

IsBook(book) == book \in Seq([price : Nat, total : Nat])

\* What has been read of a side so far.
Nothing == [orders |-> 0, value |-> 0, depth |-> 0, zero |-> FALSE]

IsEnough(read) == read.orders >= MIN_ORDERS /\ read.value >= MIN_VALUE

\* What an order is worth in the quote denom, and in the base denom.
ValueOf(side, order) ==
  IF side = "base" THEN MulFloor(order.total, order.price) ELSE order.total

DepthOf(side, order) ==
  IF side = "base" THEN order.total ELSE DivCeil(order.total * UNIT, order.price)

ReadOrder(side, read, order) ==
  IF read.zero \/ IsEnough(read) THEN read
  ELSE IF order.price = 0 THEN [read EXCEPT !.zero = TRUE]
  ELSE [orders |-> read.orders + 1,
        value  |-> read.value + ValueOf(side, order),
        depth  |-> read.depth + DepthOf(side, order),
        zero   |-> FALSE]

\* Slip: the second page starts where the first one did.
PageFromTheTop(book, offset) ==
  SubSeq(book, 1, IF LIMIT < Len(book) THEN LIMIT ELSE Len(book))

\* BookResponse: at most LIMIT orders, from an offset.
Page(book, offset) ==
  SubSeq(book, offset + 1, IF offset + LIMIT < Len(book) THEN offset + LIMIT
                                                         ELSE Len(book))

ReadPage(side, read, page) ==
  FoldLeft(LAMBDA r, order : ReadOrder(side, r, order), read, page)

\* The pages of a side that are read, one after the other: a page that is not
\* full is the last one, and one that is empty makes the book too thin.
ReadSide(side, book) ==
  LET first  == Page(book, 0)
      one    == ReadPage(side, Nothing, first)
      second == Page(book, one.orders)
  IN  IF IsEnough(one) \/ one.zero \/ Len(first) < LIMIT THEN one
      ELSE ReadPage(side, one, second)

\* What the last of the TICK significant digits of a price counts for.
Step[price \in Nat] ==
  IF price < 10 ^ TICK THEN 1 ELSE 10 * Step[price \div 10]

\* Tick: the digits beyond it are dropped, on the base side upwards.
Truncate(side, price) ==
  LET step == Step[price]
  IN  IF side = "base" THEN DivCeil(price, step) * step ELSE (price \div step) * step

\* The average price of what was read, or none: the set has at most one element.
SidePrice(side, book) ==
  {Truncate(side, FromRatio(read.value, read.depth)) :
     read \in {r \in {ReadSide(side, book)} : IsEnough(r) /\ r.depth > 0}}

\* get_mid_price
MidPrice(pair) ==
  {(q + b) \div 2 : q \in SidePrice("quote", pair.quote), b \in SidePrice("base", pair.base)}

=============================================================================
