------------------------------ MODULE LimitOrder ------------------------------
(***************************************************************************)
(* The limit orders a strategy keeps on one FIN pair.                      *)
(*                                                                         *)
(* A node remembers of its order only the price (current_order): what it   *)
(* offers, has left and has filled is asked of the pair each time.  The    *)
(* pair keeps one order for an owner, a side and a price.  An execution    *)
(* answers with a message that withdraws the order, one that sets it, or   *)
(* both, computed from balances queried before either is delivered; the    *)
(* pair may refuse one and not the other.  When they are answered the node *)
(* is committed, and looks whether there is an order at its price at all.  *)
(*                                                                         *)
(* The engine is that of module Strategy, for a single run at a time: the  *)
(* messages of these nodes go to the pair, which does not call back.  The  *)
(* pair is external.  One coin of a side is traded for one of the other:   *)
(* how many coins a trade returns is no matter of these nodes.             *)
(***************************************************************************)
EXTENDS Integers, Sequences, FiniteSets

CONSTANTS
  Lists,     \* the node lists that may be proposed: sequences of configurations,
             \* not empty (for the empty list see NodeGraph)
  Quotes,    \* the prices the pair may quote
  MinimumBid,\* 100 in the code
  MaxCoins,  \* bound: coins of both sides together
  NONE       \* no order, no tolerance, no minimum, no price

Sides == {"base", "quote"}

Other(side) == IF side = "base" THEN "quote" ELSE "base"

Offsets == [kind : {"exact", "percent"}, value : Nat]

Pricings ==
  [kind : {"fixed"}, price : Nat] \cup
  [kind : {"offset"}, side : Sides, direction : {"above", "below"},
   offset : Offsets, tolerance : Offsets \cup {NONE}]

Bids == [kind : {"fixed", "percent"}, value : Nat]

Configs == [side : Sides, bid : Bids, pricing : Pricings,
            min_fill : Nat \cup {NONE}]

\* What init accepts.
Initialises(config) ==
  /\ CASE config.bid.kind = "fixed"   -> config.bid.value >= MinimumBid
       [] config.bid.kind = "percent" -> config.bid.value \in 1 .. 100
  /\ config.min_fill # NONE => config.min_fill <= 100

ASSUME LimitOrderAssumption ==
  /\ NONE \notin Nat \cup Offsets
  /\ Quotes \subseteq Nat
  /\ MinimumBid \in Nat \ {0}
  /\ MaxCoins \in Nat
  /\ Lists \subseteq Seq(Configs) \ {<<>>}

VARIABLES
  nodes,    \* NODES: the configurations, with the prices of the current orders
  count,    \* how many of them the present list has; the rest are older
  book,     \* the pair: <<side, price>> -> the order of the strategy
  balance,  \* the bank: side -> coins of the strategy
  market,   \* the pair: side -> the price it quotes, or NONE if it is too thin
  run       \* the run under way, or the last one

vars == <<nodes, count, book, balance, market, run>>

Visit(i)  == [kind |-> "visit", node |-> i]
Commit(i) == [kind |-> "commit", node |-> i]
ReplaceWith(g) == [kind |-> "replace", list |-> g]

\* FIN's ExecuteMsg::Order: set the order at a price to an offer.
Order(side, price, offer, funds) ==
  [kind |-> "order", key |-> <<side, price>>, offer |-> offer, funds |-> funds]

item == Head(run.work)

Idle == run.work = <<>>

Working(kind) == run.work # <<>> /\ item.kind = kind

Executing == Working("visit") /\ run.operation = "execute"

Cancelling == Working("visit") /\ run.operation = "cancel"

\* Slip: subtraction without saturation.
UnsaturatedSub(a, b) == a - b

SatSub(a, b) == IF a > b THEN a - b ELSE 0

Smaller(a, b) == IF a < b THEN a ELSE b

-----------------------------------------------------------------------------
(* The price of an order *)

Percent(number, percent) == (number * percent) \div 100

Moved(price, direction, offset) ==
  CASE offset.kind = "exact" /\ direction = "above" -> price + offset.value
    [] offset.kind = "exact" /\ direction = "below" -> SatSub(price, offset.value)
    [] offset.kind = "percent" /\ direction = "above" ->
         Percent(price, 100 + offset.value)
    [] offset.kind = "percent" /\ direction = "below" ->
         Percent(price, SatSub(100, offset.value))

\* get_new_price: NONE when the query fails.
NewPrice(pricing) ==
  CASE pricing.kind = "fixed" -> pricing.price
    [] pricing.kind = "offset" ->
         IF market[pricing.side] = NONE THEN NONE
         ELSE Moved(market[pricing.side], pricing.direction, pricing.offset)

ShouldReset(pricing, current, new) ==
  LET delta == SatSub(current, new) + SatSub(new, current)
  IN  IF pricing.kind = "fixed" \/ pricing.tolerance = NONE
      THEN current # new
      ELSE CASE pricing.tolerance.kind = "exact" ->
                  delta > pricing.tolerance.value
             [] pricing.tolerance.kind = "percent" ->
                  current * pricing.tolerance.value < delta * 100

-----------------------------------------------------------------------------
(* What a node answers with *)

Key(i) == <<nodes[i].config.side, nodes[i].current>>

Holds(i) == nodes[i].current # NONE

Exists(i) == Key(i) \in DOMAIN book

\* refresh fails for a price at which there is no order.
Lost(i) == Holds(i) /\ ~Exists(i)

\* The coins of a side that are the strategy's, in the bank and on the book:
\* the remainders of its orders of that side, the proceeds of the others.
Part(side, key, order) == IF key[1] = side THEN order.remaining ELSE order.filled

OnBook(side) == UNION {{key} \X (1 .. Part(side, key, book[key])) : key \in DOMAIN book}

Available(side) == balance[side] + Cardinality(OnBook(side))

FinalOffer(config, available) ==
  CASE config.bid.kind = "fixed"   -> Smaller(available, config.bid.value)
    [] config.bid.kind = "percent" -> Percent(available, config.bid.value)

Resets(i) ==
  Holds(i) => LET node == nodes[i]
              IN  ShouldReset(node.config.pricing, node.current,
                              NewPrice(node.config.pricing))

FilledEnough(i) ==
  LET order == book[Key(i)]
      least == nodes[i].config.min_fill
  IN  /\ order.filled > 0
      /\ least # NONE =>
           SatSub(order.offer, order.remaining) * 100 >= least * order.offer

\* Slip: an order whose price has moved is left where it is.
WithdrawsWhenFilled(i) ==
  Holds(i) /\ (book[Key(i)].remaining = 0 \/ FilledEnough(i))

Withdraws(i) ==
  Holds(i) /\ (book[Key(i)].remaining = 0 \/ FilledEnough(i) \/ Resets(i))

PriceOf(i) ==
  IF Resets(i) THEN NewPrice(nodes[i].config.pricing) ELSE nodes[i].current

OfferOf(i) == FinalOffer(nodes[i].config, Available(nodes[i].config.side))

\* Slip: the whole of the offer is expected back, not what is left of it.
FundingOfOffered(i) ==
  Smaller(balance[nodes[i].config.side]
            + (IF Withdraws(i) THEN book[Key(i)].offer ELSE 0), OfferOf(i))

\* The coins to send: those at hand and those the withdrawal will bring.
FundingOf(i) ==
  Smaller(balance[nodes[i].config.side]
            + (IF Withdraws(i) THEN book[Key(i)].remaining ELSE 0), OfferOf(i))

Withdrawal(i) == <<Order(nodes[i].config.side, nodes[i].current, 0, 0)>>

\* Slip: the offer is added to what rests at the price, as if it were an increase.
PlacementOnTop(i) ==
  LET key == <<nodes[i].config.side, PriceOf(i)>>
  IN  <<Order(key[1], key[2],
              OfferOf(i) + (IF key \in DOMAIN book THEN book[key].remaining ELSE 0),
              FundingOf(i))>>

Placement(i) ==
  <<Order(nodes[i].config.side, PriceOf(i), OfferOf(i), FundingOf(i))>>

Messages(i) ==
  (IF Withdraws(i) THEN Withdrawal(i) ELSE <<>>)
    \o (IF FundingOf(i) = 0 /\ ~Resets(i) THEN <<>> ELSE Placement(i))

-----------------------------------------------------------------------------

Init ==
  /\ \E g \in Lists :
       /\ \A i \in DOMAIN g : Initialises(g[i])
       /\ nodes = [i \in DOMAIN g |-> [config |-> g[i], current |-> NONE]]
  /\ count = Len(nodes)
  /\ book = [k \in {} |-> NONE]
  /\ balance \in {b \in [Sides -> 0 .. MaxCoins] :
                    b["base"] + b["quote"] <= MaxCoins}
  /\ market \in [Sides -> Quotes \cup {NONE}]
  /\ run = [operation |-> "none", work |-> <<>>, placed |-> "no"]

\* `placed' is history: what came of the node's last placement.
StartsRun(operation, work) ==
  /\ Idle
  /\ run' = [operation |-> operation, work |-> work, placed |-> "no"]
  /\ UNCHANGED <<nodes, count, book, balance, market>>

Execute == StartsRun("execute", <<Visit(1)>>)

Cancel == StartsRun("cancel", <<Visit(1)>>)

\* A list that does not initialise undoes the whole transaction.
Update(g) ==
  /\ \A i \in DOMAIN g : Initialises(g[i])
  /\ StartsRun("cancel", <<Visit(1), ReplaceWith(g)>>)

\* Nodes beyond the end of the new list stay.
Replace ==
  /\ Working("replace")
  /\ LET g == item.list
     IN /\ nodes' = [i \in DOMAIN nodes \cup DOMAIN g |->
                       IF i \in DOMAIN g THEN [config |-> g[i], current |-> NONE]
                                         ELSE nodes[i]]
        /\ count' = Len(g)
  /\ run' = [operation |-> "execute", work |-> <<Visit(1)>>, placed |-> "no"]
  /\ UNCHANGED <<book, balance, market>>

\* Slip: cancelling follows the edges, too.
NextVisitsByEdges(i) == {<<>>} \cup {<<Visit(j)>> : j \in (1 .. count) \ {i}}

\* Cancelling takes every node; executing follows edges, past conditions and
\* other nodes, to any other node of the list or to an end.  The edges, which
\* may lead back in the list but not in a circle (NodeGraph), allow less.
NextVisits(i) ==
  IF run.operation = "cancel"
  THEN {IF i + 1 \in DOMAIN nodes THEN <<Visit(i + 1)>> ELSE <<>>}
  ELSE {<<>>} \cup {<<Visit(j)>> : j \in (1 .. count) \ {i}}

AnswersWith(response) ==
  run' = [run EXCEPT !.work = response \o Tail(@), !.placed = "no"]

GoesOn == \E next \in NextVisits(item.node) : AnswersWith(next)

\* The order cannot be refreshed, or an execution has no price.
NodeErrs ==
  /\ Working("visit")
  /\ \/ Lost(item.node)
     \/ Executing /\ NewPrice(nodes[item.node].config.pricing) = NONE
  /\ AnswersWith(<<Commit(item.node)>>)
  /\ UNCHANGED <<nodes, count, book, balance, market>>

NodeExecutes ==
  /\ Executing
  /\ LET i == item.node
     IN /\ ~Lost(i)
        /\ NewPrice(nodes[i].config.pricing) # NONE
        /\ nodes' = [nodes EXCEPT ![i].current = PriceOf(i)]
        /\ IF Messages(i) = <<>> THEN GoesOn
           ELSE AnswersWith(Append(Messages(i), Commit(i)))
  /\ UNCHANGED <<count, book, balance, market>>

\* The price stays with the node until it is committed.
NodeCancels ==
  /\ Cancelling
  /\ LET i == item.node
     IN /\ ~Lost(i)
        /\ IF Holds(i) THEN AnswersWith(Append(Withdrawal(i), Commit(i)))
           ELSE GoesOn
  /\ UNCHANGED <<nodes, count, book, balance, market>>

\* Slip: the price is kept whether or not there is an order.
CommitsBlindly ==
  /\ Working("commit")
  /\ GoesOn
  /\ UNCHANGED <<nodes, count, book, balance, market>>

Commits ==
  /\ Working("commit")
  /\ nodes' = IF Lost(item.node) THEN [nodes EXCEPT ![item.node].current = NONE]
              ELSE nodes
  /\ GoesOn
  /\ UNCHANGED <<count, book, balance, market>>

-----------------------------------------------------------------------------
(* The pair and the bank *)

Resting(key) == IF key \in DOMAIN book THEN book[key].remaining ELSE 0

Claimable(key) == IF key \in DOMAIN book THEN book[key].filled ELSE 0

Increase(m) == SatSub(m.offer, Resting(m.key))

Affords(m) == Increase(m) <= m.funds /\ m.funds <= balance[m.key[1]]

\* An order set to nothing is withdrawn, with what it has filled.
PairWithdraws ==
  /\ Working("order")
  /\ item.offer = 0
  /\ item.key \in DOMAIN book
  /\ LET key == item.key
     IN /\ book' = [k \in DOMAIN book \ {key} |-> book[k]]
        /\ balance' = [balance EXCEPT ![key[1]] = @ + book[key].remaining,
                                      ![Other(key[1])] = @ + book[key].filled]
  /\ run' = [run EXCEPT !.work = Tail(@), !.placed = "no"]
  /\ UNCHANGED <<nodes, count, market>>

\* The order is set: what it has filled is claimed, what it has too much and the
\* funds it does not need are returned, and of what is new some may trade at once.
PairSets ==
  /\ Working("order")
  /\ item.offer > 0
  /\ item.key[2] > 0
  /\ Affords(item)
  /\ \E traded \in 0 .. Increase(item) :
       LET key  == item.key
           rest == item.offer - traded
       IN /\ book' = [k \in (IF rest = 0 THEN DOMAIN book \ {key}
                                         ELSE DOMAIN book \cup {key}) |->
                        IF k = key THEN [offer |-> rest, remaining |-> rest,
                                         filled |-> 0]
                        ELSE book[k]]
          /\ balance' = [balance EXCEPT
               ![key[1]] = @ - Increase(item) + SatSub(Resting(key), item.offer),
               ![Other(key[1])] = @ + Claimable(key) + traded]
          /\ run' = [run EXCEPT !.work = Tail(@),
                        !.placed = IF traded = 0 THEN "rests" ELSE "no"]
  /\ UNCHANGED <<nodes, count, market>>

\* A new order may be refused, because its funds do not suffice or for reasons of
\* the pair's own, and so is the withdrawal of none.  The strategy ignores it.
PairRefuses ==
  /\ Working("order")
  /\ item.offer # 0 \/ item.key \notin DOMAIN book
  /\ run' = [run EXCEPT !.work = Tail(@), !.placed = "no"]
  /\ UNCHANGED <<nodes, count, book, balance, market>>

\* Others trade, deposit and withdraw between the runs, and between the nodes of
\* one, where the messages of other nodes are delivered.
Outside == Idle \/ Working("visit")

Fill(key, n) ==
  /\ Outside
  /\ n <= book[key].remaining
  /\ book' = [book EXCEPT ![key].remaining = @ - n, ![key].filled = @ + n]
  /\ UNCHANGED <<nodes, count, balance, market, run>>

Coins == Available("base") + Available("quote")

Deposit(side) ==
  /\ Outside
  /\ Coins < MaxCoins
  /\ balance' = [balance EXCEPT ![side] = @ + 1]
  /\ UNCHANGED <<nodes, count, book, market, run>>

Withdraw(side) ==
  /\ Outside
  /\ balance[side] > 0
  /\ balance' = [balance EXCEPT ![side] = @ - 1]
  /\ UNCHANGED <<nodes, count, book, market, run>>

MarketMoves(side, price) ==
  /\ Outside
  /\ market' = [market EXCEPT ![side] = price]
  /\ UNCHANGED <<nodes, count, book, balance, run>>

Next ==
  \/ Execute
  \/ Cancel
  \/ \E g \in Lists : Update(g)
  \/ Replace
  \/ NodeErrs
  \/ NodeExecutes
  \/ NodeCancels
  \/ Commits
  \/ PairWithdraws
  \/ PairSets
  \/ PairRefuses
  \/ \E key \in DOMAIN book : \E n \in 1 .. MaxCoins : Fill(key, n)
  \/ \E side \in Sides :
       \/ Deposit(side)
       \/ Withdraw(side)
       \/ \E price \in Quotes \cup {NONE} : MarketMoves(side, price)

Spec == Init /\ [][Next]_vars

-----------------------------------------------------------------------------
(* Properties *)

\* The prices remembered, the orders and the balances are what they should be:
\* no price, coin or offer is ever negative.
TypeOK ==
  /\ count <= Len(nodes)
  /\ \A i \in DOMAIN nodes : /\ nodes[i].config \in Configs
                             /\ nodes[i].current \in Nat \cup {NONE}
  /\ DOMAIN book \subseteq Sides \X Nat
  /\ \A k \in DOMAIN book : book[k] \in [offer : Nat, remaining : Nat, filled : Nat]
  /\ balance \in [Sides -> Nat]
  /\ market \in [Sides -> Quotes \cup {NONE}]

Withdrawing(key) ==
  \E k \in DOMAIN run.work :
    /\ run.work[k].kind = "order"
    /\ run.work[k].key = key
    /\ run.work[k].offer = 0

\* No order is orphaned: each order on the book is remembered by a node, or the
\* message that withdraws it is on its way, whatever placements are refused,
\* prices move and nodes share a price.  An orphan could be cancelled by nobody.
Tracked ==
  \A key \in DOMAIN book :
    (\E i \in DOMAIN nodes : Holds(i) /\ Key(i) = key) \/ Withdrawing(key)

\* Once every node is cancelled nothing is left on the book: not when the nodes
\* are about to be replaced, and not when the strategy is paused or archived.
CancelledLeavesNothing ==
  (Idle \/ Working("replace")) /\ run.operation = "cancel" => DOMAIN book = {}

\* The coins a message carries are at hand when it is delivered, although they
\* were counted before the withdrawal that brings them; and where the strategy has
\* no other order on the book they are all that the order needs.
FundingCovered ==
  Working("order") =>
    /\ item.funds <= balance[item.key[1]]
    /\ DOMAIN book \subseteq {item.key} => Increase(item) <= item.funds

\* An order is what the configuration asks for.  When a placement was accepted
\* and nothing of it traded, that is the part of the strategy's coins the bid
\* comes to, as counted after the messages rather than before them; and an order
\* that one node alone remembers never exceeds that node's fixed bid, unless the
\* message that withdraws it is on its way (another node set it and has moved).
OfferIsAsConfigured ==
  /\ Working("commit") /\ run.placed = "rests" =>
       book[Key(item.node)].remaining =
         FinalOffer(nodes[item.node].config, Available(nodes[item.node].config.side))
  /\ \A i \in DOMAIN nodes :
       /\ Holds(i) /\ Exists(i)
       /\ nodes[i].config.bid.kind = "fixed"
       /\ \A j \in DOMAIN nodes \ {i} : Key(j) # Key(i)
       /\ ~Withdrawing(Key(i))
       => book[Key(i)].remaining <= nodes[i].config.bid.value

TurnOf(i) ==
  run.work # <<>> /\ item.kind \in {"visit", "order", "commit"} /\
    \E k \in DOMAIN run.work :
      /\ \A j \in 1 .. k - 1 : run.work[j].kind = "order"
      /\ run.work[k].kind \in {"visit", "commit"}
      /\ run.work[k].node = i

\* A node whose order is gone, filled as it was placed, refused, or withdrawn by
\* another node of the same price, has forgotten it by the end of its turn.
ForgetsLostOrders ==
  [][\A i \in DOMAIN nodes : TurnOf(i) /\ ~TurnOf(i)' => ~Lost(i)']_vars

=============================================================================
