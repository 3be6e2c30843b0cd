--------------------------------- MODULE Swap ---------------------------------
(***************************************************************************)
(* The swap action of a strategy: what it offers for what is there and for *)
(* what the price is, the routes it asks for a quote, the one it takes, and *)
(* what it remembers of it.                                                *)
(*                                                                         *)
(* One node swaps the denom "in" into the denom "out".  A route goes by a  *)
(* trading pair or by the chain's own pools; both are outside the source,  *)
(* and a market says how they answer.  The message an execution sends is   *)
(* delivered before anything else happens, and may fail: the node has been *)
(* saved by then, and the failure is swallowed.                            *)
(*                                                                         *)
(* A result that may be an error is a set of at most one value.            *)
(***************************************************************************)
EXTENDS OrderBook, FiniteSets, Functions

CONSTANTS
  NONE,        \* Option::None
  PairDenoms,  \* pair -> its base and its quote denom
  PairStates,  \* pair -> what it may be like: its book, its rate and its depth
  PoolStates,  \* what the chain's pools may be like
  Swaps,       \* the swaps that may be configured
  AffiliateBps,\* the points Rujira is promised on every deposit, 10 in the code
  Balances,    \* bound: what a transfer may leave of the denom "in"
  MaxHeight    \* bound: blocks

Pairs == DOMAIN PairDenoms

FinRoute(p) ==
  [kind |-> "fin", pair |-> p, streaming_interval |-> NONE,
   max_streaming_quantity |-> NONE, affiliate_bps |-> NONE, latest_swap |-> NONE]

ThorchainRoute(interval, quantity) ==
  [kind |-> "thorchain", pair |-> NONE, streaming_interval |-> interval,
   max_streaming_quantity |-> quantity, affiliate_bps |-> NONE,
   latest_swap |-> NONE]

\* What the types of the code say of a route and of a swap: which fields they have,
\* and that amounts are not negative.
IsRoute(r) ==
  r \in [kind : {"fin", "thorchain"}, pair : {r.pair},
         streaming_interval : {r.streaming_interval},
         max_streaming_quantity : {r.max_streaming_quantity},
         affiliate_bps : {r.affiliate_bps}, latest_swap : {r.latest_swap}]

IsSwap(s) ==
  /\ s \in [amount : Nat, minimum : Nat, maximum_slippage_bps : Nat,
            adjustment : {s.adjustment}, routes : {s.routes}]
  /\ s.routes \in Seq({s.routes[i] : i \in DOMAIN s.routes})
  /\ \A i \in DOMAIN s.routes : IsRoute(s.routes[i])
  /\ s.adjustment.kind \in {"fixed", "linear"}
  /\ s.adjustment.kind = "linear" =>
       /\ {s.adjustment.base, s.adjustment.scalar} \subseteq Nat
       /\ s.adjustment.floor \in Nat \cup {NONE}

IsMarket(m) == m.rate \in Nat /\ m.depth \in Nat

IsPair(m) == IsMarket(m) /\ \A side \in Sides : IsBook(m[side])

ASSUME SwapAssumption ==
  /\ NONE \notin Nat
  /\ AffiliateBps \in 0 .. 10000
  /\ DOMAIN PairStates = Pairs
  /\ \A p \in Pairs : \A m \in PairStates[p] : IsPair(m)
  /\ \A m \in PoolStates : IsMarket(m)
  /\ Balances \subseteq Nat /\ MaxHeight \in Nat
  /\ \A s \in Swaps : IsSwap(s)

VARIABLES
  swap,        \* the action stored in the node, or NONE
  configured,  \* history: the swap as it was configured
  pairs,       \* the state of each trading pair
  pool,        \* the state of the chain's pools
  balance,     \* the strategy's coins of the denom "in"
  height,
  message      \* the message under delivery, or NONE

vars == <<swap, configured, pairs, pool, balance, height, message>>

Idle == message = NONE

Smaller(a, b) == IF a < b THEN a ELSE b

Larger(a, b) == IF a < b THEN b ELSE a

-----------------------------------------------------------------------------
(* validate, with_affiliates *)

FinIsValid(route) ==
  /\ route.pair \in Pairs
  /\ {"in", "out"} \subseteq {PairDenoms[route.pair].base, PairDenoms[route.pair].quote}

ThorchainIsValid(route) ==
  /\ route.streaming_interval \in 1 .. 50 \cup {NONE}
  /\ route.max_streaming_quantity \in 1 .. 14400 \cup {NONE}

AdjustmentIsValid(adjustment) ==
  adjustment.kind = "linear" =>
    /\ adjustment.base > 0
    /\ adjustment.base_denom = "out"
    /\ adjustment.floor # NONE => adjustment.floor_denom = "in"

IsValid(s) ==
  /\ s.amount > 0
  /\ s.maximum_slippage_bps <= 10000
  /\ s.routes # <<>>
  /\ AdjustmentIsValid(s.adjustment)
  /\ \A i \in DOMAIN s.routes :
       IF s.routes[i].kind = "fin" THEN FinIsValid(s.routes[i])
                                   ELSE ThorchainIsValid(s.routes[i])

WithAffiliates(s) ==
  [s EXCEPT !.routes =
     [i \in DOMAIN s.routes |->
        IF s.routes[i].kind = "thorchain"
          THEN [s.routes[i] EXCEPT !.affiliate_bps = AffiliateBps]
          ELSE s.routes[i]]]

-----------------------------------------------------------------------------
(* The answers of the markets *)

\* What a market gives for an amount: at its rate, up to its depth.
Returned(market, amount) == MulFloor(Smaller(amount, market.depth), market.rate)

\* SwapQuoteRequest: what the chain is asked, and what its memo then says.
Request(route, amount) ==
  [amount   |-> amount,
   interval |-> IF route.streaming_interval = NONE THEN 3 ELSE route.streaming_interval,
   quantity |-> IF route.max_streaming_quantity = NONE THEN 0
                                                       ELSE route.max_streaming_quantity,
   bps      |-> IF route.affiliate_bps = NONE THEN 0 ELSE route.affiliate_bps]

\* The quote for a request, without the affiliate's part; none while trading is
\* halted.  The memo is that of the request, as the chain writes it now.
ThorchainQuote(request) ==
  IF pool.halted THEN {}
  ELSE LET out == Returned(pool, request.amount)
       IN  {[expected_amount_out       |-> out - DivCeil(out * request.bps, 10000),
             slippage_bps              |-> pool.slippage_bps,
             recommended_min_amount_in |-> pool.min_in,
             memo                      |-> [request |-> request, height |-> height]]}

Expected(route, amount) ==
  IF route.kind = "fin"
    THEN {Returned(pairs[route.pair], amount)}
    ELSE {q.expected_amount_out : q \in ThorchainQuote(Request(route, amount))}

-----------------------------------------------------------------------------
(* adjust *)

\* Slip: the coins to be swapped, there or not.
OfferedInFull(s) == s.amount

\* The coins there are of those to be swapped.
Offered(s) == Smaller(balance, s.amount)

Adjusted(amount, minimum) == [amount |-> amount, minimum |-> minimum]

AdjustFixed(s) ==
  Adjusted(Offered(s),
           MulFloor(s.minimum, FromRatio(Offered(s), s.amount)))

BasePrice(s) == FromRatio(s.amount, s.adjustment.base)

\* More the further the price is below the base price, less the further above.
ScaledAmount(s, expected) ==
  LET base    == BasePrice(s)
      current == FromRatio(Offered(s), expected)
      delta   == Over(IF base < current THEN current - base ELSE base - current, base)
      scaled  == Times(delta, s.adjustment.scalar)
  IN  MulFloor(Offered(s), IF current < base THEN UNIT + scaled
                                             ELSE Larger(UNIT - scaled, 0))

Floor(s) == IF s.adjustment.floor = NONE THEN 0 ELSE s.adjustment.floor

\* Slip: the minimum to receive stays while the amount to swap is scaled.
AdjustLinearOnce(s, expected) ==
  LET amount == Smaller(balance, Larger(ScaledAmount(s, expected), Floor(s)))
  IN  Adjusted(amount, s.minimum)

AdjustLinear(s, expected) ==
  LET amount == Smaller(balance, Larger(ScaledAmount(s, expected), Floor(s)))
  IN  Adjusted(amount, MulCeil(s.minimum, FromRatio(amount, s.amount)))

\* The return the price is computed from, if it is of any use.
Scaling(s, route) == Expected(route, s.amount) \ {0}

\* A base price that rounds to zero gives no amount: see Aborts.
Adjust(s, route) ==
  IF Offered(s) = 0 THEN {}
  ELSE IF s.adjustment.kind = "fixed" THEN {AdjustFixed(s)}
  ELSE {a \in {AdjustLinear(s, e) :
                 e \in IF BasePrice(s) > 0 THEN Scaling(s, route) ELSE {}} :
          a.amount > 0}

-----------------------------------------------------------------------------
(* validate_adjusted *)

\* The price of the denom swapped into, in the one swapped.
SpotPrice(route, mid) ==
  IF PairDenoms[route.pair].base = "in" THEN Over(UNIT, mid) ELSE mid

\* What the amount would give without slippage.
OptimalReturn(route, amount, expected, mid) ==
  Larger(expected, MulFloor(amount, Over(UNIT, SpotPrice(route, mid))))

SlippageBps(expected, optimal) == MulCeil(10000, UNIT - FromRatio(expected, optimal))

Executable(route, adjusted, expected) ==
  [route |-> route, amount |-> adjusted.amount, minimum |-> adjusted.minimum,
   expected |-> expected]

\* The returns a pair expects, where they are enough, with the optimal ones.
FinReturns(route, adjusted) ==
  {<<e, OptimalReturn(route, adjusted.amount, e, mid)>> :
     e \in {e \in Expected(route, adjusted.amount) : e >= adjusted.minimum},
     mid \in MidPrice(pairs[route.pair])}

ValidateFin(s, route, adjusted) ==
  {Executable(route, adjusted, r[1]) :
     r \in {r \in FinReturns(route, adjusted) :
              r[2] > 0 /\ SlippageBps(r[1], r[2]) <= s.maximum_slippage_bps}}

\* StreamingSwap: the quote remembered, for the message that will follow it.
Quoted(route, amount, quote) ==
  [route EXCEPT !.latest_swap =
     [amount |-> amount, expected |-> quote.expected_amount_out,
      starting_block |-> height + 1, memo |-> quote.memo]]

ValidateThorchain(s, route, adjusted) ==
  {Executable(Quoted(route, adjusted.amount, q), adjusted, q.expected_amount_out) :
     q \in {q \in ThorchainQuote(Request(route, adjusted.amount)) :
              /\ q.slippage_bps # NONE => q.slippage_bps <= s.maximum_slippage_bps
              /\ q.expected_amount_out >= adjusted.minimum
              /\ q.recommended_min_amount_in <= adjusted.amount}}

-----------------------------------------------------------------------------
(* best_quote, execute_unsafe *)

Quote(s, route) ==
  UNION {IF route.kind = "fin" THEN ValidateFin(s, route, a)
                               ELSE ValidateThorchain(s, route, a) :
           a \in Adjust(s, route)}

\* A price is compared with a base price of zero.
AdjustAborts(s, route) ==
  /\ Offered(s) > 0
  /\ s.adjustment.kind = "linear"
  /\ BasePrice(s) = 0
  /\ Scaling(s, route) # {}

\* A return is compared with an optimal one of no coins.
FinAborts(s, route) ==
  /\ route.kind = "fin"
  /\ \E a \in Adjust(s, route) : \E r \in FinReturns(route, a) : r[2] = 0

\* Both divide by zero: where an error would pass over the route, this undoes the
\* whole call.
Aborts(s) ==
  \E i \in DOMAIN s.routes :
    AdjustAborts(s, s.routes[i]) \/ FinAborts(s, s.routes[i])

\* The quote that gives most, the first of those that give the same.
BestQuote(s) ==
  LET quoted == UNION {{<<i, q>> : q \in {q \in Quote(s, s.routes[i]) : q.expected > 0}} :
                         i \in DOMAIN s.routes}
  IN  {best[2] : best \in
         {b \in quoted : \A o \in quoted : \/ o[2].expected < b[2].expected
                                           \/ o[2].expected = b[2].expected /\ o[1] >= b[1]}}

\* Slip: the deposit carries the memo that is stored already.
MessageAsStored(route, quote) ==
  LET latest(i) == swap.routes[i].latest_swap
      old == {i \in DOMAIN swap.routes : latest(i) # NONE}
  IN  [route |-> route, amount |-> quote.amount, min_return |-> quote.minimum,
       memo |-> IF route.kind = "fin" THEN NONE
                ELSE IF old = {} THEN route.latest_swap.memo
                ELSE latest(CHOOSE i \in old : TRUE).memo]

\* What the route sends: a swap of the pair, or a deposit with the memo cached.
MessageOf(route, quote) ==
  [route |-> route, amount |-> quote.amount, min_return |-> quote.minimum,
   memo |-> IF route.kind = "fin" THEN NONE ELSE route.latest_swap.memo]

\* Slip: the routes of any kind become the one quoted.
UpdatedRoutesOfAnyKind(routes, route) == [i \in DOMAIN routes |-> route]

\* The routes saved: each of the quoted one's kind is replaced by it.
UpdatedRoutes(routes, route) ==
  [i \in DOMAIN routes |-> IF routes[i].kind = route.kind THEN route ELSE routes[i]]

-----------------------------------------------------------------------------
(* The state machine *)

Init ==
  /\ swap = NONE
  /\ configured = NONE
  /\ pairs \in {m \in [Pairs -> UNION {PairStates[p] : p \in Pairs}] :
                 \A p \in Pairs : m[p] \in PairStates[p]}
  /\ pool \in PoolStates
  /\ balance = 0
  /\ height = 0
  /\ message = NONE

\* The node is initialised, for a new strategy or by an update, which may send
\* back the action as it is stored.
Configure ==
  /\ Idle
  /\ \E s \in Swaps \cup ({swap} \ {NONE}) :
       /\ IsValid(s)
       /\ swap' = WithAffiliates(s)
       /\ configured' = WithAffiliates(s)
  /\ UNCHANGED <<pairs, pool, balance, height, message>>

\* An execution without a quote is an error, which leaves the node as it is.
Execute ==
  /\ Idle
  /\ swap # NONE
  /\ ~Aborts(swap)
  /\ \E quote \in BestQuote(swap) :
       /\ swap' = [swap EXCEPT !.routes = UpdatedRoutes(@, quote.route)]
       /\ message' = MessageOf(quote.route, quote)
  /\ UNCHANGED <<configured, pairs, pool, balance, height>>

Deliver ==
  /\ ~Idle
  /\ balance' = balance - message.amount
  /\ message' = NONE
  /\ UNCHANGED <<swap, configured, pairs, pool, height>>

Bounce ==
  /\ ~Idle
  /\ message' = NONE
  /\ UNCHANGED <<swap, configured, pairs, pool, balance, height>>

\* Deposits, withdrawals, and the other nodes.
Transfer ==
  /\ Idle
  /\ balance' \in Balances
  /\ UNCHANGED <<swap, configured, pairs, pool, height, message>>

MarketMoves ==
  /\ Idle
  /\ \/ /\ \E p \in Pairs : \E state \in PairStates[p] :
             pairs' = [pairs EXCEPT ![p] = state]
        /\ UNCHANGED pool
     \/ pool' \in PoolStates /\ UNCHANGED pairs
  /\ UNCHANGED <<swap, configured, balance, height, message>>

NextBlock ==
  /\ Idle
  /\ height < MaxHeight
  /\ height' = height + 1
  /\ UNCHANGED <<swap, configured, pairs, pool, balance, message>>

Next ==
  \/ Configure
  \/ Execute
  \/ Deliver
  \/ Bounce
  \/ Transfer
  \/ MarketMoves
  \/ NextBlock

Spec == Init /\ [][Next]_vars

-----------------------------------------------------------------------------
(* Properties *)

\* The coins are never overdrawn, and what is stored is a swap that would be
\* accepted again as it is.
TypeOK ==
  /\ balance \in Nat
  /\ height \in 0 .. MaxHeight
  /\ swap # NONE => IsValid(swap) /\ WithAffiliates(swap) = swap
  /\ ~Idle => message.amount \in 1 .. balance

\* However the amount is adjusted, to the balance, to the price or to the floor,
\* the return expected of a swap when it is sent is no less for a coin than the
\* owner asked for in the configuration, but for what the roundings of adjust may
\* cost: two coins, and one more for each UNIT of the minimum.  (What a deposit
\* streamed by the chain returns in the end is the chain's matter.)
KeepsTheMinimumPrice ==
  ~Idle =>
    \A e \in Expected(message.route, message.amount) :
      (e + 2 + swap.minimum \div UNIT) * swap.amount >= swap.minimum * message.amount

Settings(route) == [route EXCEPT !.latest_swap = NONE]

\* Saving what an execution has cached changes nothing the owner configured, as
\* long as the swap has one route of each kind: routes are told apart by kind.
RoutesAreKept ==
  swap # NONE /\ IsInjective([i \in DOMAIN configured.routes |-> configured.routes[i].kind]) =>
    /\ DOMAIN swap.routes = DOMAIN configured.routes
    /\ \A i \in DOMAIN swap.routes :
         Settings(swap.routes[i]) = Settings(configured.routes[i])

\* A deposit carries the memo of a quote of this block, for just the coins it
\* sends and with the affiliate's points, and the node remembers that very swap.
DepositIsAsQuoted ==
  ~Idle /\ message.route.kind = "thorchain" =>
    \E i \in DOMAIN configured.routes :
      /\ message.memo.height = height
      /\ message.memo.request = Request(configured.routes[i], message.amount)
      /\ message.memo.request.bps = AffiliateBps
      /\ swap.routes[i].latest_swap.amount = message.amount
      /\ swap.routes[i].latest_swap.memo = message.memo

\* The tests of the linear adjustment: at a worse price than the base price, for
\* the amount configured and for what there is of it alike, less than that is
\* swapped.
WorsePriceSwapsLess ==
  ~Idle /\ swap.adjustment.kind = "linear" /\ swap.adjustment.floor = NONE =>
    LET Worse(amount) == \E e \in Expected(message.route, amount) :
                           e * swap.amount < swap.adjustment.base * amount
    IN  Worse(swap.amount) /\ Worse(Offered(swap)) => message.amount < Offered(swap)

Total(seq) == FoldLeft(+, 0, seq)

\* What the first n orders of a side come to.
ValueOfFirst(n, side, book) == Total([k \in 1 .. n |-> ValueOf(side, book[k])])

DepthOfFirst(n, side, book) == Total([k \in 1 .. n |-> DepthOf(side, book[k])])

\* How many orders are enough.
EnoughOrders(side, book) ==
  {n \in MIN_ORDERS .. Smaller(Len(book), MAX_ITERATIONS * LIMIT) :
     ValueOfFirst(n, side, book) >= MIN_VALUE}

\* A price is the average over the fewest orders that are enough of them and
\* worth enough, wherever the pages of the book begin; there is none without
\* them, or with an order without a price among them.
PriceRestsOnDepth ==
  \A p \in Pairs : \A side \in Sides :
    LET book == pairs[p][side]
    IN  SidePrice(side, book) =
          {Truncate(side, FromRatio(ValueOfFirst(n, side, book), DepthOfFirst(n, side, book))) :
             n \in {n \in EnoughOrders(side, book) :
                      /\ \A m \in EnoughOrders(side, book) : n <= m
                      /\ \A k \in 1 .. n : book[k].price > 0}}

=============================================================================
