------------------------------ MODULE SwapProofs ------------------------------
(***************************************************************************)
(* What a swap stores of its quotes is that and no more: the configuration *)
(* of its routes survives every execution, and a deposit carries the memo  *)
(* that was quoted for it.  Whatever the markets answer, and however the   *)
(* amounts are adjusted, no less is asked for a coin than was configured.  *)
(* And the price of a pair rests on as much of its book as it has to.      *)
(***************************************************************************)
EXTENDS Swap, FiniteSetTheorems, SequenceTheorems, WellFoundedInduction, TLAPS

-----------------------------------------------------------------------------
(* Where a quote comes from *)

\* What is known of an executable quote for a route: a pair leaves the route as
\* it is, the chain adds the quote it gave for just the coins to be swapped.
IsQuoteFor(q, route) ==
  \/ route.kind = "fin" /\ q.route = route
  \/ /\ route.kind # "fin"
     /\ \E offer \in ThorchainQuote(Request(route, q.amount)) :
          q.route = Quoted(route, q.amount, offer)

\* A quote is for the route it was asked of.
LEMMA QuoteIsForItsRoute ==
  ASSUME NEW s, NEW route, NEW q \in Quote(s, route)
  PROVE  IsQuoteFor(q, route)
<1>1. CASE route.kind = "fin"
  <2>1. PICK a \in Adjust(s, route) : q \in ValidateFin(s, route, a)
    BY <1>1 DEF Quote
  <2>2. q.route = route
    BY <2>1 DEF ValidateFin, Executable
  <2> QED BY <1>1, <2>2 DEF IsQuoteFor
<1>2. CASE route.kind # "fin"
  <2>1. PICK a \in Adjust(s, route) : q \in ValidateThorchain(s, route, a)
    BY <1>2 DEF Quote
  <2>2. PICK offer \in ThorchainQuote(Request(route, a.amount)) :
          q = Executable(Quoted(route, a.amount, offer), a, offer.expected_amount_out)
    BY <2>1 DEF ValidateThorchain
  <2>3. q.route = Quoted(route, a.amount, offer) /\ q.amount = a.amount
    BY <2>2 DEF Executable
  <2> QED BY <1>2, <2>3 DEF IsQuoteFor
<1> QED BY <1>1, <1>2

\* A quote is for the amount adjusted.
LEMMA QuoteIsOfTheAdjusted ==
  ASSUME NEW s, NEW route, NEW q \in Quote(s, route)
  PROVE  \E a \in Adjust(s, route) : q.amount = a.amount
<1>1. PICK a \in Adjust(s, route) :
        q \in ValidateFin(s, route, a) \/ q \in ValidateThorchain(s, route, a)
  BY DEF Quote
<1>2. q.amount = a.amount
  BY <1>1 DEF ValidateFin, ValidateThorchain, Executable
<1> QED BY <1>2

\* The best quote is one for a route of the swap.
LEMMA BestIsAQuote ==
  ASSUME NEW s, NEW q \in BestQuote(s)
  PROVE  \E i \in DOMAIN s.routes : q \in Quote(s, s.routes[i])
<1> DEFINE quoted == UNION {{<<i, o>> : o \in {o \in Quote(s, s.routes[i]) : o.expected > 0}} :
                              i \in DOMAIN s.routes}
<1>1. PICK best \in quoted : q = best[2]
  BY DEF BestQuote
<1>2. PICK i \in DOMAIN s.routes :
        best \in {<<i, o>> : o \in {o \in Quote(s, s.routes[i]) : o.expected > 0}}
  BY <1>1
<1>3. PICK o \in Quote(s, s.routes[i]) : best = <<i, o>>
  BY <1>2
<1> QED BY <1>1, <1>3

\* The memo of an offer is for the request and of this block.
LEMMA MemoOfTheOffer ==
  ASSUME NEW request, NEW offer \in ThorchainQuote(request)
  PROVE  offer.memo.request = request /\ offer.memo.height = height
BY DEF ThorchainQuote

\* Remembering a quote changes nothing else.
LEMMA QuotedKeepsSettings ==
  ASSUME NEW route, IsRoute(route), NEW amount, NEW offer
  PROVE  LET r == Quoted(route, amount, offer)
         IN  /\ IsRoute(r)
             /\ r.kind = route.kind
             /\ Settings(r) = Settings(route)
             /\ r.latest_swap.amount = amount
             /\ r.latest_swap.memo = offer.memo
BY DEF Quoted, IsRoute, Settings

-----------------------------------------------------------------------------
(* The invariant *)

\* Each route stored has the settings of one configured, of the same kind and in
\* place of one of that kind, and asks for the affiliate's points.
Kept ==
  /\ IsSwap(swap)
  /\ IsSwap(configured)
  /\ DOMAIN swap.routes = DOMAIN configured.routes
  /\ \A i \in DOMAIN swap.routes :
       /\ swap.routes[i].kind = configured.routes[i].kind
       /\ \E j \in DOMAIN configured.routes :
            /\ configured.routes[j].kind = configured.routes[i].kind
            /\ Settings(swap.routes[i]) = Settings(configured.routes[j])
       /\ configured.routes[i].kind = "thorchain" =>
            configured.routes[i].affiliate_bps = AffiliateBps

IInv ==
  \/ swap = NONE /\ Idle
  \/ Kept /\ DepositIsAsQuoted

\* With one route of each kind, one of its kind is itself.
LEMMA KeptMeansRoutesAreKept ==
  ASSUME Kept PROVE RoutesAreKept
<1> DEFINE kinds == [i \in DOMAIN configured.routes |-> configured.routes[i].kind]
<1>1. SUFFICES ASSUME IsInjective(kinds), NEW i \in DOMAIN swap.routes
               PROVE  Settings(swap.routes[i]) = Settings(configured.routes[i])
  BY DEF Kept, RoutesAreKept
<1>2. PICK j \in DOMAIN configured.routes :
        /\ configured.routes[j].kind = configured.routes[i].kind
        /\ Settings(swap.routes[i]) = Settings(configured.routes[j])
  BY DEF Kept
<1>3. i \in DOMAIN configured.routes
  BY DEF Kept
<1>4. j = i
  BY <1>1, <1>2, <1>3 DEF IsInjective
<1> QED BY <1>2, <1>4

-----------------------------------------------------------------------------
(* The steps *)

\* Other routes in place of those there are.
LEMMA RoutesReplaced ==
  ASSUME NEW s, IsSwap(s), NEW rs, DOMAIN rs = DOMAIN s.routes,
         rs = [i \in DOMAIN s.routes |-> rs[i]],
         \A i \in DOMAIN s.routes : IsRoute(rs[i])
  PROVE  LET t == [s EXCEPT !.routes = rs]
         IN  /\ IsSwap(t)
             /\ t.routes = rs
             /\ t.amount = s.amount /\ t.minimum = s.minimum
             /\ t.maximum_slippage_bps = s.maximum_slippage_bps
             /\ t.adjustment = s.adjustment
<1> DEFINE t == [s EXCEPT !.routes = rs]
           S == {s.routes[i] : i \in DOMAIN s.routes}
           R == {rs[i] : i \in DOMAIN rs}
<1>1. /\ t.routes = rs
      /\ t.adjustment = s.adjustment
      /\ t.amount = s.amount /\ t.minimum = s.minimum
      /\ t.maximum_slippage_bps = s.maximum_slippage_bps
      /\ t \in [amount : Nat, minimum : Nat, maximum_slippage_bps : Nat,
                adjustment : {t.adjustment}, routes : {t.routes}]
  BY DEF IsSwap
<1>2. PICK n \in Nat : DOMAIN rs = 1 .. n
  <2>1. s.routes \in Seq(S)
    BY DEF IsSwap
  <2> QED BY <2>1
<1>3. rs \in Seq(R)
  <2>1. rs \in [1 .. n -> R]
    BY <1>2
  <2> QED BY <1>2, <2>1
<1>4. \A i \in DOMAIN t.routes : IsRoute(t.routes[i])
  BY <1>1
<1>5. t.adjustment.kind = "linear" =>
       /\ {t.adjustment.base, t.adjustment.scalar} \subseteq Nat
       /\ t.adjustment.floor \in Nat \cup {NONE}
  BY <1>1 DEF IsSwap
<1> HIDE DEF t
<1>6. IsSwap(t)
  BY <1>1, <1>3, <1>4, <1>5 DEF IsSwap
<1> QED BY <1>1, <1>6 DEF t

\* The affiliate's points are added to a route and nothing else is changed.
LEMMA AffiliatesAdded ==
  ASSUME NEW s, IsSwap(s)
  PROVE  LET t == WithAffiliates(s)
         IN  /\ IsSwap(t)
             /\ DOMAIN t.routes = DOMAIN s.routes
             /\ t.amount = s.amount /\ t.minimum = s.minimum
             /\ t.maximum_slippage_bps = s.maximum_slippage_bps
             /\ t.adjustment = s.adjustment
             /\ \A i \in DOMAIN s.routes :
                  /\ t.routes[i].kind = s.routes[i].kind
                  /\ t.routes[i].pair = s.routes[i].pair
                  /\ t.routes[i].streaming_interval = s.routes[i].streaming_interval
                  /\ t.routes[i].max_streaming_quantity = s.routes[i].max_streaming_quantity
                  /\ t.routes[i].kind = "thorchain" => t.routes[i].affiliate_bps = AffiliateBps
<1> DEFINE Added(r) == IF r.kind = "thorchain" THEN [r EXCEPT !.affiliate_bps = AffiliateBps]
                                              ELSE r
           rs == [i \in DOMAIN s.routes |-> Added(s.routes[i])]
<1>1. ASSUME NEW r, IsRoute(r)
      PROVE  /\ IsRoute(Added(r))
             /\ Added(r).kind = r.kind
             /\ Added(r).pair = r.pair
             /\ Added(r).streaming_interval = r.streaming_interval
             /\ Added(r).max_streaming_quantity = r.max_streaming_quantity
             /\ r.kind = "thorchain" => Added(r).affiliate_bps = AffiliateBps
  BY <1>1 DEF IsRoute
<1>2. \A i \in DOMAIN s.routes : IsRoute(s.routes[i])
  BY DEF IsSwap
<1>3. WithAffiliates(s) = [s EXCEPT !.routes = rs]
  BY DEF WithAffiliates
<1> HIDE DEF Added
<1>4. /\ DOMAIN rs = DOMAIN s.routes
      /\ rs = [i \in DOMAIN s.routes |-> rs[i]]
      /\ \A i \in DOMAIN s.routes : rs[i] = Added(s.routes[i])
  OBVIOUS
<1> HIDE DEF rs
<1>5. \A i \in DOMAIN s.routes : IsRoute(rs[i])
  BY <1>1, <1>2, <1>4
<1> QED BY <1>1, <1>2, <1>3, <1>4, <1>5, RoutesReplaced

LEMMA Configured == IInv /\ Configure => IInv'
<1> SUFFICES ASSUME IInv, Configure PROVE IInv'
  OBVIOUS
<1>1. PICK s \in Swaps \cup ({swap} \ {NONE}) :
        swap' = WithAffiliates(s) /\ configured' = WithAffiliates(s)
  BY DEF Configure
<1>2. IsSwap(s)
  <2>1. CASE s \in Swaps
    BY <2>1, SwapAssumption
  <2>2. CASE s = swap /\ swap # NONE
    BY <2>2 DEF IInv, Kept
  <2> QED BY <2>1, <2>2
<1>3. Idle /\ UNCHANGED message
  BY DEF Configure
<1>4. Kept'
  BY <1>1, <1>2, AffiliatesAdded DEF Kept
<1>5. Idle'
  BY <1>3 DEF Idle
<1> QED BY <1>4, <1>5 DEF IInv, DepositIsAsQuoted

LEMMA PointsAreNumbers == AffiliateBps # NONE
<1>1. NONE \notin Nat
  BY SwapAssumption
<1>2. AffiliateBps \in Nat
  BY SwapAssumption
<1> QED BY <1>1, <1>2

\* An execution puts the quoted route in place of those of its kind.
LEMMA Executed == IInv /\ Execute => IInv'
<1> SUFFICES ASSUME IInv, Execute PROVE IInv'
  OBVIOUS
<1>1. PICK quote \in BestQuote(swap) :
        /\ swap' = [swap EXCEPT !.routes = UpdatedRoutes(@, quote.route)]
        /\ message' = MessageOf(quote.route, quote)
  BY DEF Execute
<1>2. PICK i \in DOMAIN swap.routes : IsQuoteFor(quote, swap.routes[i])
  BY <1>1, BestIsAQuote, QuoteIsForItsRoute
<1>3. Kept /\ UNCHANGED <<configured, height>>
  BY DEF Execute, IInv
<1> DEFINE route == quote.route
<1>4. IsRoute(swap.routes[i])
  BY <1>2, <1>3 DEF Kept, IsSwap
<1>5. /\ IsRoute(route)
      /\ route.kind = swap.routes[i].kind
      /\ Settings(route) = Settings(swap.routes[i])
  BY <1>2, <1>4, QuotedKeepsSettings DEF IsQuoteFor
<1> DEFINE routes == UpdatedRoutes(swap.routes, route)
<1>6. /\ DOMAIN routes = DOMAIN swap.routes
      /\ routes = [k \in DOMAIN swap.routes |-> routes[k]]
      /\ \A k \in DOMAIN swap.routes :
           routes[k] = IF swap.routes[k].kind = route.kind THEN route ELSE swap.routes[k]
  BY DEF UpdatedRoutes
<1> HIDE DEF routes
<1>7. /\ IsSwap(swap')
      /\ swap'.routes = routes
  <2>1. \A k \in DOMAIN swap.routes : IsRoute(routes[k])
    BY <1>3, <1>5, <1>6 DEF Kept, IsSwap
  <2>2. swap' = [swap EXCEPT !.routes = routes]
    BY <1>1 DEF routes
  <2>3. IsSwap(swap)
    BY <1>3 DEF Kept
  <2> QED BY <1>6, <2>1, <2>2, <2>3, RoutesReplaced
<1>8. PICK j \in DOMAIN configured.routes :
        /\ configured.routes[j].kind = route.kind
        /\ Settings(route) = Settings(configured.routes[j])
  BY <1>2, <1>3, <1>5 DEF Kept
<1>9. Kept'
  <2>1. ASSUME NEW k \in DOMAIN swap'.routes
        PROVE  /\ swap'.routes[k].kind = configured.routes[k].kind
               /\ \E l \in DOMAIN configured.routes :
                    /\ configured.routes[l].kind = configured.routes[k].kind
                    /\ Settings(swap'.routes[k]) = Settings(configured.routes[l])
    <3>1. k \in DOMAIN swap.routes /\ swap.routes[k].kind = configured.routes[k].kind
      BY <1>3, <1>6, <1>7 DEF Kept
    <3>2. CASE swap.routes[k].kind = route.kind
      BY <1>6, <1>7, <1>8, <3>1, <3>2
    <3>3. CASE swap.routes[k].kind # route.kind
      <4>1. swap'.routes[k] = swap.routes[k]
        BY <1>6, <1>7, <3>1, <3>3
      <4> QED BY <1>3, <3>1, <4>1 DEF Kept
    <3> QED BY <3>2, <3>3
  <2> QED BY <1>3, <1>6, <1>7, <2>1 DEF Kept
<1>10. DepositIsAsQuoted'
  <2>1. SUFFICES ASSUME message'.route.kind = "thorchain"
                 PROVE  \E k \in DOMAIN configured.routes :
                          /\ message'.memo.height = height
                          /\ message'.memo.request =
                               Request(configured.routes[k], message'.amount)
                          /\ message'.memo.request.bps = AffiliateBps
                          /\ swap'.routes[k].latest_swap.amount = message'.amount
                          /\ swap'.routes[k].latest_swap.memo = message'.memo
    BY <1>3 DEF DepositIsAsQuoted, Request
  <2>2. message'.route = route /\ message'.amount = quote.amount
    BY <1>1 DEF MessageOf
  <2>3. route.kind = "thorchain" /\ message'.memo = route.latest_swap.memo
    BY <1>1, <2>1, <2>2 DEF MessageOf
  <2>4. PICK offer \in ThorchainQuote(Request(swap.routes[i], quote.amount)) :
          route = Quoted(swap.routes[i], quote.amount, offer)
    BY <1>2, <1>5, <2>3 DEF IsQuoteFor
  <2>5. /\ route.latest_swap.amount = quote.amount
        /\ route.latest_swap.memo = offer.memo
    BY <1>4, <2>4, QuotedKeepsSettings
  <2>6. /\ message'.memo.height = height
        /\ message'.memo.request = Request(swap.routes[i], quote.amount)
    BY <2>3, <2>4, <2>5, MemoOfTheOffer
  <2>7. swap'.routes[j] = route
    BY <1>3, <1>6, <1>7, <1>8 DEF Kept
  <2>8. IsRoute(configured.routes[j])
    BY <1>3, <1>8 DEF Kept, IsSwap
  <2>9. Request(swap.routes[i], quote.amount) = Request(configured.routes[j], quote.amount)
    <3>1. Settings(swap.routes[i]) = Settings(configured.routes[j])
      BY <1>5, <1>8
    <3>2. /\ swap.routes[i].streaming_interval = configured.routes[j].streaming_interval
          /\ swap.routes[i].max_streaming_quantity =
               configured.routes[j].max_streaming_quantity
          /\ swap.routes[i].affiliate_bps = configured.routes[j].affiliate_bps
      BY <1>4, <2>8, <3>1 DEF Settings, IsRoute
    <3> QED BY <3>2 DEF Request
  <2>10. configured.routes[j].affiliate_bps = AffiliateBps
    BY <1>3, <1>8, <2>3 DEF Kept
  <2>11. message'.memo.request.bps = AffiliateBps
    <3>1. Request(configured.routes[j], quote.amount).bps = AffiliateBps
      BY <2>10, PointsAreNumbers DEF Request
    <3> QED BY <2>6, <2>9, <3>1
  <2> QED BY <1>8, <2>2, <2>3, <2>5, <2>6, <2>7, <2>9, <2>11
<1> QED BY <1>9, <1>10 DEF IInv

LEMMA InvInit == Init => IInv
BY DEF Init, IInv, Idle

LEMMA InvStep == IInv /\ [Next]_vars => IInv'
<1> SUFFICES ASSUME IInv, [Next]_vars PROVE IInv'
  OBVIOUS
<1>1. CASE Configure
  BY <1>1, Configured
<1>2. CASE Execute
  BY <1>2, Executed
\* A message that has been delivered or refused asks nothing of the node.
<1>3. CASE Deliver \/ Bounce
  <2>1. Idle' /\ UNCHANGED <<swap, configured, height>>
    BY <1>3 DEF Deliver, Bounce, Idle
  <2> QED BY <2>1 DEF IInv, Kept, DepositIsAsQuoted, Idle
<1>4. CASE Transfer \/ MarketMoves \/ NextBlock
  <2>1. Idle /\ UNCHANGED <<swap, configured, message>>
    BY <1>4 DEF Transfer, MarketMoves, NextBlock
  <2> QED BY <2>1 DEF IInv, Kept, DepositIsAsQuoted, Idle
<1>5. CASE UNCHANGED vars
  BY <1>5 DEF vars, IInv, Kept, DepositIsAsQuoted, Idle
<1> QED BY <1>1, <1>2, <1>3, <1>4, <1>5 DEF Next

LEMMA InvariantHolds == Spec => []IInv
BY InvInit, InvStep, PTL DEF Spec

-----------------------------------------------------------------------------
(* Amounts *)

LEMMA Numbers ==
  /\ UNIT \in Nat \ {0}
  /\ AffiliateBps \in 0 .. 10000
  /\ MaxHeight \in Nat
  /\ Balances \subseteq Nat
BY OrderBookAssumption, SwapAssumption

LEMMA Products ==
  /\ \A a, b \in Nat : a * b \in Nat
  /\ \A a, b \in Int : a * b \in Int
  /\ \A a \in Nat : \A b \in Nat \ {0} : a \div b \in Nat
  /\ \A a \in Int : \A b \in Nat \ {0} : a \div b \in Int
OBVIOUS

LEMMA AmountsAreNumbers ==
  /\ \A a, b \in Nat : MulFloor(a, b) \in Nat
  /\ \A a, b \in Int : MulFloor(a, b) \in Int
  /\ \A a \in Nat : \A b \in Nat \ {0} : FromRatio(a, b) \in Nat /\ Over(a, b) \in Nat
  /\ \A a, b \in Nat : Times(a, b) \in Nat
BY Numbers, Products DEF MulFloor, FromRatio, Over, Times

LEMMA MarketReturns ==
  ASSUME NEW m, IsMarket(m), NEW amount \in Nat
  PROVE  Returned(m, amount) \in Nat
<1>1. Smaller(amount, m.depth) \in Nat
  BY DEF Smaller, IsMarket
<1> QED BY <1>1, AmountsAreNumbers DEF Returned, IsMarket

\* What is left of it without the affiliate's part.
Left(out, bps) == out - DivCeil(out * bps, 10000)

LEMMA LessOfIt ==
  ASSUME NEW a \in Nat, NEW b \in 0 .. 10000
  PROVE  a * b \in Nat /\ a * b <= a * 10000
<1>1. a * b \in Nat
  OBVIOUS
<1>2. a * b <= a * 10000
  OBVIOUS
<1> QED BY <1>1, <1>2

IsBps(bps) == bps \in 0 .. 10000

LEMMA PartIsNoMore ==
  ASSUME NEW out \in Nat, NEW bps, IsBps(bps)
  PROVE  Left(out, bps) \in Nat
<1> DEFINE x == out * bps
<1>1. x \in Nat /\ x <= out * 10000
  BY LessOfIt DEF IsBps
<1>2. Left(out, bps) = out - DivCeil(x, 10000)
  BY DEF Left
<1> HIDE DEF x
<1>3. DivCeil(x, 10000) \in 0 .. out
  BY <1>1 DEF DivCeil
<1> QED BY <1>2, <1>3

-----------------------------------------------------------------------------
(* Types *)

\* What is stored would be accepted again, and can be scaled by its price.
Accepted(s) ==
  /\ IsSwap(s)
  /\ IsValid(s)
  /\ \A i \in DOMAIN s.routes :
       s.routes[i].kind = "thorchain" => s.routes[i].affiliate_bps = AffiliateBps

MarketsAreTyped ==
  /\ DOMAIN pairs = Pairs /\ pairs = [p \in Pairs |-> pairs[p]]
  /\ \A p \in Pairs : IsPair(pairs[p])
  /\ IsMarket(pool)

Typed ==
  /\ balance \in Nat
  /\ height \in 0 .. MaxHeight
  /\ MarketsAreTyped
  /\ swap # NONE => Accepted(swap)
  /\ ~Idle => message.amount \in 1 .. balance

\* What a route expects to return is a number.
LEMMA ExpectedIsNumber ==
  ASSUME MarketsAreTyped, NEW s, Accepted(s), NEW i \in DOMAIN s.routes,
         NEW amount \in Nat, NEW e \in Expected(s.routes[i], amount)
  PROVE  e \in Nat
<1> DEFINE route == s.routes[i]
           request == Request(route, amount)
<1>1. IsRoute(route) /\ (route.kind = "fin" => route.pair \in Pairs)
  BY DEF Accepted, IsSwap, IsValid, FinIsValid
<1>2. CASE route.kind = "fin"
  <2>1. e = Returned(pairs[route.pair], amount)
    BY <1>2 DEF Expected
  <2> QED BY <1>1, <1>2, <2>1, MarketReturns DEF MarketsAreTyped, IsPair
<1>3. CASE route.kind # "fin"
  <2>1. PICK q \in ThorchainQuote(request) : e = q.expected_amount_out
    BY <1>3 DEF Expected
  <2>2. e = Returned(pool, amount) - DivCeil(Returned(pool, amount) * request.bps, 10000)
    BY <2>1 DEF ThorchainQuote, Request
  <2>3. route.kind = "thorchain"
    BY <1>1, <1>3 DEF IsRoute
  <2>4. request.bps = AffiliateBps
    BY <2>3, PointsAreNumbers DEF Accepted, Request
  <2>5. Returned(pool, amount) \in Nat
    BY MarketReturns DEF MarketsAreTyped, IsPair
  <2>6. e = Left(Returned(pool, amount), AffiliateBps)
    BY <2>2, <2>4 DEF Left
  <2>7. Left(Returned(pool, amount), AffiliateBps) \in Nat
    <3>1. IsBps(AffiliateBps)
      BY Numbers DEF IsBps
    <3> QED BY <2>5, <3>1, PartIsNoMore, Zenon
  <2> QED BY <2>6, <2>7, Zenon
<1> QED BY <1>2, <1>3

\* However far the price is from the base price.
LEMMA ScaledIsNumber ==
  ASSUME NEW s, Accepted(s), s.adjustment.kind = "linear", BasePrice(s) > 0,
         balance \in Nat, NEW e \in Nat \ {0}
  PROVE  ScaledAmount(s, e) \in Int
<1> DEFINE base    == BasePrice(s)
           current == FromRatio(Offered(s), e)
           delta   == Over(IF base < current THEN current - base ELSE base - current, base)
           scaled  == Times(delta, s.adjustment.scalar)
<1>1. /\ s.amount \in Nat /\ s.adjustment.base \in Nat \ {0}
      /\ s.adjustment.scalar \in Nat
  BY DEF Accepted, IsSwap, IsValid, AdjustmentIsValid
<1>2. Offered(s) \in Nat
  BY <1>1 DEF Offered, Smaller
<1>3. base \in Nat /\ base > 0 /\ current \in Nat
  BY <1>1, <1>2, AmountsAreNumbers DEF BasePrice
<1> HIDE DEF base, current
<1>4. (IF base < current THEN current - base ELSE base - current) \in Nat
  BY <1>3
<1>5. delta \in Nat
  <2> DEFINE far == IF base < current THEN current - base ELSE base - current
  <2>1. far \in Nat /\ base \in Nat \ {0}
    BY <1>3, <1>4
  <2> HIDE DEF far
  <2>2. Over(far, base) \in Nat
    BY <2>1, AmountsAreNumbers
  <2> QED BY <2>2 DEF far
<1> HIDE DEF delta
<1>6. scaled \in Nat
  BY <1>1, <1>5, AmountsAreNumbers
<1> HIDE DEF scaled
<1> DEFINE factor == IF current < base THEN UNIT + scaled ELSE Larger(UNIT - scaled, 0)
<1>7. factor \in Int
  BY <1>3, <1>6, Numbers DEF Larger
<1>8. ScaledAmount(s, e) = MulFloor(Offered(s), factor)
  BY DEF ScaledAmount, base, current, delta, scaled
<1> HIDE DEF factor
<1> QED BY <1>2, <1>7, <1>8, AmountsAreNumbers

\* What is adjusted is at least a coin and no more than there is.
LEMMA AdjustedIsThere ==
  ASSUME MarketsAreTyped, balance \in Nat, NEW s, Accepted(s),
         NEW i \in DOMAIN s.routes, NEW a \in Adjust(s, s.routes[i])
  PROVE  a.amount \in 1 .. balance
<1>1. s.amount \in Nat /\ s.amount > 0
  BY DEF Accepted, IsSwap, IsValid
<1>2. Offered(s) \in 0 .. balance /\ Offered(s) # 0
  <2>1. Offered(s) # 0
    BY DEF Adjust
  <2>2. Offered(s) \in 0 .. balance
    BY <1>1 DEF Offered, Smaller
  <2> QED BY <2>1, <2>2
<1>3. CASE s.adjustment.kind = "fixed"
  <2>1. a = AdjustFixed(s)
    BY <1>2, <1>3 DEF Adjust
  <2> QED BY <1>2, <2>1 DEF AdjustFixed, Adjusted
<1>4. CASE s.adjustment.kind # "fixed"
  <2>1. s.adjustment.kind = "linear"
    BY <1>4 DEF Accepted, IsSwap
  <2>2. PICK e \in Expected(s.routes[i], s.amount) \ {0} :
          a = AdjustLinear(s, e) /\ a.amount > 0 /\ BasePrice(s) > 0
    BY <1>2, <1>4, <2>1 DEF Adjust, Scaling
  <2>3. ScaledAmount(s, e) \in Int
    BY <1>1, <2>1, <2>2, ExpectedIsNumber, ScaledIsNumber
  <2>4. Floor(s) \in Nat
    BY <2>1 DEF Floor, Accepted, IsSwap
  <2>5. a.amount = Smaller(balance, Larger(ScaledAmount(s, e), Floor(s)))
    BY <2>2 DEF AdjustLinear, Adjusted
  <2> QED BY <2>2, <2>3, <2>4, <2>5 DEF Smaller, Larger
<1> QED BY <1>3, <1>4

\* Whether a swap is valid does not depend on what its routes have cached.
LEMMA ValidAlike ==
  ASSUME NEW s, NEW t, IsSwap(s), IsSwap(t), IsValid(s),
         t.amount = s.amount, t.maximum_slippage_bps = s.maximum_slippage_bps,
         t.adjustment = s.adjustment, DOMAIN t.routes = DOMAIN s.routes,
         \A k \in DOMAIN t.routes : \E i \in DOMAIN s.routes :
           /\ t.routes[k].kind = s.routes[i].kind
           /\ t.routes[k].pair = s.routes[i].pair
           /\ t.routes[k].streaming_interval = s.routes[i].streaming_interval
           /\ t.routes[k].max_streaming_quantity = s.routes[i].max_streaming_quantity
  PROVE  IsValid(t)
<1>1. t.routes # <<>>
  BY DEF IsSwap, IsValid
<1>2. ASSUME NEW k \in DOMAIN t.routes
      PROVE  IF t.routes[k].kind = "fin" THEN FinIsValid(t.routes[k])
                                         ELSE ThorchainIsValid(t.routes[k])
  <2>1. PICK i \in DOMAIN s.routes :
           /\ t.routes[k].kind = s.routes[i].kind
           /\ t.routes[k].pair = s.routes[i].pair
           /\ t.routes[k].streaming_interval = s.routes[i].streaming_interval
           /\ t.routes[k].max_streaming_quantity = s.routes[i].max_streaming_quantity
    OBVIOUS
  <2>2. IF s.routes[i].kind = "fin" THEN FinIsValid(s.routes[i])
                                    ELSE ThorchainIsValid(s.routes[i])
    BY DEF IsValid
  <2>3. FinIsValid(t.routes[k]) <=> FinIsValid(s.routes[i])
    BY <2>1 DEF FinIsValid
  <2>4. ThorchainIsValid(t.routes[k]) <=> ThorchainIsValid(s.routes[i])
    BY <2>1 DEF ThorchainIsValid
  <2> QED BY <2>1, <2>2, <2>3, <2>4
<1>3. t.amount > 0 /\ t.maximum_slippage_bps <= 10000 /\ AdjustmentIsValid(t.adjustment)
  BY DEF IsValid
<1> QED BY <1>1, <1>2, <1>3 DEF IsValid

\* A swap stored can be configured again as it is.
LEMMA AcceptedAgain ==
  ASSUME NEW s, Accepted(s)
  PROVE  WithAffiliates(s) = s
<1> DEFINE Added(r) == IF r.kind = "thorchain" THEN [r EXCEPT !.affiliate_bps = AffiliateBps]
                                              ELSE r
<1>1. ASSUME NEW i \in DOMAIN s.routes
      PROVE  Added(s.routes[i]) = s.routes[i]
  <2>1. IsRoute(s.routes[i])
    BY DEF Accepted, IsSwap
  <2>2. CASE s.routes[i].kind = "thorchain"
    <3>1. s.routes[i].affiliate_bps = AffiliateBps
      BY <2>2 DEF Accepted
    <3>2. ASSUME NEW r, IsRoute(r) PROVE [r EXCEPT !.affiliate_bps = r.affiliate_bps] = r
      BY <3>2 DEF IsRoute
    <3>3. [s.routes[i] EXCEPT !.affiliate_bps = AffiliateBps] = s.routes[i]
      BY <2>1, <3>1, <3>2
    <3> QED BY <2>2, <3>3
  <2>3. CASE s.routes[i].kind # "thorchain"
    BY <2>3
  <2> QED BY <2>2, <2>3
<1>2. WithAffiliates(s) = [s EXCEPT !.routes = [i \in DOMAIN s.routes |-> Added(s.routes[i])]]
  BY DEF WithAffiliates
<1> HIDE DEF Added
<1>3. [i \in DOMAIN s.routes |-> Added(s.routes[i])] = [i \in DOMAIN s.routes |-> s.routes[i]]
  BY <1>1
<1>4. s.routes = [i \in DOMAIN s.routes |-> s.routes[i]]
  BY DEF Accepted, IsSwap
<1>5. WithAffiliates(s) = [s EXCEPT !.routes = s.routes]
  BY <1>2, <1>3, <1>4
<1> QED BY <1>5 DEF Accepted, IsSwap

\* A configuration that is accepted is stored with the affiliate's points.
LEMMA TypedConfigure == Typed /\ Configure => Typed'
<1> SUFFICES ASSUME Typed, Configure PROVE Typed'
  OBVIOUS
<1>1. PICK s \in Swaps \cup ({swap} \ {NONE}) :
        IsValid(s) /\ swap' = WithAffiliates(s)
  BY DEF Configure
<1>2. IsSwap(s)
  <2>1. CASE s \in Swaps
    BY <2>1, SwapAssumption
  <2>2. CASE s = swap /\ swap # NONE
    BY <2>2 DEF Typed, Accepted
  <2> QED BY <2>1, <2>2
<1> DEFINE t == WithAffiliates(s)
<1>3. /\ IsSwap(t)
      /\ DOMAIN t.routes = DOMAIN s.routes
      /\ t.amount = s.amount
      /\ t.maximum_slippage_bps = s.maximum_slippage_bps
      /\ t.adjustment = s.adjustment
      /\ \A i \in DOMAIN s.routes :
           /\ t.routes[i].kind = s.routes[i].kind
           /\ t.routes[i].pair = s.routes[i].pair
           /\ t.routes[i].streaming_interval = s.routes[i].streaming_interval
           /\ t.routes[i].max_streaming_quantity = s.routes[i].max_streaming_quantity
           /\ t.routes[i].kind = "thorchain" => t.routes[i].affiliate_bps = AffiliateBps
  BY <1>2, AffiliatesAdded
<1> HIDE DEF t
<1>4. IsValid(t)
  BY <1>1, <1>2, <1>3, ValidAlike
<1>5. Accepted(t)
  BY <1>2, <1>3, <1>4 DEF Accepted
<1>6. swap' = t /\ Idle' /\ UNCHANGED <<pairs, pool, balance, height>>
  BY <1>1 DEF Configure, Idle, t
<1> QED BY <1>5, <1>6 DEF Typed, MarketsAreTyped

\* An execution leaves what was accepted and sends what there is.
LEMMA TypedExecute == Typed /\ Execute => Typed'
<1> SUFFICES ASSUME Typed, Execute PROVE Typed'
  OBVIOUS
<1>1. PICK quote \in BestQuote(swap) :
        /\ swap' = [swap EXCEPT !.routes = UpdatedRoutes(@, quote.route)]
        /\ message' = MessageOf(quote.route, quote)
  BY DEF Execute
<1>2. PICK i \in DOMAIN swap.routes : quote \in Quote(swap, swap.routes[i])
  BY <1>1, BestIsAQuote
<1>3. Accepted(swap) /\ UNCHANGED <<pairs, pool, balance, height>>
  BY DEF Execute, Typed
<1>4. IsRoute(swap.routes[i])
  BY <1>2, <1>3 DEF Accepted, IsSwap
<1> DEFINE route == quote.route
           routes == UpdatedRoutes(swap.routes, route)
<1>5. IsRoute(route) /\ Settings(route) = Settings(swap.routes[i])
  BY <1>2, <1>4, QuoteIsForItsRoute, QuotedKeepsSettings DEF IsQuoteFor
<1>6. /\ route.kind = swap.routes[i].kind
      /\ route.pair = swap.routes[i].pair
      /\ route.streaming_interval = swap.routes[i].streaming_interval
      /\ route.max_streaming_quantity = swap.routes[i].max_streaming_quantity
      /\ route.affiliate_bps = swap.routes[i].affiliate_bps
  BY <1>4, <1>5 DEF Settings, IsRoute
<1>7. /\ DOMAIN routes = DOMAIN swap.routes
      /\ routes = [k \in DOMAIN swap.routes |-> routes[k]]
      /\ \A k \in DOMAIN swap.routes : routes[k] \in {route, swap.routes[k]}
  BY DEF UpdatedRoutes
<1>8. swap' = [swap EXCEPT !.routes = routes]
  BY <1>1
<1> HIDE DEF routes, route
<1>9. IsSwap(swap)
  BY <1>3 DEF Accepted
<1>10. \A k \in DOMAIN swap.routes : IsRoute(routes[k])
  BY <1>5, <1>7, <1>9 DEF IsSwap
<1>11. /\ IsSwap(swap')
       /\ swap'.routes = routes
       /\ swap'.amount = swap.amount
       /\ swap'.maximum_slippage_bps = swap.maximum_slippage_bps
       /\ swap'.adjustment = swap.adjustment
  BY <1>7, <1>8, <1>9, <1>10, RoutesReplaced
<1>12. \A k \in DOMAIN swap'.routes : \E j \in DOMAIN swap.routes :
         /\ swap'.routes[k].kind = swap.routes[j].kind
         /\ swap'.routes[k].pair = swap.routes[j].pair
         /\ swap'.routes[k].streaming_interval = swap.routes[j].streaming_interval
         /\ swap'.routes[k].max_streaming_quantity = swap.routes[j].max_streaming_quantity
         /\ swap'.routes[k].affiliate_bps = swap.routes[j].affiliate_bps
  BY <1>2, <1>6, <1>7, <1>11
<1>13. IsValid(swap')
  <2>1. IsValid(swap) /\ DOMAIN swap'.routes = DOMAIN swap.routes
    BY <1>3, <1>7, <1>11 DEF Accepted
  <2> QED BY <1>9, <1>11, <1>12, <2>1, ValidAlike
<1>14. Accepted(swap')
  BY <1>3, <1>11, <1>12, <1>13 DEF Accepted
<1>15. message'.amount \in 1 .. balance
  <2>1. message'.amount = quote.amount
    BY <1>1 DEF MessageOf
  <2>2. PICK a \in Adjust(swap, swap.routes[i]) : quote.amount = a.amount
    BY <1>2, QuoteIsOfTheAdjusted
  <2>3. a.amount \in 1 .. balance
    BY <1>2, <1>3, <2>2, AdjustedIsThere DEF Typed
  <2> QED BY <2>1, <2>2, <2>3
<1> QED BY <1>3, <1>14, <1>15 DEF Typed, MarketsAreTyped

LEMMA TypedInit == Init => Typed
<1> SUFFICES ASSUME Init PROVE Typed
  OBVIOUS
<1>1. MarketsAreTyped
  BY SwapAssumption DEF Init, MarketsAreTyped
<1> QED BY <1>1, Numbers DEF Init, Typed, Idle

LEMMA TypedStep == Typed /\ [Next]_vars => Typed'
<1> SUFFICES ASSUME Typed, [Next]_vars PROVE Typed'
  OBVIOUS
<1>1. CASE Configure
  BY <1>1, TypedConfigure
<1>2. CASE Execute
  BY <1>2, TypedExecute
<1>3. CASE Deliver
  BY <1>3 DEF Deliver, Typed, Idle, MarketsAreTyped
<1>4. CASE Bounce
  BY <1>4 DEF Bounce, Typed, Idle, MarketsAreTyped
<1>5. CASE Transfer
  BY <1>5, Numbers DEF Transfer, Typed, Idle, MarketsAreTyped
<1>6. CASE MarketMoves
  <2>1. MarketsAreTyped'
    BY <1>6, SwapAssumption DEF MarketMoves, Typed, MarketsAreTyped
  <2> QED BY <1>6, <2>1 DEF MarketMoves, Typed, Idle
<1>7. CASE NextBlock
  BY <1>7, Numbers DEF NextBlock, Typed, Idle, MarketsAreTyped
<1>8. CASE UNCHANGED vars
  BY <1>8 DEF vars, Typed, Idle, MarketsAreTyped
<1> QED BY <1>1, <1>2, <1>3, <1>4, <1>5, <1>6, <1>7, <1>8 DEF Next

-----------------------------------------------------------------------------
(* The theorems *)

\* No swap and no deposit is of more coins than there are, for any price and any
\* adjustment, and the action stored would be accepted again as it is.
THEOREM TypeCorrect == Spec => []TypeOK
<1>1. Spec => []Typed
  BY TypedInit, TypedStep, PTL DEF Spec
<1>2. Typed => TypeOK
  BY AcceptedAgain DEF Typed, TypeOK, Accepted
<1> QED BY <1>1, <1>2, PTL

\* Saving what executions have cached leaves the owner's settings as configured,
\* in a swap with one route of each kind: execute_unsafe tells routes apart by it.
THEOREM ConfigurationSurvives == Spec => []RoutesAreKept
<1>1. ASSUME IInv PROVE RoutesAreKept
  BY <1>1, KeptMeansRoutesAreKept DEF IInv, RoutesAreKept
<1> QED BY <1>1, InvariantHolds, PTL

\* The memo of a deposit is that of a quote of this block for the coins sent, with
\* the affiliate's points, and is the one the node has just remembered.
THEOREM DepositsCarryTheirQuote == Spec => []DepositIsAsQuoted
<1>1. ASSUME IInv PROVE DepositIsAsQuoted
  BY <1>1 DEF IInv, DepositIsAsQuoted, Idle
<1> QED BY <1>1, InvariantHolds, PTL

-----------------------------------------------------------------------------
(* The minimum price *)

\* Multiplication by a number keeps an order, and by a positive one reflects it.
LEMMA Multiplied ==
  ASSUME NEW x \in Int, NEW y \in Int, NEW u \in Nat
  PROVE  /\ x <= y => x * u <= y * u
         /\ u > 0 /\ x * u <= y * u => x <= y
BY Z3

\* A ratio that is rounded down, and a minimum that is rounded after it: what the
\* minimum lacks of its part.
LEMMA RoundedTwice ==
  ASSUME NEW a \in Nat, NEW A \in Nat \ {0}, NEW M \in Nat, NEW U \in Nat \ {0},
         NEW r \in Nat, NEW m \in Nat, NEW k \in Nat,
         a * U <= (r + 1) * A, M * r <= (m + 1) * U, M <= (k + 1) * U
  PROVE  (m + 2 + k) * A >= M * a
<1>1. (a * U) * M <= ((r + 1) * A) * M
  BY Multiplied
<1>2. (M * r) * A <= ((m + 1) * U) * A
  BY Multiplied
<1>3. M * A <= ((k + 1) * U) * A
  BY Multiplied
<1>4. (a * U) * M = (M * a) * U
  BY Z3
<1>5. ((r + 1) * A) * M = (M * r) * A + M * A
  BY Z3
<1>6. ((m + 1) * U) * A + ((k + 1) * U) * A = ((m + 2 + k) * A) * U
  BY Z3
<1> DEFINE x == M * a
           y == (m + 2 + k) * A
<1>7. x \in Int /\ y \in Int
  OBVIOUS
<1>8. x * U <= y * U
  <2>1. /\ (a * U) * M \in Int /\ ((r + 1) * A) * M \in Int
        /\ (M * r) * A \in Int /\ M * A \in Int
        /\ ((m + 1) * U) * A \in Int /\ ((k + 1) * U) * A \in Int
    OBVIOUS
  <2> QED BY <1>1, <1>2, <1>3, <1>4, <1>5, <1>6, <2>1
<1> HIDE DEF x, y
<1>9. x <= y
  BY <1>7, <1>8, Multiplied
<1> QED BY <1>7, <1>9 DEF x, y

\* What a division leaves is less than one part.
LEMMA Divided ==
  ASSUME NEW x \in Nat, NEW y \in Nat \ {0}
  PROVE  /\ x \div y \in Nat
         /\ (x \div y) * y <= x
         /\ x <= ((x \div y) + 1) * y
         /\ DivCeil(x, y) \in Nat
         /\ x <= DivCeil(x, y) * y
<1> DEFINE q == x \div y
           c == DivCeil(x, y)
<1>1. q \in Nat /\ q * y <= x /\ x < q * y + y
  BY Z3
<1>2. c \in Nat /\ c * y <= x + y - 1 /\ x + y - 1 < c * y + y
  BY Z3 DEF DivCeil
<1> HIDE DEF q, c
<1>3. (q + 1) * y = q * y + y
  BY <1>1, Z3
<1>4. x <= c * y
  <2>1. c * y \in Int
    BY <1>2
  <2> QED BY <1>2, <2>1
<1>5. q * y \in Int
  BY <1>1
<1>6. x <= (q + 1) * y
  BY <1>1, <1>3, <1>5
<1>7. q \in Nat /\ q * y <= x /\ x <= (q + 1) * y /\ c \in Nat /\ x <= c * y
  BY <1>1, <1>2, <1>4, <1>6
<1> QED BY <1>7 DEF q, c

\* The part of the minimum that is asked for a part of the amount, rounded down as
\* adjust does for a fixed amount or up as for a linear one.
LEMMA MinimumOfAPart ==
  ASSUME NEW a \in Nat, NEW A \in Nat \ {0}, NEW M \in Nat, NEW m,
         m \in {MulFloor(M, FromRatio(a, A)), MulCeil(M, FromRatio(a, A))}
  PROVE  m \in Nat /\ (m + 2 + M \div UNIT) * A >= M * a
<1>1. UNIT \in Nat \ {0}
  BY Numbers
<1> DEFINE r == FromRatio(a, A)
           k == M \div UNIT
<1>2. r \in Nat /\ a * UNIT <= (r + 1) * A
  <2>1. a * UNIT \in Nat
    BY <1>1
  <2> QED BY <2>1, Divided DEF FromRatio
<1>3. k \in Nat /\ M <= (k + 1) * UNIT
  BY <1>1, Divided
<1>4. m \in Nat /\ M * r <= (m + 1) * UNIT
  <2> HIDE DEF r
  <2>1. M * r \in Nat
    BY <1>2
  <2>2. CASE m = MulFloor(M, r)
    BY <1>1, <2>1, <2>2, Divided DEF MulFloor
  <2>3. CASE m = MulCeil(M, r)
    <3>1. m \in Nat /\ M * r <= m * UNIT
      BY <1>1, <2>1, <2>3, Divided DEF MulCeil
    <3>2. m * UNIT <= (m + 1) * UNIT
      BY <1>1, <3>1, Multiplied
    <3>3. m * UNIT \in Int /\ (m + 1) * UNIT \in Int
      BY <1>1, <3>1
    <3> QED BY <2>1, <3>1, <3>2, <3>3
  <2> QED BY <2>2, <2>3 DEF r
<1> HIDE DEF r, k
<1>5. (m + 2 + k) * A >= M * a
  BY <1>1, <1>2, <1>3, <1>4, RoundedTwice
<1> QED BY <1>4, <1>5 DEF k

\* What is adjusted asks for the minimum price.
LEMMA AdjustedKeepsThePrice ==
  ASSUME MarketsAreTyped, balance \in Nat, NEW s, Accepted(s),
         NEW i \in DOMAIN s.routes, NEW a \in Adjust(s, s.routes[i])
  PROVE  /\ a.minimum \in Nat
         /\ (a.minimum + 2 + s.minimum \div UNIT) * s.amount >= s.minimum * a.amount
<1>1. s.amount \in Nat \ {0} /\ s.minimum \in Nat
  BY DEF Accepted, IsSwap, IsValid
<1>2. a.amount \in Nat
  BY AdjustedIsThere
<1>3. a.minimum \in {MulFloor(s.minimum, FromRatio(a.amount, s.amount)),
                     MulCeil(s.minimum, FromRatio(a.amount, s.amount))}
  <2>1. CASE s.adjustment.kind = "fixed"
    <3>1. a = AdjustFixed(s)
      BY <2>1 DEF Adjust
    <3> QED BY <3>1 DEF AdjustFixed, Adjusted
  <2>2. CASE s.adjustment.kind # "fixed"
    <3>1. PICK e \in Expected(s.routes[i], s.amount) \ {0} : a = AdjustLinear(s, e)
      BY <2>2 DEF Adjust, Scaling
    <3> QED BY <3>1 DEF AdjustLinear, Adjusted
  <2> QED BY <2>1, <2>2
<1> QED BY <1>1, <1>2, <1>3, MinimumOfAPart

\* A quote is for what was adjusted, and expects the minimum of it.
LEMMA QuoteIsEnough ==
  ASSUME NEW s, NEW route, IsRoute(route), NEW q \in Quote(s, route)
  PROVE  \E a \in Adjust(s, route) :
           /\ q.amount = a.amount
           /\ q.expected \in Expected(route, q.amount)
           /\ Expected(q.route, q.amount) = {q.expected}
           /\ q.expected >= a.minimum
<1>1. CASE route.kind = "fin"
  <2>1. PICK a \in Adjust(s, route) : q \in ValidateFin(s, route, a)
    BY <1>1 DEF Quote
  <2>2. PICK r \in FinReturns(route, a) : q = Executable(route, a, r[1])
    BY <2>1 DEF ValidateFin
  <2>3. r[1] \in Expected(route, a.amount) /\ r[1] >= a.minimum
    BY <2>2 DEF FinReturns
  <2>4. q.amount = a.amount /\ q.route = route /\ q.expected = r[1]
    BY <2>2 DEF Executable
  <2>5. Expected(route, a.amount) = {r[1]}
    BY <1>1, <2>3 DEF Expected
  <2> QED BY <2>3, <2>4, <2>5
<1>2. CASE route.kind # "fin"
  <2>1. PICK a \in Adjust(s, route) : q \in ValidateThorchain(s, route, a)
    BY <1>2 DEF Quote
  <2>2. PICK offer \in ThorchainQuote(Request(route, a.amount)) :
          /\ q = Executable(Quoted(route, a.amount, offer), a, offer.expected_amount_out)
          /\ offer.expected_amount_out >= a.minimum
    BY <2>1 DEF ValidateThorchain
  <2>3. /\ q.amount = a.amount
        /\ q.route = Quoted(route, a.amount, offer)
        /\ q.expected = offer.expected_amount_out
    BY <2>2 DEF Executable
  <2>4. Request(q.route, q.amount) = Request(route, a.amount) /\ q.route.kind # "fin"
    BY <1>2, <2>3 DEF Quoted, Request, IsRoute
  <2>5. ThorchainQuote(Request(route, a.amount)) = {offer}
    BY <2>2 DEF ThorchainQuote
  <2>6. /\ Expected(q.route, q.amount) = {q.expected}
        /\ q.expected \in Expected(route, q.amount)
    BY <1>2, <2>3, <2>4, <2>5 DEF Expected
  <2> QED BY <2>2, <2>3, <2>6
<1> QED BY <1>1, <1>2

\* More than enough is enough.
LEMMA MoreIsEnough ==
  ASSUME NEW e \in Int, NEW m \in Int, NEW k \in Int, NEW A \in Nat, NEW x \in Int,
         e >= m, (m + 2 + k) * A >= x
  PROVE  (e + 2 + k) * A >= x
<1>1. (m + 2 + k) * A <= (e + 2 + k) * A
  BY Multiplied
<1>2. (m + 2 + k) * A \in Int /\ (e + 2 + k) * A \in Int
  OBVIOUS
<1> QED BY <1>1, <1>2

\* What is stored stays the swap configured, with other routes: an execution is
\* of a quote for it, and the markets stand still until the message is delivered.
LEMMA PriceKept ==
  ASSUME Typed, KeepsTheMinimumPrice, [Next]_vars
  PROVE  KeepsTheMinimumPrice'
<1>1. CASE Execute
  <2>1. PICK quote \in BestQuote(swap) :
          /\ swap' = [swap EXCEPT !.routes = UpdatedRoutes(@, quote.route)]
          /\ message' = MessageOf(quote.route, quote)
    BY <1>1 DEF Execute
  <2>2. PICK i \in DOMAIN swap.routes : quote \in Quote(swap, swap.routes[i])
    BY <2>1, BestIsAQuote
  <2>3. Accepted(swap) /\ UNCHANGED <<pairs, pool, balance, height>>
    BY <1>1 DEF Execute, Typed
  <2>4. IsRoute(swap.routes[i]) /\ IsSwap(swap)
    BY <2>2, <2>3 DEF Accepted, IsSwap
  <2>5. PICK a \in Adjust(swap, swap.routes[i]) :
          /\ quote.amount = a.amount
          /\ quote.expected \in Expected(swap.routes[i], quote.amount)
          /\ Expected(quote.route, quote.amount) = {quote.expected}
          /\ quote.expected >= a.minimum
    BY <2>2, <2>4, QuoteIsEnough
  <2>6. swap'.amount = swap.amount /\ swap'.minimum = swap.minimum
    BY <2>1, <2>4 DEF IsSwap
  <2>7. message'.route = quote.route /\ message'.amount = quote.amount
    BY <2>1 DEF MessageOf
  <2>8. Expected(quote.route, quote.amount)' = Expected(quote.route, quote.amount)
    BY <2>3 DEF Expected, ThorchainQuote
  <2>9. /\ a.minimum \in Nat
        /\ (a.minimum + 2 + swap.minimum \div UNIT) * swap.amount >= swap.minimum * a.amount
    BY <2>2, <2>3, <2>5, AdjustedKeepsThePrice DEF Typed
  <2>10. quote.amount \in Nat
    BY <2>2, <2>3, <2>5, AdjustedIsThere DEF Typed
  <2>11. quote.expected \in Int
    <3>1. MarketsAreTyped
      BY DEF Typed
    <3>2. quote.expected \in Expected(swap.routes[i], quote.amount)
      BY <2>5
    <3>3. Accepted(swap)
      BY <2>3
    <3>4. quote.expected \in Nat
      BY <2>2, <2>10, <3>1, <3>2, <3>3, ExpectedIsNumber, Zenon
    <3> QED BY <3>4
  <2>12. /\ swap.amount \in Nat /\ swap.minimum \in Nat
         /\ swap.minimum \div UNIT \in Int /\ swap.minimum * quote.amount \in Int
    <3>1. swap.amount \in Nat /\ swap.minimum \in Nat
      BY <2>4 DEF IsSwap
    <3> QED BY <2>10, <3>1, Numbers, Products
  <2>13. (quote.expected + 2 + swap.minimum \div UNIT) * swap.amount
           >= swap.minimum * quote.amount
    BY <2>5, <2>9, <2>11, <2>12, MoreIsEnough
  <2> QED BY <2>5, <2>6, <2>7, <2>8, <2>13 DEF KeepsTheMinimumPrice
<1>2. CASE Configure \/ Transfer \/ MarketMoves \/ NextBlock
  <2>1. Idle'
    BY <1>2 DEF Configure, Transfer, MarketMoves, NextBlock, Idle
  <2> QED BY <2>1 DEF KeepsTheMinimumPrice, Idle
<1>3. CASE Deliver \/ Bounce
  <2>1. Idle'
    BY <1>3 DEF Deliver, Bounce, Idle
  <2> QED BY <2>1 DEF KeepsTheMinimumPrice, Idle
<1>4. CASE UNCHANGED vars
  BY <1>4 DEF vars, KeepsTheMinimumPrice, Idle, Expected, ThorchainQuote
<1> QED BY <1>1, <1>2, <1>3, <1>4 DEF Next

\* Whatever there is, whatever the price and whatever the floor, a swap that is
\* sent gives the minimum the owner configured for its part of the amount, but for
\* what adjust rounds off: two coins and the minimum over UNIT.
THEOREM MinimumPriceIsKept == Spec => []KeepsTheMinimumPrice
<1>1. Init => Typed /\ KeepsTheMinimumPrice
  BY TypedInit DEF Init, KeepsTheMinimumPrice, Idle
<1>2. Typed /\ KeepsTheMinimumPrice /\ [Next]_vars => (Typed /\ KeepsTheMinimumPrice)'
  BY TypedStep, PriceKept
<1> QED BY <1>1, <1>2, PTL DEF Spec

-----------------------------------------------------------------------------
(* Folds *)

\* A set of numbers has a least one.
LEMMA LeastNumber ==
  ASSUME NEW T \in SUBSET Nat, T # {}
  PROVE  \E n \in T : \A m \in T : n <= m
<1> DEFINE R == {ss \in Nat \X Nat : ss[1] < ss[2]}
<1>1. IsWellFoundedOn(R, Nat)
  BY NatLessThanWellFounded DEF OpToRel
<1>2. PICK n \in T : \A m \in T : ~ (<<m, n>> \in R)
  <2> HIDE DEF R
  <2> QED BY <1>1, WFMin
<1>3. \A m \in T : ~(m < n)
  BY <1>2
<1> QED BY <1>3

\* Induction: a set that holds 0, and the successor of each of its numbers, holds all.
LEMMA EveryNumber ==
  ASSUME NEW Q, 0 \in Q, \A n \in Nat : n \in Q => n + 1 \in Q
  PROVE  Nat \subseteq Q
<1>1. SUFFICES ASSUME Nat \ Q # {} PROVE FALSE
  OBVIOUS
<1>2. PICK n \in Nat \ Q : \A m \in Nat \ Q : n <= m
  BY <1>1, LeastNumber
<1>3. n # 0 /\ n - 1 \in Nat
  BY <1>2
<1>4. n - 1 \in Q
  BY <1>2, <1>3
<1> QED BY <1>2, <1>3, <1>4

\* The last of the places a fold goes through is the one it takes off.
LEMMA LastPlace ==
  ASSUME NEW n \in Nat, NEW s \in SUBSET (1 .. n + 1), n + 1 \in s
  PROVE  Max(s) = n + 1
<1>1. \A y \in s : n + 1 >= y
  OBVIOUS
<1>2. \A x \in s : (\A y \in s : x >= y) => x = n + 1
  OBVIOUS
<1> QED BY <1>1, <1>2 DEF Max

\* Each set of places has a last one.
LEMMA LastIsAPlace ==
  ASSUME NEW n \in Nat
  PROVE  \A s \in SUBSET (1 .. n) : s # {} => Max(s) \in s
<1> DEFINE Q == {m \in Nat : \A s \in SUBSET (1 .. m) : s # {} => Max(s) \in s}
<1>1. 0 \in Q
  <2>1. 1 .. 0 = {}
    OBVIOUS
  <2> QED BY <2>1
<1>2. ASSUME NEW m \in Nat, m \in Q PROVE m + 1 \in Q
  <2> SUFFICES ASSUME NEW s \in SUBSET (1 .. m + 1), s # {} PROVE Max(s) \in s
    OBVIOUS
  <2>1. CASE m + 1 \in s
    BY <2>1, LastPlace
  <2>2. CASE m + 1 \notin s
    <3>1. s \in SUBSET (1 .. m)
      BY <2>2
    <3> QED BY <1>2, <3>1
  <2> QED BY <2>1, <2>2
<1>3. Nat \subseteq Q
  <2> HIDE DEF Q
  <2> QED BY <1>1, <1>2, EveryNumber
<1> QED BY <1>3

\* A fold by F over n places, from base: what it has come to after a set of places.
FoldStep(F, base, h, s) == IF s = {} THEN base ELSE F[<<h[s \ {Max(s)}], Max(s)>>]

IsFoldable(F, V, n) == F \in [V \X (1 .. n) -> V]

HasFold(F, V, base, n) ==
  \E h \in [SUBSET (1 .. n) -> V] :
    \A s \in SUBSET (1 .. n) : h[s] = FoldStep(F, base, h, s)

\* A fold exists.
LEMMA FoldExists ==
  ASSUME NEW n \in Nat, NEW V, NEW base \in V, NEW F, IsFoldable(F, V, n)
  PROVE  HasFold(F, V, base, n)
<1> DEFINE Good(m, h) == /\ h \in [SUBSET (1 .. m) -> V]
                         /\ \A s \in SUBSET (1 .. m) : h[s] = FoldStep(F, base, h, s)
           Q == {m \in Nat : m <= n => \E h : Good(m, h)}
<1>1. 0 \in Q
  <2> DEFINE h == [s \in SUBSET (1 .. 0) |-> base]
  <2>1. 1 .. 0 = {}
    OBVIOUS
  <2>2. Good(0, h)
    BY <2>1 DEF FoldStep
  <2> HIDE DEF Good, h
  <2> QED BY <2>2
<1>2. ASSUME NEW m \in Nat, m \in Q PROVE m + 1 \in Q
  <2>1. SUFFICES ASSUME m + 1 <= n PROVE \E h : Good(m + 1, h)
    <3> HIDE DEF Good
    <3> QED OBVIOUS
  <2>2. PICK g : Good(m, g)
    <3> HIDE DEF Good
    <3>1. m <= n
      BY <2>1
    <3> QED BY <1>2, <3>1
  <2> DEFINE h == [s \in SUBSET (1 .. m + 1) |->
                     IF m + 1 \in s THEN F[<<g[s \ {m + 1}], m + 1>>] ELSE g[s]]
  <2>3. ASSUME NEW s \in SUBSET (1 .. m + 1), m + 1 \notin s
        PROVE  s \in SUBSET (1 .. m) /\ h[s] = g[s]
    BY <2>3
  <2>4. ASSUME NEW s \in SUBSET (1 .. m + 1) PROVE s \ {m + 1} \in SUBSET (1 .. m)
    OBVIOUS
  <2>5. ASSUME NEW s \in SUBSET (1 .. m + 1) PROVE h[s] \in V
    <3>1. CASE m + 1 \in s
      <4>1. h[s] = F[<<g[s \ {m + 1}], m + 1>>]
        BY <3>1
      <4>2. g[s \ {m + 1}] \in V
        BY <2>2, <2>4
      <4>3. m + 1 \in 1 .. n
        BY <2>1
      <4> HIDE DEF h
      <4> QED BY <4>1, <4>2, <4>3 DEF IsFoldable
    <3>2. CASE m + 1 \notin s
      BY <2>2, <2>3, <3>2
    <3> QED BY <3>1, <3>2
  <2>6. ASSUME NEW s \in SUBSET (1 .. m + 1) PROVE h[s] = FoldStep(F, base, h, s)
    <3>1. CASE m + 1 \in s
      <4>1. Max(s) = m + 1
        BY <3>1, LastPlace
      <4>2. s \ {m + 1} \in SUBSET (1 .. m + 1) /\ m + 1 \notin s \ {m + 1}
        OBVIOUS
      <4>3. h[s \ {m + 1}] = g[s \ {m + 1}]
        BY <2>3, <4>2
      <4>4. h[s] = F[<<g[s \ {m + 1}], m + 1>>]
        BY <3>1
      <4> HIDE DEF h
      <4> QED BY <3>1, <4>1, <4>3, <4>4 DEF FoldStep
    <3>2. CASE m + 1 \notin s
      <4>1. s \in SUBSET (1 .. m) /\ h[s] = g[s]
        BY <2>3, <3>2
      <4>2. g[s] = FoldStep(F, base, g, s)
        BY <2>2, <4>1
      <4>3. s \ {Max(s)} \in SUBSET (1 .. m + 1) /\ m + 1 \notin s \ {Max(s)}
        BY <3>2
      <4>4. h[s \ {Max(s)}] = g[s \ {Max(s)}]
        BY <2>3, <4>3
      <4> HIDE DEF h
      <4> QED BY <4>1, <4>2, <4>4 DEF FoldStep
    <3> QED BY <3>1, <3>2
  <2>7. h \in [SUBSET (1 .. m + 1) -> V]
    <3>1. h = [s \in SUBSET (1 .. m + 1) |-> h[s]]
      OBVIOUS
    <3> HIDE DEF h
    <3> QED BY <2>5, <3>1
  <2>8. Good(m + 1, h)
    <3> HIDE DEF h
    <3> QED BY <2>6, <2>7
  <2> HIDE DEF Good, h
  <2> QED BY <2>8
<1>3. Nat \subseteq Q
  <2> HIDE DEF Q
  <2> QED BY <1>1, <1>2, EveryNumber
<1>4. \E h : Good(n, h)
  <2> HIDE DEF Good
  <2> QED BY <1>3
<1> QED BY <1>4 DEF HasFold

\* The places up to one, without it.
LEMMA PlacesBefore ==
  ASSUME NEW n \in Nat
  PROVE  \A i \in 1 .. n : /\ 1 .. i \in SUBSET (1 .. n)
                           /\ 1 .. i # {}
                           /\ Max(1 .. i) = i
                           /\ (1 .. i) \ {i} = 1 .. (i - 1)
<1> SUFFICES ASSUME NEW i \in 1 .. n
             PROVE  /\ 1 .. i \in SUBSET (1 .. n)
                    /\ 1 .. i # {}
                    /\ Max(1 .. i) = i
                    /\ (1 .. i) \ {i} = 1 .. (i - 1)
  OBVIOUS
<1>1. 1 .. i \in SUBSET (1 .. n) /\ 1 .. i # {} /\ (1 .. i) \ {i} = 1 .. (i - 1)
  OBVIOUS
<1>2. i - 1 \in Nat /\ (i - 1) + 1 = i
  OBVIOUS
<1>3. i \in 1 .. i
  OBVIOUS
<1>4. Max(1 .. i) = i
  BY <1>2, <1>3, LastPlace
<1> QED BY <1>1, <1>4

\* The fold of a sum.
SumStep(f, g, s) == IF s = {} THEN 0 ELSE g[s \ {Max(s)}] + f[Max(s)]

PartialSum(f) == CHOOSE g : g = [s \in SUBSET (DOMAIN f) |-> SumStep(f, g, s)]

LEMMA SumIsPartial ==
  ASSUME NEW f
  PROVE  Total(f) = PartialSum(f)[DOMAIN f]
BY DEF Total, FoldLeft, MapThenFoldSet, PartialSum, SumStep

\* The function that the fold of a sum chooses exists.
LEMMA PartialSums ==
  ASSUME NEW n \in Nat, NEW f \in [1 .. n -> Int]
  PROVE  \A s \in SUBSET (1 .. n) : PartialSum(f)[s] = SumStep(f, PartialSum(f), s)
<1> DEFINE F == [v \in Int \X (1 .. n) |-> v[1] + f[v[2]]]
<1>1. F \in [Int \X (1 .. n) -> Int]
  OBVIOUS
<1>2. \A x \in Int : \A i \in 1 .. n : F[<<x, i>>] = x + f[i]
  OBVIOUS
<1> HIDE DEF F
<1>3. PICK h \in [SUBSET (1 .. n) -> Int] :
        \A s \in SUBSET (1 .. n) : h[s] = FoldStep(F, 0, h, s)
  <2>1. 0 \in Int
    OBVIOUS
  <2>2. IsFoldable(F, Int, n)
    BY <1>1 DEF IsFoldable
  <2>3. HasFold(F, Int, 0, n)
    BY <2>1, <2>2, FoldExists
  <2> QED BY <2>3 DEF HasFold
<1>4. ASSUME NEW s \in SUBSET (1 .. n) PROVE h[s] = SumStep(f, h, s)
  <2>1. CASE s = {}
    BY <1>3, <2>1 DEF FoldStep, SumStep
  <2>2. CASE s # {}
    <3>1. Max(s) \in 1 .. n
      BY <2>2, LastIsAPlace
    <3>2. h[s \ {Max(s)}] \in Int
      BY <1>3, s \ {Max(s)} \in SUBSET (1 .. n)
    <3>3. h[s] = F[<<h[s \ {Max(s)}], Max(s)>>]
      BY <1>3, <2>2 DEF FoldStep
    <3> QED BY <1>2, <2>2, <3>1, <3>2, <3>3 DEF SumStep
  <2> QED BY <2>1, <2>2
<1>5. h = [s \in SUBSET (1 .. n) |-> SumStep(f, h, s)]
  <2>1. h = [s \in SUBSET (1 .. n) |-> h[s]]
    OBVIOUS
  <2> QED BY <1>4, <2>1
<1> DEFINE p == PartialSum(f)
<1>6. p = [s \in SUBSET (1 .. n) |-> SumStep(f, p, s)]
  <2>1. DOMAIN f = 1 .. n
    OBVIOUS
  <2> QED BY <1>5, <2>1 DEF PartialSum
<1> HIDE DEF p
<1>7. \A s \in SUBSET (1 .. n) : p[s] = SumStep(f, p, s)
  BY <1>6
<1> QED BY <1>7 DEF p

\* u holds the sums of the first numbers of f.
AreSums(u, f, n) ==
  /\ u[0] = 0
  /\ \A i \in 1 .. n : u[i - 1] \in Int /\ u[i] = u[i - 1] + f[i]
  /\ u[n] \in Int

LEMMA SumOfSeq ==
  ASSUME NEW n \in Nat, NEW f \in [1 .. n -> Int]
  PROVE  \E u : AreSums(u, f, n) /\ Total(f) = u[n]
<1> DEFINE p == PartialSum(f)
           u == [i \in 0 .. n |-> p[1 .. i]]
<1>1. \A s \in SUBSET (1 .. n) : p[s] = SumStep(f, p, s)
  BY PartialSums
<1>2. Total(f) = p[1 .. n]
  BY SumIsPartial
<1> HIDE DEF p
<1>3. \A i \in 0 .. n : u[i] = p[1 .. i]
  OBVIOUS
<1>4. u[0] = 0
  <2>1. 1 .. 0 = {} /\ {} \in SUBSET (1 .. n)
    OBVIOUS
  <2>2. p[{}] = 0
    BY <1>1, <2>1 DEF SumStep
  <2> QED BY <1>3, <2>1, <2>2
<1>5. ASSUME NEW i \in 1 .. n PROVE i - 1 \in 0 .. n /\ u[i] = u[i - 1] + f[i]
  <2>1. p[1 .. i] = p[1 .. (i - 1)] + f[i]
    <3>1. p[1 .. i] = SumStep(f, p, 1 .. i)
      BY <1>1, PlacesBefore
    <3>2. 1 .. i # {} /\ Max(1 .. i) = i /\ (1 .. i) \ {i} = 1 .. (i - 1)
      BY PlacesBefore
    <3> QED BY <3>1, <3>2 DEF SumStep
  <2>2. i \in 0 .. n /\ i - 1 \in 0 .. n
    OBVIOUS
  <2> QED BY <1>3, <2>1, <2>2
<1> HIDE DEF u
<1> DEFINE Q == {i \in Nat : i <= n => u[i] \in Int}
<1>6. 0 \in Q
  BY <1>4
<1>7. ASSUME NEW i \in Nat, i \in Q PROVE i + 1 \in Q
  <2> SUFFICES ASSUME i + 1 <= n PROVE u[i + 1] \in Int
    OBVIOUS
  <2>1. u[i] \in Int
    BY <1>7
  <2>2. i + 1 \in 1 .. n /\ (i + 1) - 1 = i
    OBVIOUS
  <2>3. u[i + 1] = u[i] + f[i + 1]
    BY <1>5, <2>2
  <2>4. f[i + 1] \in Int
    BY <2>2
  <2> QED BY <2>1, <2>3, <2>4
<1>8. Nat \subseteq Q
  <2> HIDE DEF Q
  <2> QED BY <1>6, <1>7, EveryNumber
<1>9. \A i \in 0 .. n : u[i] \in Int
  BY <1>8
<1>10. AreSums(u, f, n)
  <2>1. u[n] \in Int
    BY <1>9
  <2>2. \A i \in 1 .. n : u[i - 1] \in Int /\ u[i] = u[i - 1] + f[i]
    BY <1>5, <1>9
  <2> QED BY <1>4, <2>1, <2>2 DEF AreSums
<1>11. Total(f) = u[n]
  BY <1>2, <1>3
<1> QED BY <1>10, <1>11

\* The sum of one number more.
LEMMA SumOfOneMore ==
  ASSUME NEW n \in Nat, NEW e \in [1 .. n -> Int], NEW f \in [1 .. n + 1 -> Int],
         \A k \in 1 .. n : e[k] = f[k]
  PROVE  /\ Total(e) \in Int
         /\ Total(f) = Total(e) + f[n + 1]
<1>1. PICK u : AreSums(u, e, n) /\ Total(e) = u[n]
  BY SumOfSeq
<1>2. PICK w : AreSums(w, f, n + 1) /\ Total(f) = w[n + 1]
  <2>1. n + 1 \in Nat
    OBVIOUS
  <2> QED BY <2>1, SumOfSeq
<1> DEFINE Q == {i \in Nat : i <= n => u[i] = w[i]}
<1>3. 0 \in Q
  BY <1>1, <1>2 DEF AreSums
<1>4. ASSUME NEW i \in Nat, i \in Q PROVE i + 1 \in Q
  <2> SUFFICES ASSUME i + 1 <= n PROVE u[i + 1] = w[i + 1]
    OBVIOUS
  <2>1. i + 1 \in 1 .. n /\ i + 1 \in 1 .. n + 1 /\ (i + 1) - 1 = i /\ u[i] = w[i]
    BY <1>4
  <2>2. u[i + 1] = u[i] + e[i + 1] /\ w[i + 1] = w[i] + f[i + 1]
    BY <1>1, <1>2, <2>1 DEF AreSums
  <2> QED BY <2>1, <2>2
<1>5. Nat \subseteq Q
  <2> HIDE DEF Q
  <2> QED BY <1>3, <1>4, EveryNumber
<1>6. u[n] = w[n]
  BY <1>5
<1>7. w[n + 1] = w[n] + f[n + 1] /\ u[n] \in Int
  <2>1. n + 1 \in 1 .. n + 1 /\ (n + 1) - 1 = n
    OBVIOUS
  <2> QED BY <1>1, <1>2, <2>1 DEF AreSums
<1> QED BY <1>1, <1>2, <1>6, <1>7

\* There is nothing in the sum of nothing.
LEMMA SumOfNone ==
  ASSUME NEW f \in [1 .. 0 -> Int]
  PROVE  Total(f) = 0
<1>1. PICK u : AreSums(u, f, 0) /\ Total(f) = u[0]
  BY SumOfSeq
<1> QED BY <1>1 DEF AreSums

-----------------------------------------------------------------------------
(* Reading a book *)

Orders == [price : Nat, total : Nat]

Reads == [orders : Nat, value : Nat, depth : Nat, zero : BOOLEAN]

LEMMA BookNumbers ==
  /\ UNIT \in Nat \ {0} /\ LIMIT \in Nat \ {0}
  /\ MIN_ORDERS \in Nat \ {0} /\ MIN_VALUE \in Nat \ {0}
  /\ MAX_ITERATIONS * LIMIT = LIMIT + LIMIT
<1>1. /\ UNIT \in Nat \ {0} /\ LIMIT \in Nat \ {0}
      /\ MIN_ORDERS \in Nat \ {0} /\ MIN_VALUE \in Nat \ {0}
      /\ MAX_ITERATIONS = 2
  BY OrderBookAssumption
<1>2. 2 * LIMIT = LIMIT + LIMIT
  BY <1>1
<1> QED BY <1>1, <1>2

\* A product or a quotient rounded up is nothing only where nothing is divided.
LEMMA SomethingOfSomething ==
  /\ \A x \in Nat : \A y \in Nat \ {0} : DivCeil(x, y) \in Nat /\ (x > 0 => DivCeil(x, y) > 0)
  /\ \A x, y \in Nat : x * y \in Nat
  /\ \A x \in Nat : \A y \in Nat \ {0} : x > 0 => x * y > 0
<1>1. ASSUME NEW x \in Nat, NEW y \in Nat \ {0}
      PROVE  DivCeil(x, y) \in Nat /\ (x > 0 => DivCeil(x, y) > 0)
  <2> DEFINE c == DivCeil(x, y)
  <2>1. c \in Nat /\ x <= c * y
    BY Divided
  <2> HIDE DEF c
  <2>2. c = 0 => c * y = 0
    OBVIOUS
  <2>3. x > 0 => c > 0
    BY <2>1, <2>2
  <2> QED BY <2>1, <2>3 DEF c
<1>2. ASSUME NEW x \in Nat, NEW y \in Nat PROVE x * y \in Nat
  OBVIOUS
<1>3. ASSUME NEW x \in Nat, NEW y \in Nat \ {0}, x > 0 PROVE x * y > 0
  BY <1>3, Z3
<1> QED BY <1>1, <1>2, <1>3

\* What an order is worth is a number, and where it is something so is its depth.
LEMMA OrderIsWorth ==
  ASSUME NEW side \in Sides, NEW order \in Orders
  PROVE  /\ ValueOf(side, order) \in Nat
         /\ order.price > 0 =>
              /\ DepthOf(side, order) \in Nat
              /\ ValueOf(side, order) > 0 => DepthOf(side, order) > 0
<1> DEFINE price == order.price
           total == order.total
<1>1. price \in Nat /\ total \in Nat
  BY DEF Orders
<1> HIDE DEF price, total
<1>2. CASE side = "base"
  <2>1. ValueOf(side, order) = MulFloor(total, price) /\ DepthOf(side, order) = total
    BY <1>2 DEF ValueOf, DepthOf, price, total
  <2>2. MulFloor(total, price) \in Nat
    BY <1>1, AmountsAreNumbers
  <2>3. total = 0 => MulFloor(total, price) = 0
    <3>1. 0 * price = 0
      BY <1>1
    <3> QED BY <3>1, BookNumbers DEF MulFloor
  <2> QED BY <1>1, <2>1, <2>2, <2>3
<1>3. CASE side # "base"
  <2>1. ValueOf(side, order) = total /\ DepthOf(side, order) = DivCeil(total * UNIT, price)
    BY <1>3 DEF ValueOf, DepthOf, price, total
  <2>2. total * UNIT \in Nat /\ (total > 0 => total * UNIT > 0)
    BY <1>1, BookNumbers, SomethingOfSomething
  <2> DEFINE x == total * UNIT
             c == DivCeil(x, price)
  <2>3. price > 0 => c \in Nat /\ (x > 0 => c > 0)
    <3> HIDE DEF x
    <3> QED BY <1>1, <2>2, SomethingOfSomething DEF x
  <2>4. price = order.price
    BY DEF price
  <2>5. DepthOf(side, order) = c
    BY <2>1
  <2> HIDE DEF x, c
  <2>6. x = total * UNIT
    BY DEF x
  <2> QED BY <1>1, <2>1, <2>2, <2>3, <2>4, <2>5, <2>6
<1> QED BY <1>2, <1>3

LEMMA OrderIsRead ==
  ASSUME NEW side \in Sides, NEW order \in Orders, NEW read \in Reads
  PROVE  ReadOrder(side, read, order) \in Reads
<1>1. CASE read.zero \/ IsEnough(read)
  BY <1>1 DEF ReadOrder
<1>2. CASE ~(read.zero \/ IsEnough(read)) /\ order.price = 0
  BY <1>2 DEF ReadOrder, Reads
<1>3. CASE ~(read.zero \/ IsEnough(read)) /\ order.price # 0
  <2>1. order.price > 0
    BY <1>3 DEF Orders
  <2>2. ValueOf(side, order) \in Nat /\ DepthOf(side, order) \in Nat
    BY <2>1, OrderIsWorth
  <2> QED BY <1>3, <2>2 DEF ReadOrder, Reads
<1> QED BY <1>1, <1>2, <1>3

\* The fold of a page.
PageStep(side, read, page, g, s) ==
  IF s = {} THEN read ELSE ReadOrder(side, g[s \ {Max(s)}], page[Max(s)])

PartialPage(side, read, page) ==
  CHOOSE g : g = [s \in SUBSET (DOMAIN page) |-> PageStep(side, read, page, g, s)]

LEMMA PageIsPartial ==
  ASSUME NEW side, NEW read, NEW page
  PROVE  ReadPage(side, read, page) = PartialPage(side, read, page)[DOMAIN page]
BY DEF ReadPage, FoldLeft, MapThenFoldSet, PartialPage, PageStep

\* The function that the fold of a page chooses exists.
LEMMA PartialPages ==
  ASSUME NEW side \in Sides, NEW read \in Reads,
         NEW n \in Nat, NEW page \in [1 .. n -> Orders]
  PROVE  LET p == PartialPage(side, read, page)
         IN  \A s \in SUBSET (1 .. n) : p[s] = PageStep(side, read, page, p, s)
<1> DEFINE F == [v \in Reads \X (1 .. n) |-> ReadOrder(side, v[1], page[v[2]])]
<1>1. IsFoldable(F, Reads, n)
  <2>1. \A x \in Reads : \A i \in 1 .. n : ReadOrder(side, x, page[i]) \in Reads
    BY OrderIsRead
  <2>2. \A v \in Reads \X (1 .. n) : ReadOrder(side, v[1], page[v[2]]) \in Reads
    BY <2>1
  <2> QED BY <2>2 DEF IsFoldable
<1>2. \A x \in Reads : \A i \in 1 .. n : F[<<x, i>>] = ReadOrder(side, x, page[i])
  OBVIOUS
<1> HIDE DEF F
<1>3. PICK h \in [SUBSET (1 .. n) -> Reads] :
        \A s \in SUBSET (1 .. n) : h[s] = FoldStep(F, read, h, s)
  <2>1. HasFold(F, Reads, read, n)
    BY <1>1, FoldExists
  <2> QED BY <2>1 DEF HasFold
<1>4. ASSUME NEW s \in SUBSET (1 .. n) PROVE h[s] = PageStep(side, read, page, h, s)
  <2>1. CASE s = {}
    BY <1>3, <2>1 DEF FoldStep, PageStep
  <2>2. CASE s # {}
    <3>1. Max(s) \in 1 .. n
      BY <2>2, LastIsAPlace
    <3>2. h[s \ {Max(s)}] \in Reads
      BY <1>3, s \ {Max(s)} \in SUBSET (1 .. n)
    <3>3. h[s] = F[<<h[s \ {Max(s)}], Max(s)>>]
      BY <1>3, <2>2 DEF FoldStep
    <3> QED BY <1>2, <2>2, <3>1, <3>2, <3>3 DEF PageStep
  <2> QED BY <2>1, <2>2
<1>5. h = [s \in SUBSET (1 .. n) |-> PageStep(side, read, page, h, s)]
  <2>1. h = [s \in SUBSET (1 .. n) |-> h[s]]
    OBVIOUS
  <2> QED BY <1>4, <2>1
<1> DEFINE p == PartialPage(side, read, page)
<1>6. p = [s \in SUBSET (1 .. n) |-> PageStep(side, read, page, p, s)]
  <2>1. DOMAIN page = 1 .. n
    OBVIOUS
  <2> QED BY <1>5, <2>1 DEF PartialPage
<1> HIDE DEF p
<1>7. \A s \in SUBSET (1 .. n) : p[s] = PageStep(side, read, page, p, s)
  BY <1>6
<1> QED BY <1>7 DEF p

\* u is what has been read after each order of a page.
ReadsOn(u, side, read, page, n) ==
  /\ u[0] = read
  /\ \A i \in 1 .. n : u[i] = ReadOrder(side, u[i - 1], page[i])
  /\ ReadPage(side, read, page) = u[n]

\* A page is read one order after the other.
LEMMA PageIsRead ==
  ASSUME NEW side \in Sides, NEW read \in Reads,
         NEW n \in Nat, NEW page \in [1 .. n -> Orders]
  PROVE  \E u : ReadsOn(u, side, read, page, n)
<1> DEFINE p == PartialPage(side, read, page)
           u == [i \in 0 .. n |-> p[1 .. i]]
<1>1. \A s \in SUBSET (1 .. n) : p[s] = PageStep(side, read, page, p, s)
  BY PartialPages
<1>2. ReadPage(side, read, page) = p[1 .. n]
  BY PageIsPartial
<1> HIDE DEF p
<1>3. \A i \in 0 .. n : u[i] = p[1 .. i]
  OBVIOUS
<1>4. u[0] = read
  <2>1. 1 .. 0 = {} /\ {} \in SUBSET (1 .. n)
    OBVIOUS
  <2>2. p[{}] = read
    BY <1>1, <2>1 DEF PageStep
  <2> QED BY <1>3, <2>1, <2>2
<1>5. ASSUME NEW i \in 1 .. n PROVE u[i] = ReadOrder(side, u[i - 1], page[i])
  <2>1. p[1 .. i] = ReadOrder(side, p[1 .. (i - 1)], page[i])
    <3>1. p[1 .. i] = PageStep(side, read, page, p, 1 .. i)
      BY <1>1, PlacesBefore
    <3>2. 1 .. i # {} /\ Max(1 .. i) = i /\ (1 .. i) \ {i} = 1 .. (i - 1)
      BY PlacesBefore
    <3> QED BY <3>1, <3>2 DEF PageStep
  <2>2. i \in 0 .. n /\ i - 1 \in 0 .. n
    OBVIOUS
  <2> QED BY <1>3, <2>1, <2>2
<1>6. u[n] = p[1 .. n]
  BY <1>3
<1> HIDE DEF u
<1>7. ReadsOn(u, side, read, page, n)
  BY <1>2, <1>4, <1>5, <1>6 DEF ReadsOn
<1> QED BY <1>7

-----------------------------------------------------------------------------
(* What a price rests on *)

\* A book is a list of orders.
LEMMA BookOfOrders ==
  ASSUME NEW book, IsBook(book)
  PROVE  Len(book) \in Nat /\ book \in [1 .. Len(book) -> Orders]
<1>1. book \in Seq(Orders)
  BY DEF IsBook, Orders
<1> HIDE DEF Orders
<1> QED BY <1>1, LenProperties

\* One order more is its value more, and where all have a price its depth.
LEMMA OneOrderMore ==
  ASSUME NEW side \in Sides, NEW book, IsBook(book), NEW n \in Nat, n < Len(book)
  PROVE  /\ ValueOfFirst(n, side, book) \in Int
         /\ ValueOfFirst(n + 1, side, book)
              = ValueOfFirst(n, side, book) + ValueOf(side, book[n + 1])
         /\ (\A k \in 1 .. n + 1 : book[k].price > 0) =>
              DepthOfFirst(n + 1, side, book)
                = DepthOfFirst(n, side, book) + DepthOf(side, book[n + 1])
<1>1. Len(book) \in Nat /\ book \in [1 .. Len(book) -> Orders]
  BY BookOfOrders
<1>2. \A k \in 1 .. n + 1 : book[k] \in Orders
  BY <1>1
<1>3. /\ ValueOfFirst(n, side, book) \in Int
      /\ ValueOfFirst(n + 1, side, book)
           = ValueOfFirst(n, side, book) + ValueOf(side, book[n + 1])
  <2> DEFINE e == [k \in 1 .. n |-> ValueOf(side, book[k])]
             f == [k \in 1 .. n + 1 |-> ValueOf(side, book[k])]
  <2>1. \A k \in 1 .. n + 1 : ValueOf(side, book[k]) \in Int
    BY <1>2, OrderIsWorth
  <2>2. /\ e \in [1 .. n -> Int] /\ f \in [1 .. n + 1 -> Int]
        /\ \A k \in 1 .. n : e[k] = f[k]
        /\ f[n + 1] = ValueOf(side, book[n + 1])
    BY <2>1
  <2>3. ValueOfFirst(n, side, book) = Total(e) /\ ValueOfFirst(n + 1, side, book) = Total(f)
    BY DEF ValueOfFirst
  <2> HIDE DEF e, f
  <2>4. Total(e) \in Int /\ Total(f) = Total(e) + f[n + 1]
    BY <2>2, SumOfOneMore
  <2> QED BY <2>2, <2>3, <2>4
<1>4. ASSUME \A k \in 1 .. n + 1 : book[k].price > 0
      PROVE  DepthOfFirst(n + 1, side, book)
               = DepthOfFirst(n, side, book) + DepthOf(side, book[n + 1])
  <2> DEFINE e == [k \in 1 .. n |-> DepthOf(side, book[k])]
             f == [k \in 1 .. n + 1 |-> DepthOf(side, book[k])]
  <2>1. \A k \in 1 .. n + 1 : DepthOf(side, book[k]) \in Int
    BY <1>2, <1>4, OrderIsWorth
  <2>2. /\ e \in [1 .. n -> Int] /\ f \in [1 .. n + 1 -> Int]
        /\ \A k \in 1 .. n : e[k] = f[k]
        /\ f[n + 1] = DepthOf(side, book[n + 1])
    BY <2>1
  <2>3. DepthOfFirst(n, side, book) = Total(e) /\ DepthOfFirst(n + 1, side, book) = Total(f)
    BY DEF DepthOfFirst
  <2> HIDE DEF e, f
  <2>4. Total(e) \in Int /\ Total(f) = Total(e) + f[n + 1]
    BY <2>2, SumOfOneMore
  <2> QED BY <2>2, <2>3, <2>4
<1> QED BY <1>3, <1>4

\* No orders come to nothing.
LEMMA NoOrders ==
  ASSUME NEW side, NEW book
  PROVE  ValueOfFirst(0, side, book) = 0 /\ DepthOfFirst(0, side, book) = 0
<1> DEFINE e == [k \in 1 .. 0 |-> ValueOf(side, book[k])]
           f == [k \in 1 .. 0 |-> DepthOf(side, book[k])]
<1>1. 1 .. 0 = {}
  OBVIOUS
<1>2. e \in [1 .. 0 -> Int] /\ f \in [1 .. 0 -> Int]
  BY <1>1
<1>3. ValueOfFirst(0, side, book) = Total(e) /\ DepthOfFirst(0, side, book) = Total(f)
  BY DEF ValueOfFirst, DepthOfFirst
<1> HIDE DEF e, f
<1>4. Total(e) = 0 /\ Total(f) = 0
  BY <1>2, SumOfNone
<1> QED BY <1>3, <1>4

\* m orders are enough.
AreEnough(m, side, book) == m >= MIN_ORDERS /\ ValueOfFirst(m, side, book) >= MIN_VALUE

\* What has been read is the first m orders: as far as they have a price, and not
\* one more than is enough.
IsReadOf(read, m, side, book) ==
  /\ read.orders = m
  /\ read.value = ValueOfFirst(m, side, book)
  /\ read.depth = DepthOfFirst(m, side, book)
  /\ read.value > 0 => read.depth > 0
  /\ \A k \in 1 .. m : book[k].price > 0
  /\ \A j \in 0 .. (m - 1) : ~AreEnough(j, side, book)

\* Reading the first n orders has come to read, and stopped at order m, if it has:
\* enough were read, or the next has no price.
StoppedAt(read, n, m, side, book) ==
  /\ IsReadOf(read, m, side, book)
  /\ \/ ~read.zero /\ m = n
     \/ ~read.zero /\ AreEnough(m, side, book)
     \/ read.zero /\ m < n /\ ~AreEnough(m, side, book) /\ book[m + 1].price = 0

IsReading(read, n, side, book) ==
  /\ read \in Reads
  /\ \E m \in 0 .. n : StoppedAt(read, n, m, side, book)

LEMMA EnoughIsEnough ==
  ASSUME NEW read, NEW m, NEW side, NEW book, IsReadOf(read, m, side, book)
  PROVE  IsEnough(read) <=> AreEnough(m, side, book)
BY DEF IsReadOf, IsEnough, AreEnough

\* Reading goes on with the next order, or has stopped before it.
LEMMA ReadingGoesOn ==
  ASSUME NEW side \in Sides, NEW book, IsBook(book), NEW n \in Nat, n < Len(book),
         NEW read, IsReading(read, n, side, book)
  PROVE  IsReading(ReadOrder(side, read, book[n + 1]), n + 1, side, book)
<1> DEFINE order == book[n + 1]
           next == ReadOrder(side, read, order)
<1>1. read \in Reads
  BY DEF IsReading
<1>2. PICK m \in 0 .. n : StoppedAt(read, n, m, side, book)
  BY DEF IsReading
<1>3. order \in Orders /\ order = book[n + 1]
  <2>1. Len(book) \in Nat /\ book \in [1 .. Len(book) -> Orders]
    BY BookOfOrders
  <2> QED BY <2>1
<1>4. next \in Reads
  BY <1>1, <1>3, OrderIsRead
<1>5. IsReadOf(read, m, side, book)
  BY <1>2 DEF StoppedAt
<1>6. IsEnough(read) <=> AreEnough(m, side, book)
  BY <1>5, EnoughIsEnough
<1>7. CASE read.zero \/ IsEnough(read)
  <2>1. next = read
    BY <1>7 DEF ReadOrder
  <2>2. StoppedAt(read, n + 1, m, side, book)
    BY <1>1, <1>2, <1>6, <1>7 DEF StoppedAt, Reads
  <2>3. m \in 0 .. n + 1
    OBVIOUS
  <2> HIDE DEF next
  <2> QED BY <1>1, <2>1, <2>2, <2>3 DEF IsReading, next
<1>8. CASE ~read.zero /\ ~IsEnough(read)
  <2>1. m = n
    BY <1>2, <1>6, <1>8 DEF StoppedAt
  <2>2. CASE order.price = 0
    <3>1. next = [read EXCEPT !.zero = TRUE]
      BY <1>8, <2>2 DEF ReadOrder
    <3>2. /\ next.orders = read.orders /\ next.value = read.value
          /\ next.depth = read.depth /\ next.zero
      BY <1>1, <3>1 DEF Reads
    <3>3. IsReadOf(next, n, side, book)
      BY <1>5, <2>1, <3>2 DEF IsReadOf
    <3>4. StoppedAt(next, n + 1, n, side, book)
      BY <1>3, <1>6, <1>8, <2>1, <2>2, <3>2, <3>3 DEF StoppedAt
    <3>5. n \in 0 .. n + 1
      OBVIOUS
    <3> HIDE DEF next
    <3> QED BY <1>4, <3>4, <3>5 DEF IsReading, next
  <2>3. CASE order.price # 0
    <3>1. order.price > 0
      BY <1>3, <2>3 DEF Orders
    <3>2. next = [orders |-> read.orders + 1,
                  value |-> read.value + ValueOf(side, order),
                  depth |-> read.depth + DepthOf(side, order), zero |-> FALSE]
      BY <1>8, <2>3 DEF ReadOrder
    <3>3. /\ next.orders = n + 1
          /\ next.value = read.value + ValueOf(side, order)
          /\ next.depth = read.depth + DepthOf(side, order)
          /\ ~next.zero
      BY <1>5, <2>1, <3>2 DEF IsReadOf
    <3>4. \A k \in 1 .. n + 1 : book[k].price > 0
      BY <1>3, <1>5, <2>1, <3>1 DEF IsReadOf
    <3>5. /\ next.value = ValueOfFirst(n + 1, side, book)
          /\ next.depth = DepthOfFirst(n + 1, side, book)
      BY <1>3, <1>5, <2>1, <3>3, <3>4, OneOrderMore DEF IsReadOf
    <3>6. next.value > 0 => next.depth > 0
      <4>1. /\ ValueOf(side, order) \in Nat /\ DepthOf(side, order) \in Nat
            /\ ValueOf(side, order) > 0 => DepthOf(side, order) > 0
        BY <1>3, <3>1, OrderIsWorth
      <4>2. /\ read.value \in Nat /\ read.depth \in Nat
            /\ read.value > 0 => read.depth > 0
        BY <1>1, <1>5 DEF Reads, IsReadOf
      <4> HIDE DEF next, order
      <4> QED BY <3>3, <4>1, <4>2
    <3>7. \A j \in 0 .. (n + 1) - 1 : ~AreEnough(j, side, book)
      <4>1. \A j \in 0 .. n - 1 : ~AreEnough(j, side, book)
        BY <1>5, <2>1 DEF IsReadOf
      <4>2. ~AreEnough(n, side, book)
        BY <1>6, <1>8, <2>1
      <4>3. \A j \in 0 .. (n + 1) - 1 : j = n \/ j \in 0 .. n - 1
        OBVIOUS
      <4> QED BY <4>1, <4>2, <4>3
    <3> HIDE DEF next
    <3>8. StoppedAt(next, n + 1, n + 1, side, book)
      BY <3>3, <3>4, <3>5, <3>6, <3>7 DEF StoppedAt, IsReadOf
    <3>9. n + 1 \in 0 .. n + 1
      OBVIOUS
    <3> QED BY <1>4, <3>8, <3>9 DEF IsReading, next
  <2> QED BY <2>2, <2>3
<1>9. read.zero \in BOOLEAN
  BY <1>1 DEF Reads
<1> QED BY <1>7, <1>8, <1>9

\* A page that begins where the reading is takes it to the end of the page.
LEMMA ReadingAPage ==
  ASSUME NEW side \in Sides, NEW book, IsBook(book),
         NEW offset \in Nat, NEW n \in Nat, offset + n <= Len(book),
         NEW page \in [1 .. n -> Orders], \A i \in 1 .. n : page[i] = book[offset + i],
         NEW read, IsReading(read, offset, side, book)
  PROVE  IsReading(ReadPage(side, read, page), offset + n, side, book)
<1>1. read \in Reads /\ Len(book) \in Nat
  BY BookOfOrders DEF IsReading
<1>2. PICK u : ReadsOn(u, side, read, page, n)
  BY <1>1, PageIsRead
<1>3. /\ u[0] = read
      /\ \A i \in 1 .. n : u[i] = ReadOrder(side, u[i - 1], page[i])
      /\ ReadPage(side, read, page) = u[n]
  BY <1>2 DEF ReadsOn
<1> DEFINE Q == {i \in Nat : i <= n => IsReading(u[i], offset + i, side, book)}
<1>4. 0 \in Q
  BY <1>3
<1>5. ASSUME NEW i \in Nat, i \in Q PROVE i + 1 \in Q
  <2> SUFFICES ASSUME i + 1 <= n PROVE IsReading(u[i + 1], offset + (i + 1), side, book)
    OBVIOUS
  <2>1. IsReading(u[i], offset + i, side, book)
    BY <1>5
  <2>2. i + 1 \in 1 .. n /\ (i + 1) - 1 = i
    OBVIOUS
  <2>3. offset + i \in Nat /\ offset + i < Len(book)
        /\ (offset + i) + 1 = offset + (i + 1)
    BY <1>1
  <2>4. u[i + 1] = ReadOrder(side, u[i], book[(offset + i) + 1])
    BY <1>3, <2>2, <2>3
  <2>5. IsReading(ReadOrder(side, u[i], book[(offset + i) + 1]), (offset + i) + 1, side, book)
    BY <2>1, <2>3, ReadingGoesOn
  <2> QED BY <2>3, <2>4, <2>5
<1>6. Nat \subseteq Q
  <2> HIDE DEF Q
  <2> QED BY <1>4, <1>5, EveryNumber
<1>7. IsReading(u[n], offset + n, side, book)
  BY <1>6
<1> QED BY <1>3, <1>7

\* A page of a book is so many of its orders.
LEMMA PageOfABook ==
  ASSUME NEW book, IsBook(book), NEW offset \in Nat, NEW n \in Nat,
         offset + n <= Len(book), n <= LIMIT, n = LIMIT \/ offset + n = Len(book)
  PROVE  /\ Page(book, offset) \in [1 .. n -> Orders]
         /\ Len(Page(book, offset)) = n
         /\ \A i \in 1 .. n : Page(book, offset)[i] = book[offset + i]
<1>1. Len(book) \in Nat /\ book \in [1 .. Len(book) -> Orders] /\ LIMIT \in Nat
  BY BookOfOrders, BookNumbers
<1> DEFINE page == Page(book, offset)
           end == IF offset + LIMIT < Len(book) THEN offset + LIMIT ELSE Len(book)
<1>2. page = SubSeq(book, offset + 1, offset + n)
  <2>1. end = offset + n
    <3>1. Len(book) \in Nat /\ LIMIT \in Nat
      BY <1>1
    <3>2. CASE n = LIMIT
      BY <3>1, <3>2
    <3>3. CASE n # LIMIT
      <4>1. offset + n = Len(book) /\ n < LIMIT
        BY <3>1, <3>3
      <4>2. ~(offset + LIMIT < Len(book))
        BY <3>1, <4>1
      <4> QED BY <4>1, <4>2
    <3> QED BY <3>2, <3>3
  <2>2. page = SubSeq(book, offset + 1, end)
    BY DEF Page
  <2> QED BY <2>1, <2>2
<1>3. \A i \in offset + 1 .. offset + n : book[i] \in Orders
  BY <1>1
<1> HIDE DEF page
<1>4. /\ page \in Seq(Orders)
      /\ Len(page) = IF offset + 1 <= offset + n THEN (offset + n) - (offset + 1) + 1 ELSE 0
      /\ \A i \in 1 .. (offset + n) - (offset + 1) + 1 : page[i] = book[(offset + 1) + i - 1]
  <2> DEFINE a == offset + 1
             b == offset + n
             s == SubSeq(book, a, b)
  <2>1. a \in Int /\ b \in Int
    OBVIOUS
  <2>2. \A i \in a .. b : book[i] \in Orders
    BY <1>3
  <2>3. page = s
    BY <1>2
  <2> HIDE DEF a, b, Orders
  <2>4. /\ s \in Seq(Orders)
        /\ Len(s) = IF a <= b THEN b - a + 1 ELSE 0
        /\ \A i \in 1 .. b - a + 1 : s[i] = book[a + i - 1]
    BY <2>1, <2>2, SubSeqProperties
  <2> HIDE DEF s
  <2> QED BY <2>3, <2>4 DEF a, b
<1>5. Len(page) = n
  BY <1>4
<1>6. page \in [1 .. Len(page) -> Orders]
  BY <1>4, LenProperties
<1>7. \A i \in 1 .. n : page[i] = book[offset + i]
  <2> SUFFICES ASSUME NEW i \in 1 .. n PROVE page[i] = book[offset + i]
    OBVIOUS
  <2>1. i \in 1 .. (offset + n) - (offset + 1) + 1 /\ (offset + 1) + i - 1 = offset + i
    OBVIOUS
  <2> QED BY <1>4, <2>1
<1> QED BY <1>5, <1>6, <1>7 DEF page

\* The orders that are read at most.
Within(book) == Smaller(Len(book), MAX_ITERATIONS * LIMIT)

\* A reading that has stopped stays what it is further on.
LEMMA StoppedStays ==
  ASSUME NEW side, NEW book, NEW n \in Nat, NEW N \in Nat, n <= N, NEW read,
         IsReading(read, n, side, book), n = N \/ read.zero \/ IsEnough(read)
  PROVE  IsReading(read, N, side, book)
<1>1. PICK m \in 0 .. n : StoppedAt(read, n, m, side, book)
  BY DEF IsReading
<1>2. IsEnough(read) <=> AreEnough(m, side, book)
  BY <1>1, EnoughIsEnough DEF StoppedAt
<1>3. read.zero \in BOOLEAN /\ read \in Reads
  BY DEF IsReading, Reads
<1>4. StoppedAt(read, N, m, side, book)
  BY <1>1, <1>2, <1>3 DEF StoppedAt
<1>5. m \in 0 .. N
  OBVIOUS
<1> QED BY <1>3, <1>4, <1>5 DEF IsReading

\* The pages that are read are the orders from the top, one after the other.
LEMMA SideIsRead ==
  ASSUME NEW side \in Sides, NEW book, IsBook(book)
  PROVE  IsReading(ReadSide(side, book), Within(book), side, book)
<1> DEFINE L      == Len(book)
           n      == Smaller(L, LIMIT)
           first  == Page(book, 0)
           one    == ReadPage(side, Nothing, first)
           second == Page(book, one.orders)
<1>1. L \in Nat /\ LIMIT \in Nat \ {0} /\ Within(book) = Smaller(L, LIMIT + LIMIT)
  BY BookOfOrders, BookNumbers DEF Within
<1>2. /\ n \in Nat /\ n <= L /\ n <= LIMIT /\ (n = LIMIT \/ n = L)
      /\ Within(book) \in Nat /\ n <= Within(book)
      /\ L < LIMIT => n = Within(book)
  BY <1>1 DEF Smaller
<1>3. IsReading(Nothing, 0, side, book)
  <2>1. Nothing \in Reads /\ ~Nothing.zero
    BY DEF Nothing, Reads
  <2>2. IsReadOf(Nothing, 0, side, book)
    BY NoOrders DEF Nothing, IsReadOf
  <2>3. StoppedAt(Nothing, 0, 0, side, book)
    BY <2>1, <2>2 DEF StoppedAt
  <2> QED BY <2>1, <2>3 DEF IsReading
<1>4. /\ first \in [1 .. n -> Orders] /\ Len(first) = n
      /\ \A i \in 1 .. n : first[i] = book[0 + i]
  <2>1. 0 + n <= Len(book) /\ (n = LIMIT \/ 0 + n = Len(book))
    BY <1>1, <1>2
  <2>2. n \in Nat /\ n <= LIMIT /\ 0 \in Nat
    BY <1>2
  <2> HIDE DEF n
  <2> QED BY <2>1, <2>2, PageOfABook
<1> HIDE DEF first
<1>5. IsReading(one, n, side, book)
  <2>1. 0 + n <= Len(book) /\ 0 + n = n /\ n \in Nat
    BY <1>1, <1>2
  <2> HIDE DEF n
  <2>2. IsReading(ReadPage(side, Nothing, first), 0 + n, side, book)
    BY <1>3, <1>4, <2>1, ReadingAPage
  <2> QED BY <2>1, <2>2
<1> HIDE DEF one
<1>6. CASE IsEnough(one) \/ one.zero \/ Len(first) < LIMIT
  <2>1. ReadSide(side, book) = one
    BY <1>6 DEF ReadSide, one, first
  <2>2. n = Within(book) \/ one.zero \/ IsEnough(one)
    BY <1>1, <1>2, <1>4, <1>6
  <2> HIDE DEF n
  <2>3. IsReading(one, Within(book), side, book)
    BY <1>2, <1>5, <2>2, StoppedStays
  <2> QED BY <2>1, <2>3
<1>7. CASE ~(IsEnough(one) \/ one.zero \/ Len(first) < LIMIT)
  <2>1. n = LIMIT
    BY <1>1, <1>2, <1>4, <1>7
  <2>2. PICK m \in 0 .. n : StoppedAt(one, n, m, side, book)
    BY <1>5 DEF IsReading
  <2>3. one.orders = m /\ m = n
    <3>1. IsReadOf(one, m, side, book)
      BY <2>2 DEF StoppedAt
    <3>2. ~AreEnough(m, side, book)
      BY <1>7, <3>1, EnoughIsEnough
    <3> QED BY <1>7, <2>2, <3>1, <3>2 DEF StoppedAt, IsReadOf
  <2> DEFINE k == Within(book) - LIMIT
  <2>4. /\ k \in Nat /\ LIMIT + k = Within(book)
        /\ LIMIT + k <= L /\ k <= LIMIT /\ (k = LIMIT \/ LIMIT + k = L)
    BY <1>1, <1>2, <2>1 DEF Smaller
  <2>5. second = Page(book, LIMIT)
    BY <2>1, <2>3
  <2> HIDE DEF k, second, n
  <2>6. /\ second \in [1 .. k -> Orders]
        /\ \A i \in 1 .. k : second[i] = book[LIMIT + i]
    <3>1. /\ LIMIT \in Nat /\ k \in Nat
          /\ LIMIT + k <= Len(book) /\ k <= LIMIT /\ (k = LIMIT \/ LIMIT + k = Len(book))
      BY <1>1, <2>4
    <3>2. /\ Page(book, LIMIT) \in [1 .. k -> Orders]
          /\ \A i \in 1 .. k : Page(book, LIMIT)[i] = book[LIMIT + i]
      BY <3>1, PageOfABook
    <3> QED BY <2>5, <3>2
  <2>7. IsReading(ReadPage(side, one, second), LIMIT + k, side, book)
    <3>1. IsReading(one, LIMIT, side, book)
      BY <1>5, <2>1
    <3> QED BY <1>1, <2>4, <2>6, <3>1, ReadingAPage
  <2>8. ReadSide(side, book) = ReadPage(side, one, second)
    BY <1>7 DEF ReadSide, one, first, second
  <2> QED BY <2>4, <2>7, <2>8
<1> QED BY <1>6, <1>7

\* The price of a side rests on the fewest orders that are enough.
LEMMA SideRestsOnDepth ==
  ASSUME NEW side \in Sides, NEW book, IsBook(book)
  PROVE  SidePrice(side, book) =
           {Truncate(side, FromRatio(ValueOfFirst(n, side, book), DepthOfFirst(n, side, book))) :
              n \in {n \in EnoughOrders(side, book) :
                       /\ \A m \in EnoughOrders(side, book) : n <= m
                       /\ \A k \in 1 .. n : book[k].price > 0}}
<1> DEFINE read == ReadSide(side, book)
           N == Within(book)
           Price(n) == Truncate(side, FromRatio(ValueOfFirst(n, side, book),
                                                DepthOfFirst(n, side, book)))
           Least == {n \in EnoughOrders(side, book) :
                       /\ \A m \in EnoughOrders(side, book) : n <= m
                       /\ \A k \in 1 .. n : book[k].price > 0}
<1>1. N \in Nat /\ MIN_ORDERS \in Nat \ {0} /\ MIN_VALUE \in Nat \ {0}
  BY BookOfOrders, BookNumbers DEF Within, Smaller
<1>2. PICK m \in 0 .. N : StoppedAt(read, N, m, side, book) /\ read \in Reads
  BY SideIsRead DEF IsReading
<1> HIDE DEF N
<1>3. \A n : n \in EnoughOrders(side, book) <=> n \in 0 .. N /\ AreEnough(n, side, book)
  <2>1. \A n \in Int : n \in MIN_ORDERS .. N <=> n \in 0 .. N /\ n >= MIN_ORDERS
    BY <1>1
  <2>2. EnoughOrders(side, book) = {n \in MIN_ORDERS .. N : ValueOfFirst(n, side, book) >= MIN_VALUE}
    BY DEF EnoughOrders, N, Within
  <2> QED BY <2>1, <2>2 DEF AreEnough
<1> HIDE DEF read
<1>4. IsReadOf(read, m, side, book) /\ (IsEnough(read) <=> AreEnough(m, side, book))
  BY <1>2, EnoughIsEnough DEF StoppedAt
<1>5. SidePrice(side, book) =
        IF IsEnough(read) /\ read.depth > 0
          THEN {Truncate(side, FromRatio(read.value, read.depth))} ELSE {}
  <2>1. \A x : x \in {r \in {read} : IsEnough(r) /\ r.depth > 0} <=>
                 x = read /\ IsEnough(read) /\ read.depth > 0
    OBVIOUS
  <2> QED BY <2>1 DEF SidePrice, read
<1>6. CASE AreEnough(m, side, book)
  <2>1. read.value >= MIN_VALUE /\ read.depth > 0
    <3>1. read.value >= MIN_VALUE
      BY <1>4, <1>6 DEF IsReadOf, AreEnough
    <3>2. read.value \in Nat
      BY <1>2 DEF Reads
    <3>3. read.value > 0
      BY <1>1, <3>1, <3>2
    <3> QED BY <1>4, <3>1, <3>3 DEF IsReadOf
  <2>2. Truncate(side, FromRatio(read.value, read.depth)) = Price(m)
    BY <1>4 DEF IsReadOf
  <2>3. \A n \in EnoughOrders(side, book) : m <= n
    <3> SUFFICES ASSUME NEW n \in EnoughOrders(side, book), ~(m <= n) PROVE FALSE
      OBVIOUS
    <3>1. n \in 0 .. N /\ AreEnough(n, side, book)
      BY <1>3
    <3>2. n \in 0 .. (m - 1)
      BY <1>1, <3>1
    <3> QED BY <1>4, <3>1, <3>2 DEF IsReadOf
  <2>4. m \in EnoughOrders(side, book)
    BY <1>3, <1>6
  <2>5. \A n \in EnoughOrders(side, book) : n \in Nat
    BY <1>1, <1>3
  <2>6. Least = {m}
    <3>1. m \in Least
      BY <1>4, <2>3, <2>4 DEF IsReadOf
    <3>2. ASSUME NEW n \in Least PROVE n = m
      <4>1. n \in EnoughOrders(side, book) /\ n <= m
        BY <2>4
      <4>2. m <= n /\ n \in Nat /\ m \in Nat
        BY <2>3, <2>4, <2>5, <4>1
      <4> QED BY <4>1, <4>2
    <3> HIDE DEF Least
    <3> QED BY <3>1, <3>2
  <2>7. SidePrice(side, book) = {Price(m)}
    <3> HIDE DEF Price
    <3> QED BY <1>4, <1>5, <1>6, <2>1, <2>2
  <2>8. {Price(n) : n \in Least} = {Price(m)}
    <3> HIDE DEF Price, Least
    <3> QED BY <2>6
  <2> QED BY <2>7, <2>8
<1>7. CASE ~AreEnough(m, side, book)
  <2>1. SidePrice(side, book) = {}
    BY <1>4, <1>5, <1>7
  <2>2. ASSUME NEW n \in Least PROVE FALSE
    <3>1. n \in 0 .. N /\ AreEnough(n, side, book)
      BY <1>3
    <3>2. n \notin 0 .. (m - 1) /\ n # m
      BY <1>4, <1>7, <3>1 DEF IsReadOf
    <3>3. m < n /\ m + 1 \in 1 .. n
      BY <1>1, <3>1, <3>2
    <3>4. m < N
      BY <1>1, <3>1, <3>3
    <3>5. book[m + 1].price = 0
      BY <1>1, <1>2, <1>7, <3>4 DEF StoppedAt
    <3>6. book[m + 1].price > 0
      BY <3>3
    <3> QED BY <3>5, <3>6
  <2>3. Least = {}
    <3> HIDE DEF Least
    <3> QED BY <2>2
  <2>4. {Price(n) : n \in Least} = {}
    <3> HIDE DEF Price, Least
    <3> QED BY <2>3
  <2> QED BY <2>1, <2>4
<1> QED BY <1>6, <1>7

\* Wherever the pages of a book begin, and whatever the markets do, the price of a
\* pair is the average over the fewest orders that are enough (get_side_price).
THEOREM PricesRestOnDepth == Spec => []PriceRestsOnDepth
<1>1. Spec => []Typed
  BY TypedInit, TypedStep, PTL DEF Spec
<1>2. ASSUME Typed PROVE PriceRestsOnDepth
  <2> SUFFICES ASSUME NEW p \in Pairs, NEW side \in Sides
               PROVE  LET book == pairs[p][side]
                      IN  SidePrice(side, book) =
                            {Truncate(side, FromRatio(ValueOfFirst(n, side, book),
                                                      DepthOfFirst(n, side, book))) :
                               n \in {n \in EnoughOrders(side, book) :
                                        /\ \A m \in EnoughOrders(side, book) : n <= m
                                        /\ \A k \in 1 .. n : book[k].price > 0}}
    BY DEF PriceRestsOnDepth
  <2>1. IsBook(pairs[p][side])
    BY <1>2 DEF Typed, MarketsAreTyped, IsPair
  <2> QED BY <2>1, SideRestsOnDepth, Zenon
<1> QED BY <1>1, <1>2, PTL

=============================================================================
