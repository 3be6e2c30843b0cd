----------------------------- MODULE Distribution -----------------------------
(***************************************************************************)
(* How coins leave a strategy: a Distribute action, and Withdraw.          *)
(*                                                                         *)
(* A distribution shares out the balances of its denoms among its          *)
(* destinations, to which init has added the affiliates, the fee collector *)
(* first.  All the amounts are computed before the first message is        *)
(* delivered; each message may fail alone, and its recipient may deposit   *)
(* or be the owner who withdraws.  The engine that executes the action is  *)
(* that of module Strategy.  What a recipient does with coins is external, *)
(* and the totals that a destination records (distributions), which nothing*)
(* reads, are left out.                                                    *)
(***************************************************************************)
EXTENDS Integers, Sequences, FiniteSets, Functions

CONSTANTS
  Denoms,
  Recipients,    \* whoever coins may be sent to
  CALC,          \* the fee collector
  Affiliates,    \* the affiliates the owner named: a sequence of [to, bps]
  Lists,         \* the destinations that may be proposed: sequences of [to, shares]
  MINIMUM_TOTAL_SHARES,
  UNIT,          \* a Decimal counts in parts of UNIT, 10^18 in the code
  Amounts,       \* bound: the amounts deposited
  Requests,      \* bound: the coins asked for
  MaxEvents,     \* bound: the deposits, withdrawals and failures together
  MaxDestinations \* bound: the length of a list, affiliates included

BASE_FEE_BPS == 25
MIN_FEE_BPS == 15
MAX_TOTAL_AFFILIATE_BPS == 200

SatSub(a, b) == IF a > b THEN a - b ELSE 0

Larger(a, b) == IF a > b THEN a ELSE b

Smaller(a, b) == IF a < b THEN a ELSE b

BpsOf(fees) == SumFunction([k \in DOMAIN fees |-> fees[k].bps])

\* Affiliates take the place of up to ten points of the base fee.
Fees ==
  <<[to  |-> CALC,
     bps |-> Larger(SatSub(BASE_FEE_BPS, BpsOf(Affiliates)), MIN_FEE_BPS)]>>
    \o Affiliates

Destinations == [to : Recipients, shares : Nat]

QuotedBps == BpsOf(Fees)

\* What the manager accepts when it instantiates a strategy.
ASSUME DistributionAssumption ==
  /\ CALC \in Recipients
  /\ Affiliates \in Seq([to : Recipients, bps : Nat])
  /\ BpsOf(Affiliates) <= MAX_TOTAL_AFFILIATE_BPS
  /\ Lists \subseteq Seq(Destinations)
  /\ UNIT \in Nat \ {0}
  /\ MINIMUM_TOTAL_SHARES \in Nat \ {0}
  /\ Amounts \subseteq Nat \ {0}
  /\ Requests \subseteq [Denoms -> Nat]
  /\ MaxEvents \in Nat
  /\ MaxDestinations \in Nat

Coins == [Denoms -> Nat]

NoCoins == [d \in Denoms |-> 0]

Plus(c, e) == [d \in Denoms |-> c[d] + e[d]]

Minus(c, e) == [d \in Denoms |-> c[d] - e[d]]

Covers(c, e) == \A d \in Denoms : e[d] <= c[d]

\* The sum of a family of coins.
SumOfCoins(c) ==
  [d \in Denoms |-> SumFunction([k \in DOMAIN c |-> c[k][d]])]

VARIABLES
  destinations, \* of the stored action
  withdrawals,  \* WITHDRAWALS: the coins the owner has withdrawn
  balance,      \* the bank: the strategy's coins
  messages,     \* the transfers of the distribution under way
  events,       \* history: the deposits, withdrawals and failures so far
  alone,        \* history: no deposit or withdrawal since the distribution began
  bounced       \* history: the coins of the transfers that failed, as long as `alone'

vars == <<destinations, withdrawals, balance, messages, events, bounced, alone>>

Idle == messages = <<>>

-----------------------------------------------------------------------------
(* The shares *)

SharesOf(g) == SumFunction([i \in DOMAIN g |-> g[i].shares])

DivCeil(a, b) == (a + b - 1) \div b

Destination(to, shares) == [to |-> to, shares |-> shares]

\* with_affiliates
WithAffiliates(g) ==
  [i \in DOMAIN g |-> Destination(g[i].to, g[i].shares)] \o
  [k \in DOMAIN Fees |->
     Destination(Fees[k].to, DivCeil(SharesOf(g) * Fees[k].bps, 10000))]

Initialises(g) ==
  /\ g # <<>>
  /\ \A i \in DOMAIN g : g[i].shares > 0
  /\ SharesOf(g) >= MINIMUM_TOTAL_SHARES

\* Slip: a share is rounded up.
ShareUp(i, d) ==
  DivCeil(balance[d] * ((destinations[i].shares * UNIT)
                          \div SharesOf(destinations)), UNIT)

\* A ratio is cut to the precision of a Decimal before the share is cut to coins.
Share(i, d) ==
  (balance[d] * ((destinations[i].shares * UNIT) \div SharesOf(destinations)))
    \div UNIT

\* Slip: the last destination, too, is given no more than its share.
AmountByShare(i, d) == Share(i, d)

\* The last destination is given what remains.
Amount(i, d) ==
  IF i = Len(destinations)
  THEN balance[d] - SumFunction([j \in 1 .. i - 1 |-> Share(j, d)])
  ELSE Share(i, d)

Given(i) == [d \in Denoms |-> Amount(i, d)]

\* The destinations to which anything is left to give, in their order.
PaidOnes ==
  LET paid == {i \in DOMAIN destinations : Given(i) # NoCoins}
      upTo[i \in 0 .. Len(destinations)] ==
        IF i = 0 THEN <<>>
        ELSE IF i \in paid THEN Append(upTo[i - 1], i) ELSE upTo[i - 1]
  IN  upTo[Len(destinations)]

-----------------------------------------------------------------------------

Init ==
  /\ \E g \in Lists : Initialises(g) /\ destinations = WithAffiliates(g)
  /\ withdrawals = NoCoins
  /\ balance = NoCoins
  /\ messages = <<>>
  /\ events = 0
  /\ bounced = NoCoins
  /\ alone = FALSE

Event == events < MaxEvents /\ events' = events + 1

Deposit(d, amount) ==
  /\ Event
  /\ balance' = [balance EXCEPT ![d] = @ + amount]
  /\ alone' = FALSE
  /\ bounced' = NoCoins
  /\ UNCHANGED <<destinations, withdrawals, messages>>

\* A destination that is given nothing is not kept.  The call fails, and is undone
\* with all that it is part of, when those left have no shares: Decimal::from_ratio
\* does not divide by zero.
Distribute ==
  /\ Idle
  /\ balance # NoCoins
  /\ SharesOf(destinations) > 0
  /\ LET paid == PaidOnes
     IN /\ destinations' = [k \in DOMAIN paid |-> destinations[paid[k]]]
        /\ messages' = [k \in DOMAIN paid |-> [to    |-> destinations[paid[k]].to,
                                              coins |-> Given(paid[k])]]
  /\ bounced' = NoCoins
  /\ alone' = TRUE
  /\ UNCHANGED <<withdrawals, balance, events>>

Deliver ==
  /\ ~Idle
  /\ Covers(balance, Head(messages).coins)
  /\ balance' = Minus(balance, Head(messages).coins)
  /\ messages' = Tail(messages)
  /\ UNCHANGED <<destinations, withdrawals, events, bounced, alone>>

\* The bank or the recipient refuses: the coins stay, and nothing else happens.
Bounce ==
  /\ ~Idle
  /\ bounced' = IF alone THEN Plus(bounced, Head(messages).coins) ELSE bounced
  /\ messages' = Tail(messages)
  /\ IF Covers(balance, Head(messages).coins) THEN Event ELSE UNCHANGED events
  /\ UNCHANGED <<destinations, withdrawals, balance, alone>>

\* A list that does not initialise is refused with the whole transaction.
Update(g) ==
  /\ Idle
  /\ Initialises(g)
  /\ Len(g) + Len(Fees) <= MaxDestinations
  /\ destinations' = WithAffiliates(g)
  /\ UNCHANGED <<withdrawals, balance, messages, events, bounced, alone>>

Taken(asked) == [d \in Denoms |-> Smaller(balance[d], asked[d])]

FeeOn(k, coins) == [d \in Denoms |-> (coins[d] * Fees[k].bps) \div 10000]

AllFees(coins) == SumOfCoins([k \in DOMAIN Fees |-> FeeOn(k, coins)])

\* Slip: the fees are taken on top of what the owner asked for.
KeptWhole(coins) == coins

Kept(coins) == [d \in Denoms |-> SatSub(coins[d], AllFees(coins)[d])]

\* Withdraw, which sends all its transfers or none: it is undone if the balance
\* does not cover them.
Withdraw(asked) ==
  LET coins == Taken(asked)
      sent  == Plus(Kept(coins), AllFees(coins))
  IN /\ coins # NoCoins
     /\ Covers(balance, sent)
     /\ balance' = Minus(balance, sent)
     /\ withdrawals' = Plus(withdrawals, Kept(coins))
     /\ alone' = FALSE
     /\ bounced' = NoCoins
     /\ Event
     /\ UNCHANGED <<destinations, messages>>

Next ==
  \/ \E d \in Denoms : \E amount \in Amounts : Deposit(d, amount)
  \/ Distribute
  \/ Deliver
  \/ Bounce
  \/ \E g \in Lists \cup {destinations} : Update(g)
  \/ \E asked \in Requests : Withdraw(asked)

Spec == Init /\ [][Next]_vars

-----------------------------------------------------------------------------
(* Properties *)

\* Balances, transfers and records are coins, and somebody is always left to give to,
\* if only the last of the affiliates, who may have no shares.
TypeOK ==
  /\ \A i \in DOMAIN destinations : destinations[i].shares \in Nat
  /\ destinations # <<>>
  /\ {withdrawals, balance, bounced} \subseteq Coins
  /\ \A k \in DOMAIN messages : messages[k].coins \in Coins
  /\ events \in 0 .. MaxEvents

\* Unless others intervene, the transfers of a distribution come to all there is:
\* each is covered when its turn comes, and none of the coins is left behind, but
\* those of transfers that failed.
SharesOutTheBalance ==
  alone =>
    balance = Plus(bounced,
                   SumOfCoins([k \in DOMAIN messages |-> messages[k].coins]))

\* A distribution gives each destination its share, to within a coin and a part
\* in UNIT of the balance for the two roundings; the last gains what all the others
\* lose by theirs.  It is not dropped, unless it has no share and they lose nothing.
GivesFairShares ==
  [][Distribute =>
       LET n == Len(destinations)
           total == SharesOf(destinations)
           paid == PaidOnes
           Got(i, d) == SumFunction([k \in {l \in DOMAIN messages' : paid[l] = i} |->
                                     messages'[k].coins[d]])
           Due(i, d) == balance[d] * destinations[i].shares
           Roundings(d) == 1 + DivCeil(balance[d], UNIT)
       IN  /\ destinations' # <<>>
           /\ destinations[n].shares > 0 \/ (\E d \in Denoms : Got(n, d) > 0)
                => destinations'[Len(destinations')] = destinations[n]
           /\ \A d \in Denoms :
             /\ \A i \in 1 .. n - 1 :
                  /\ Got(i, d) * total <= Due(i, d)
                  /\ Due(i, d) < (Got(i, d) + Roundings(d)) * total
             /\ Due(n, d) <= Got(n, d) * total
             /\ Got(n, d) * total < Due(n, d) + n * Roundings(d) * total]_vars

\* A withdrawal takes from the strategy what was asked for, or all there is, with
\* the fees: rounded in the owner's favour, they are no more than what is quoted.
WithdrawTakesWhatIsAsked ==
  [][\A asked \in Requests : Withdraw(asked) =>
       \A d \in Denoms :
         /\ balance[d] - balance'[d] = Taken(asked)[d]
         /\ (withdrawals'[d] - withdrawals[d]) * 10000
              >= Taken(asked)[d] * (10000 - QuotedBps)]_vars

Collectors == {Fees[k].to : k \in DOMAIN Fees}

\* The documentation of the fees: their points on all distributions.  A coin for
\* each destination is allowed for the roundings.
FeesAreAsQuoted ==
  [][Distribute =>
       \A d \in Denoms :
         SumFunction([k \in {l \in DOMAIN messages' : messages'[l].to \in Collectors} |->
                        messages'[k].coins[d]])
           <= DivCeil(balance[d] * QuotedBps, 10000) + MaxDestinations]_vars

=============================================================================
