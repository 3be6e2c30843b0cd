# Verification of the CALC contracts

CALC automates trading on a Cosmos chain with three contracts. A **manager**
deploys and controls strategies, a **strategy** runs a graph of conditions and
actions on the coins it holds, and a **scheduler** keeps triggers that anyone may
execute for a rebate once their time or block has come. This directory holds
TLA+ models of them, the TLC instances that check the models, and proofs about
them for the TLA+ proof system.

All paths below are relative to the repository; `calc-rs` stands for
`packages/calc-rs/src`.

## The system

| Part | Code | State it keeps | Operations |
|---|---|---|---|
| Manager | `contracts/manager/src` | `STRATEGIES` (id, owner, status, times, label; four indexes), `STRATEGY_COUNTER`, `CONFIG` | `Instantiate`, `Execute`, `Update`, `UpdateStatus`, `UpdateLabel`, paginated queries |
| Strategy: node store | `contracts/strategy/src/state.rs` | `NODES`, index to node | `init` (validation and Kahn's sort), `load`, `save`, `get_next` |
| Strategy: process engine | `contracts/strategy/src/contract.rs` | `NODES`, `PATH`, `MANAGER`, `OWNER`, `AFFILIATES`, `DEPOSITS`, `WITHDRAWALS` | `Init`, `Execute`, `Update`, `Withdraw`, `Cancel`, `Process`, `reply` |
| Scheduler | `contracts/scheduler/src` | `TRIGGERS` (two indexes), its balance | `Create`, `Execute`, `reply`, `Filtered`, `CanExecute` |
| Schedule, cadence | `calc-rs/conditions/schedule.rs`, `calc-rs/cadence.rs` | cadence, next cadence, executions (inside a node) | `is_due`, `crank`, `execute`, `commit` |
| Other conditions | `calc-rs/conditions` | none | `is_satisfied` |
| Limit order | `calc-rs/actions/limit_orders` | price of the current order (inside a node) | `execute`, `commit`, `cancel`, `balances` |
| Swap | `calc-rs/actions/swaps` | routes, adjusted amounts (inside a node) | `best_quote`, `execute` |
| Distribution | `calc-rs/actions/distribution.rs` | destinations and what they received (inside a node) | `init`, `execute` |
| Order book prices | `calc-rs/rujira.rs` | none | volume weighted price over pages |
| Encodings | `calc-rs/thorchain.rs` | none | hand written protobuf and JSON |

How the parts interact:

- The manager deploys a strategy and forwards `Execute`, `Update` and status
  changes to it. Anyone may execute an active strategy; only its owner may update
  it or change its status.
- The strategy walks its nodes in `Process`. A node answers with messages; each is
  a submessage whose outcome `reply` ignores, and after them comes a `Process`
  message of the strategy to itself that commits the node and goes on. When a node
  answers with nothing the loop goes on at once.
- A schedule node answers with a `Create` to the scheduler, paid with a rebate; the
  trigger calls the manager's `Execute` for the strategy when a keeper executes it.
- A message may call any contract, and that contract may call the manager, the
  strategy's manager-guarded operations through it, or the scheduler, before the
  sender's transaction is over.

What makes this hard to test is not parallelism, since a chain runs one
transaction at a time, but **calls in the middle of a run**: messages are delivered
depth first, so between a node's messages and its commit, or between a target and
its rebate, anything else may have been called, and a failing message rolls back
what it did and nothing more. The other hazards are nodes and indexes that
outlive what they were stored for, arithmetic that rounds or aborts, and steps of
which one fails. `PROJECT.json` lists them at their lines.

What makes each part correct:

- *Node graph*: exactly the acyclic graphs are accepted; what is stored is what is
  executed; nothing left from before is ever reached.
- *Process engine*: a run ends, visits no node twice, commits what it executed,
  cancels everything before it replaces it, and works on the nodes as stored.
- *Scheduler*: it always holds the rebates it owes; each trigger is executed at
  most once and lost never; what is due can be found.
- *Manager*: a strategy runs only when its status says so; pages of a query repeat no
  strategy and skip none but ties of a second.
- *Schedule*: an active strategy keeps being executed, at most once for each interval,
  never early and never more often than its maximum.
- *Limit order, distribution, withdrawal*: no coin is lost track of, and what is paid
  out is what there was.
- *Swap, prices*: whatever route is taken and however the amount is scaled, no less is
  taken for a coin than was asked; a price rests on as much of the book as it must.

## The modules

| Module | Models | Proofs |
|---|---|---|
| `NodeGraph` | validation and store of a strategy's nodes | `NodeGraphProofs` |
| `Strategy` | the process engine, with the manager in front of it | `StrategyProofs` |
| `Scheduler` | triggers, rebates, batches | `SchedulerProofs` |
| `LimitOrder` | limit orders of several nodes on one pair | `LimitOrderProofs` |
| `Distribution` | distributions, withdrawals, fees | `DistributionProofs` |
| `Cadence` | when a cadence is due and where it is cranked to (functions) | `AutomationProofs` |
| `Automation` | a schedule with manager, scheduler and keepers under time | `AutomationProofs` |
| `StandingOrder` | what an owner who schedules an action is promised | |
| `Registry` | the manager's records and the pages of its queries | `RegistryProofs` |
| `OrderBook` | the price of a pair, read page by page (functions) | |
| `Swap` | the swap action, its routes and quotes; uses `OrderBook` | `SwapProofs` |

Modules named `MC...` give the constants values for TLC. Some definitions carry the
comment *slip*: each is its neighbour with a plausible mistake in it. No action uses
them; putting one in place of the original shows that the property it is meant for
can fail. `PROJECT.json` pairs them, and gives the lines of every definition.

### NodeGraph

`NodeStore::init`. The scan over the proposed nodes either fails, which undoes the
transaction (`RejectMalformed`, `RejectOversized`), or ends with the in-degrees and
the queue (`StartSort`). Kahn's loop is one action per popped node (`Pop`), then
`Accept` or `RejectCyclic`. The queue of the code is a stack; the model pops any
queued node, and `PushedAtMostOnce`, which is proved, is the reason a set can stand
for it. Two branches of a condition to one node are two edges, as in the adjacency
list. `stored` is the map: accepted nodes are written over what is there.

### Strategy

The process engine with the manager in front of it. A transaction is a stack of
activations, each an outside account with the work the two contracts still have to
do for its present call: messages to deliver, `Process` and `Init` messages, and the
turn of the loop that comes next (`Visit`, which holds the node loaded and the local
path). `Instantiate`, `Execute`, `Update` and `UpdateStatus` put work on the top
activation; `StoreList`, `StartRun`, `Resume`, `NodeSends`, `NodeIsSilent` and
`NodeErrs` do it. `DeliverMessage` pushes the account a message reaches. `CallFails`
undoes the present call (none of the submessages but a node's messages may fail
alone), `Fail` undoes all that the account on top did, which `reply` then ignores.

The actions and conditions themselves are abstracted to what the engine sees of
them: an error, no message, or some. One strategy and one owner are modelled;
several owners or strategies meet only through the contracts they call. A message
reaches the strategy through the manager: a distribution that names the strategy's own
address as a contract to be called, with a `Process` or an `Init` message of the owner's
making, would pass the check of the sender and is not modelled.

Each node of the store carries the number of the list it came with, each visit that of
the node visited, and each run the number of the last list before it (`since`). These
numbers are not in the code. They tell a node from the one that takes its place: a
message sent while a list is cancelled may call `Update` again, whose list is stored and
executed before the outer cancel goes on, at the next index, and is then replaced by the
outer list. Its nodes in the places the cancel had already passed are never cancelled.
The code does nothing against that; `ReplacedAfterCancel` says that only these are lost.

An update with an empty list is accepted, writes nothing and removes nothing, and the
run that follows starts at node 0 of the list just cancelled. The model has it, with the
lists of `paused`; the properties are those that are proved with it, for any lists.

### Scheduler

Triggers, rebates of one denom, and the messages of `Execute` in the order they are
dispatched. Here too a transaction is a stack of activations, because a target may
create, replace or execute triggers before the rebate of its own trigger is paid.
`SkipTrigger` and `TakeTrigger` are the turns of the loop over the ids; nothing else
happens while ids are left. A call is `reply_on_error`: a target that fails
(`Fail`, `TargetFailsAtOnce`) undoes what it did and the batch goes on. The id of a
trigger is a hash of its owner, its condition to the second, the message and the
address, here any function `Hash`. `Filtered` is the query on either index; an index
also holds the triggers of the other kind, at `u64::MAX`, where a range without an
end finds them.

### LimitOrder

The limit orders of a strategy's nodes on one FIN pair. A node keeps the price of its
order only (`current`); what the order holds is asked of the pair, which has one
order for an owner, a side and a price (`book`). `NodeExecutes` is `execute_unsafe`:
refresh, withdraw if the order is filled enough or its price has moved, and set it
anew; `NodeErrs` is the error of a refresh or of a price query; `NodeCancels` and
`Commits` are `cancel` and `commit`. `Messages`, `PriceOf`, `OfferOf` and `FundingOf`
are computed from one state, as in the code, and delivered one by one.

The pair is external and modelled from what the code and the integration tests
expect of it: an order is set to an offer, its proceeds are claimed, what is not
needed is returned, and a new offer may trade at once. It accepts the withdrawal of
an order that exists, it may refuse any placement, and its query of an order fails
exactly when there is none. One coin trades for one: rates do not matter here. The
coins of a node's side are taken to be of its `bid_denom`, which the code does not
check.

A run here is one list of nodes from beginning to end; an execution goes from a node
to any other, or ends, since what lies between, and which exit a condition takes,
belongs to `Strategy`. That is more than the edges of an accepted list allow: they may
lead to lower indices, but never round. Between two nodes others may trade, deposit and
withdraw. That the pair accepts every withdrawal matters: the node is saved with its new
price before the message for the old order is delivered, and a refusal there would
leave an order that no node remembers.

### Distribution

`Distribute`, with the affiliates that `init` adds (`WithAffiliates`, `Fees`), the
share of each destination cut first to a Decimal and then to coins (`Share`), the
remainder for the last (`Amount`), and the destinations that are not kept because
nothing is left for them (`PaidOnes`). Transfers are delivered or fail one by one
(`Deliver`, `Bounce`). `Withdraw` sends all its transfers or none. The owner is taken
to name a denom once in a request. An affiliate may take no fee, and has a share of
zero then; where the total of the shares is zero the code divides by it and the call aborts,
which is the guard of `Distribute`. `UNIT` is the precision of a Decimal, 10^18 in the
code and 10^5 in the runs.

### Cadence, Automation and StandingOrder

`Cadence` holds the functions of `cadence.rs`: `IsDue`, `IntoCondition` and `Crank`
for blocks, durations and cron expressions, to the nanosecond, and `CrankAborts`,
the cases in which the code's checked arithmetic ends the call. The occurrences of
the cron expression are a constant set of seconds, so that the cron crate is any
expression.

`Automation` puts a schedule where it lives. `schedule` is the action's node,
`status` the manager's record, `triggers` those of the strategy in the scheduler,
`height` and `time` the block. An action is a whole transaction: `Instantiate`,
`Update`, `UpdateStatus` and `Execute` by owner or anybody, and `Fire`, a keeper who
executes a trigger that is satisfied. All of them end in `Process`, which is
`execute_unsafe` and `commit` of the schedule: the trigger for the next boundary is
created (`Awaited`, `Book`), replacing one of the same id and refunding it, the crank
is saved (`Executed`, `Commit`), and the next node runs if `can_execute` holds
(`Runs`, `Rests`). A trigger that fires while the strategy is paused is gone, and its
rebate too. What may happen in the middle of these transactions is the subject of
`Strategy` and `Scheduler`.

`StandingOrder` is the abstract specification: a plan, an anchor (the last boundary
served) and a count. `Run` serves a boundary that has come and lies after the anchor
on the plan's grid, or has an occurrence of the cron expression since, and counts it;
an interval of zero has one boundary only, which may be served again; a plan that is not
`counted` may be served at any time once it is due, has no maximum and keeps its anchor;
`Configure` gives a new plan, which may be served at once; `Tick` is time. `Automation`
implements it (`ServesInOrder`) with

| StandingOrder | Automation |
|---|---|
| `plan` | the configuration, with what its maximum leaves of runs; not `counted` if the maximum is zero, which `can_execute` takes for no limit while nothing was counted, and with which `execute_unsafe` fails, so that nothing ever is |
| `anchor` | `cadence.previous`, in blocks or seconds; for cron, which stores the boundary to come, the second of the last run |
| `count` | the runs of the next node since the configuration |
| `height`, `time` | the block, in whole seconds |

### Registry

The manager as a store: `Instantiate` with the counter and the address, which is a
hash and here any function, `Execute`, `Update`, `UpdateStatus`, `UpdateLabel`, the
code id that `migrate` and `sudo` set, and the queries `Strategies` (by last update,
newest first, its cursor the time alone) and `StrategiesById`. A client reads page
after page while all this goes on (`Start`, `Page`). A call to the strategy that
fails undoes the transaction and is no step.

### OrderBook and Swap

`OrderBook` is `rujira.rs`: `get_side_price` over at most two pages until orders and
value are enough, the truncation to the pair's tick (a number of significant digits), and `get_mid_price`. `Swap` is
one swap node. `Adjust` scales amount and minimum to the balance and, for a linear
adjustment, to the price (`AdjustLinear`); `ValidateFin` and `ValidateThorchain` are
the checks and quotes of the two kinds of route; `BestQuote` takes the best of them;
`Execute` sends its message and saves the routes (`UpdatedRoutes`), before it is
known whether the message succeeds (`Deliver`, `Bounce`). A result that may be an
error is a set of at most one value. What a pair or the chain's pools answer is
external: a rate up to a depth. `Aborts` is a division by zero, where the base price
of a linear adjustment rounds to zero (`AdjustAborts`) or the optimal return of a FIN
route does (`FinAborts`); it undoes the whole call where an error would pass over the route.

## What the runs check

| Run | Question | States |
|---|---|---|
| `graph` | For every list of up to three nodes, and then for others in its place: does the validation end, accept exactly the acyclic lists, and keep leftovers out of reach? | 40 982 |
| `reentrancy` | With targets that call back, create, execute and fail: solvency, one fate for each trigger, due triggers listed | 1 066 492 |
| `nested` | With calls to the manager in the middle of runs: the order in which nodes are visited, committed and replaced, and does every transaction end? | 630 330 |
| `paused` | Does a strategy execute only when it is active? **No.** | |
| `orders` | Is every order on the book one that a node will find again, and every message funded? | 1 276 136 |
| `shares` | Does a distribution give out what there is, in the shares asked for, and a withdrawal what was asked? | 46 428 |
| `fees` | Do the fees stay as quoted from one distribution to the next? **No.** | |
| `recurring` | Do schedule, status, triggers and keepers together implement a standing order, keep its next trigger, not pile up others, and run what is due? | 252 676 |
| `cron` | Is a cron schedule ready at the next occurrence of its expression? **No.** | |
| `pages` | Does a client that lists strategies while they change get each once, in order, and all but ties? | 256 379 |
| `swap` | Does a swap keep to its minimum price, its routes and its quote, and a price to the depth it rests on? | 230 479 |
| `scaled` | Does a swap scaled by price offer less at a worse price? **No.** | |

Four runs show the code doing something other than its documentation or tests say:

- `paused`: `Update` does not look at the status, and an update ends with an execution.
- `fees`: a destination whose share rounds to nothing is dropped from the stored
  action. After a distribution of a single coin the fee collector is the only
  destination left, and takes every later balance whole.
- `cron`: cranking a cron cadence stores the occurrence to come as the previous one,
  and readiness waits for the one after it: every other occurrence is passed over.
- `scaled`: a linear adjustment divides the amount the balance allows by the return of
  the full amount, so that with too small a balance a bad price looks good.

### Bounds, and why they are enough

- `graph`: first any list of up to three nodes, each of any kind and with any exits:
  enough for a self-loop, a two-cycle, a cycle behind an entry, converging branches and
  two branches to one node. Then a handful of lists of each length in any order, and
  one list for each way to be refused, so that a list may leave one or more nodes of
  another behind. The theorems cover all lengths.
- `reentrancy`: a user, a keeper and a target; three triggers created, calls nested
  two deep (a target that the scheduler called calls it and is called no further),
  batches of two ids, one id twice or one of the target's own and one of a user, and
  two timestamps within one second, which share an id. Rebates are zero or one coin.
- `nested`: a condition with an exit to another node or the end, a list whose order is
  not that of its edges, a list of one node, which leaves the second node of another
  behind, and a list with an edge beyond its end, which is refused; three lists stored,
  two calls to
  the manager in a transaction, one of them in the middle of the other's run, one
  message for each node. The owner is the only account: anyone else may do less. Two
  calls are what it takes for one run to come between a node's messages and its commit,
  or between two nodes of a cancel.
- `paused`: two accounts, and lists that include the empty one and a cycle.
- `orders`: two nodes that share a price and bid differently, two that each take a
  part of the coins at prices that may meet, a fixed bid and a part at prices that may
  meet, one on each side fed by the other, three of which an execution may visit the last
  before the second, one alone, and a list that `init` refuses, each updated to any other; four coins, three
  prices and a book too thin to have one; exact and percentual offsets and
  tolerances, minimum fills of a half and of all.
- `shares`: equal parts that do not divide, and one against many, with two
  affiliates, the last of whom takes nothing; deposits of a coin and of 403, so that shares and fees
  round to nothing and to something; four deposits, withdrawals and failures, which
  may all fall between two transfers.
- `fees`: one user and no affiliate.
- `recurring`: eight schedules (blocks and time from now and from before, one that
  runs out, one with a maximum of zero, one that stands still, one with more executors than a trigger may have, one
  that is refused, and cron), one update, five blocks each up to a second after the
  last, seconds of two nanoseconds, four runs. Five blocks are two intervals and one
  more: a boundary may be missed, and two of them. Occurrences are seconds 1 to 4, so
  that the expression ends within the run.
- `cron`: the cron schedule alone.
- `pages`: three strategies of two owners, four addresses of which two collide, two
  seconds, pages of one and of two: a page ends within a second and between two.
- `swap`, `scaled`: pages of two orders and prices that rest on two orders worth four
  coins; eleven books that end before, at and after a page, worth enough or not in
  either page, some with an order without a price; a pair that buys, one that sells and
  one of other coins; four states of the pools; balances below, between and above the
  amounts; a base price that rounds to zero; nine swaps that are refused, one for each check. A Decimal has three digits.

Depth and the number of calls in a transaction are bounded by gas on the chain;
the models bound them by `MaxDepth` and `MaxCalls`. `MaxEvents`, `MaxUpdates`,
`MaxRuns`, `MaxHeight`, `MaxTime` and `MaxStrategies` end the other runs.

### Fairness

`SortTerminates` assumes that the sort, once begun, goes on: it is one handler.
`TransactionEnds` assumes weak fairness of the steps of a transaction together, since
a chain executes a transaction it has begun to its end. Nobody is obliged to begin
one. `DueRunsAgain` assumes weak fairness of `FireAny`: while there is a trigger that
is satisfied, some keeper executes one, since keepers are paid the rebates. Which one
is left to them. Nothing is assumed of owners, or of who executes a strategy by hand,
and blocks need not come: the property begins once the boundary has.

Deadlock is not checked in `pages` only, where time, strategies and the listing all
come to their bounds and nothing need be left to do.

## What is proved

The theorems hold for all values of the constants that satisfy the assumptions named
in the modules: node lists of any length, any number of accounts, any bound on
nesting and on rebates, any interval and expression.

`NodeGraphProofs`. The invariant says what the code's counters mean: the in-degree
of a node is the number of edges into it from nodes not yet popped, the queue is
the nodes of degree zero not yet popped, and `processed_count` counts them. It is
inductive; what matters follows at the end of the loop. If all were popped, a cycle
would have a first popped node, which had an edge from a node popped later
(`AcceptedAcyclic`). If some were not, each of them has an edge from another one of
them, and they are a cycle's witness (`RefusedCyclic`). Together they are `SortExact`.
`NoUnderflow`, `QueuedOnce` and `StaleUnreachable` come from the same invariant.

`SchedulerProofs`. `Solvency` is not inductive alone: a failing target restores a
saved state, and the balance saved must match what was owed then by the activations
below. The invariant adds exactly that for every saved state. Rebates are counted
coin by coin, so that a sum is a cardinality and a trigger that changes place moves
its coins from one disjoint set to another. `PaymentsAreCovered` follows, because a
message about to be sent is among what is owed. `OneFate` is of the same kind:
what became of each trigger created agrees with the store and with the calls still
pending, in which it is found at most once, in the present state and in every saved
one with the calls pending below it. `DueIsListed` is about the query alone, for any set of
triggers and any page.

`StrategyProofs`. A new list is sorted alone, yet it is written into a map that
still holds nodes of longer lists. The store stays acyclic because every edge of
the new nodes stays among them, so a set without an exit would lie either in the new
nodes or in the old (`ReplaceNodes`). The invariant carries this for every state
that a failing call or message can bring back, and adds that a node is loaded only
for the turn of the loop that comes next. With acyclicity that gives
`LoadedIsCurrent`: the commit in `Resume` saves a node other than the one loaded
before it.

A second invariant, `RunInv`, is about the runs. A run keeps no record of its path: it
has only the next node and the one before. It visits no node twice because whatever
can be reached from the node it visited last has been left alone so far, and because
an acyclic store keeps that so when the run follows an edge (`VisitOnce`). A message
that may still call back is always followed by the `Process` message of its node
(`CommitIsDue`), in the order of the work of each call on the stack, and a call that is
suspended is resumed at the node it stopped at, with its path if no other run has
begun meanwhile (`ResumesWhereItStopped`). The invariant says all of this of the
present state and of each state saved for a rollback, since a run may be undone into
the middle of another. What a run has visited is still stored, or has been replaced by a list stored since it
began (`Accounted`): list numbers only grow, and an update overwrites places without
removing any. `ReplacedAfterCancel` follows, as cancelling takes the nodes in the order
of their indices and stores the new list behind the last.

`LimitOrderProofs`. `Tracked` rests on `CancelledLeavesNothing`: the nodes are replaced
by ones that remember nothing, which orphans no order only because none is left then.
The invariant describes the work of a run by the turn of one node (its visit, one or
two messages, its commit) and says that the message delivered next is the only one
that may have to withdraw an order no node remembers; that a message which sets an
order carries the price its node remembers by now; and that while the nodes are
cancelled those before the one whose turn it is have no order. Amounts play no part:
that an order is never set to something while the nodes are cancelled is enough
(`CancelSendsWithdrawals`). `ForgetsLostOrders`, about steps, follows from the same
invariant: a turn ends in three places only, and in each the price kept is that of an
order or none.

The amounts have an invariant on top of it, `AmountInv`. It says of the message
delivered next what its coins were computed from: the bank as it is, or the bank and
the remainder of the order that the message before it is about to return; of a node
about to be committed, that its order is still what its bid comes to; and of every
order, that it is within the bid of a node that remembers it or is withdrawn at once.
What the strategy has is counted coin by coin again (`OnBook`), so that a step which
sets or withdraws one order leaves the coins of all others alone, whatever their
number (`CoinsChange`, `AvailableChange`). From it follow `FundingCovered`,
`OfferIsAsConfigured` and the types. The attempt to prove `OfferIsAsConfigured` showed
an earlier form of it false: a node whose price has moved leaves its order at a price
that another, smaller node remembers, until the withdrawal is delivered. The runs had
no such pair of bids; they have now (`Mixed`), and the property says so.

`AutomationProofs`. The first lemmas are about the functions of `Cadence`, for every
block: a crank that does not abort lands on a boundary of the grid that has
come (`BlocksOnTheGrid`, `TimeOnTheGrid`, by division with remainder, in whole seconds
though the code subtracts nanoseconds), or for cron on an occurrence in a later second
(`CronCranked`), and a cadence whose crank aborts once due does so for ever
(`StuckForEver`). `Implements` is the refinement: every transaction is a step of
`StandingOrder` or none. Its invariant says what the schedule keeps of the
configuration: kind, interval and maximum, as many executions as there were runs, and
for cron a `previous` later than the last run, without which the same occurrence could
be served twice. That holds because `can_execute` and `execute_unsafe`, which check the
maximum in different ways, agree (`Serving`), but for a maximum of zero: such a schedule
runs at every call once a boundary has come (`DueBoundary`) and never moves on, which is
what the plan that is not `counted` says of it. The theorem has no assumption beyond
those of the constants, and "at most once" is said of intervals other than zero.
`AlwaysPending` is `PendingWhileActive`: the trigger waited for
is there, or the schedule is stuck, which is what the invariant has to say besides,
since a schedule that aborts now must not be able to go on later without a trigger.
`NonePilesUp` is `TriggersDoNotPileUp`, a bound on a set that every execution adds to.
The id of a trigger is its condition, so the trigger of the boundary a schedule waits
for replaces itself, however often it is saved; and when a run moves the schedule on,
that boundary has come. The invariant (`PileInv`) counts what is ahead and is not that
trigger: `LeftOver` is of earlier configurations, and only an update adds to it, one
trigger at a time.

`DistributionProofs`. What is left of a distribution is always in one of three places
(`Inv`): the transfers pending, those that failed, and nowhere else, as long as nobody
deposits or withdraws. A step moves it between them; the work is
in the first step, that the amounts come to the balance (`AmountsFit`), and in the stored
list: somebody is given something (`SomeIsPaid`), and the last destination, if it has
shares at all and there is a balance, is among them (`LastIsPaid`), so that the list
never becomes empty.
All of that is about sums over lists of any length, which take an induction.
The induction theorems of the library take a predicate as a parameter and cannot be
used, but its theorem on well-founded relations speaks of sets: a set of numbers has a
least member (`LeastNumber`), so a set that holds 0 and all successors holds all numbers
(`EveryNumber`), and a set of sets that is closed under one more element holds all
finite ones (`EveryFiniteSet`). From that the fold of the community modules is shown to
be defined and to do what a sum does (`SumWith`, `SumAtMost`, `SumReindexed`), and
`PaidOnes`, a recursive function, to list the destinations in their order. Nothing is assumed of
affiliates: where the last is alone in the end and takes no fee, the total of the shares
is zero and the call aborts, so that nothing is given out.
`EachIsGivenItsShare` is arithmetic: a share is rounded down twice, and what all others
lose is bounded by their number (`LastIsFair`). A first form allowed two coins whatever
the balance, which holds of balances up to `UNIT` only; the proof asks for a coin and as
many as there are parts of `UNIT` in the balance.

`RegistryProofs`. `NoneOverwritten` (`CountsEveryStrategy`) and the types hold for any
function that derives addresses, collisions included: a new record goes to an address
without one and under an id above all there are, and an edited record keeps its id, its
address and its time of creation. The counter then grows with the records, which is
where cardinality comes in. The pages need an invariant of the client (`ClientInv`).
Updates only move on, so what was listed by update either stays where it was or moves
above the cursor, and no later page can list it again (`Behind`); by id nothing moves at
all. What a complete listing owes is at each step already listed, or shares the second
of a cursor, or is still ahead and matches (`Accounted`). A page ends at the cursor and
leaves out only what comes after its last entry (`PageBegins`). For that the listing has
to be in order and complete: `InOrder` chooses a sequence that is sorted, and that there
is one for each finite set is an induction on its size (`CanBeSorted`,
`InOrderIsSorted`). Whatever the manager does to its records between two pages is one
kind of step for the client: no record goes, and no update decreases
(`OthersKeepPages`).

`SwapProofs`. The two invariants about what a swap remembers need to know where a quote
comes from (`QuoteIsForItsRoute`): a pair leaves its route as it is, the chain adds to it
the quote it gave for just the coins adjusted. The invariant (`Kept`) says that each
route stored has the settings of a configured one of its kind, not of its own: with two
routes of a kind that is all there is to keep, and with one of each kind it is
`RoutesAreKept`. That a swap is of no more coins than there are (`TypeCorrect`) follows
from the types of what is divided and multiplied on the way (`ScaledIsNumber`): where the base
price of a linear adjustment rounds to zero the call aborts, and the affiliate's part
must not exceed the return. The markets may
answer anything.

`MinimumPriceIsKept` (`KeepsTheMinimumPrice`) is the two roundings of `adjust`: the ratio
of what is swapped to the amount configured, and the minimum scaled by it
(`RoundedTwice`). A quote expects at least that of the amount it sends (`QuoteIsEnough`),
and the markets stand still until the message is delivered. A first form allowed two
coins whatever the minimum, which holds of minimums up to `UNIT` only, as with the shares
of a distribution; the proof asks for one more for each `UNIT` of the minimum.

`PricesRestOnDepth` (`PriceRestsOnDepth`) says that `get_side_price`, which reads pages and
counts as it goes, comes to a definition without pages or a running count. `FoldExists`
is the induction by which the folds of the model exist, for any function over places;
the fold of a page is then to read one order after the other (`PageIsRead`). Its
invariant (`IsReading`) relates what has been read so far to the first orders of the book:
how many, that they are no more than enough, and why it stopped if it did.
`ReadingGoesOn` is one order, `ReadingAPage` a page, and `SideIsRead` the two pages, the
second of which begins where the first ended. A price is of some depth because what is
worth something is (`OrderIsWorth`).

Only model-checked: liveness (`SortTerminates`, `TransactionEnds`, `DueRunsAgain`),
which the prover does not reach, as it does not reach `ENABLED`. Every invariant that a
passing run checks is a theorem.

## Not modelled, and the plan

All parts of the program that keep state are modelled. What is left of them:

- the conditions that ask an outside contract one question and compare the answer with
  a constant (balances, a pair's price, an order filled): in `Strategy` a condition
  holds or not. `CanSwap` is whether `BestQuote` in `Swap` is empty.
- the value ratio of two assets, whose arithmetic on oracle prices stands alone;
- the totals a distribution records, which nothing reads, and the record of deposits;
- a schedule configured with a `next` of its own, which the first commit would take as
  it is; `Automation` assumes none;
- rebates in several denoms.

Left out for good: the encodings (no state), the action dispatch (forwards only), the
schema generators, and the tests and fixtures, which were read as documentation.

What follows: the value ratio of two assets as a pure function, with its bounds proved;
and for the strategy, an abstract walk of the graph that visits each node at most once
and the detailed one shown to implement it.
