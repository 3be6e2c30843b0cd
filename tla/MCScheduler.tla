---------------------------- MODULE MCScheduler ------------------------------
(***************************************************************************)
(* TLC instance of Scheduler: a user, a keeper, and a target contract that *)
(* may call the scheduler back, create triggers of its own, or fail.       *)
(***************************************************************************)
EXTENDS Scheduler

CONSTANTS alice, keeper, strategy

Hasher(owner, key, msg, address) ==
  (IF owner = alice THEN 0 ELSE IF owner = keeper THEN 1 ELSE 2)
    + 3 * (IF key[1] = "timestamp" THEN 0 ELSE 1) + 6 * key[2]

At(kind, at, executors) ==
  [condition        |-> [kind |-> kind, at |-> at],
   msg              |-> "execute",
   contract_address |-> strategy,
   executors        |-> executors]

AtBlock == At("height", 1, {})

\* The two times are in one second: a trigger of each has the same id, and may
\* be executed by the keeper alone.
OnTheSecond == At("timestamp", 2, {keeper})
AfterTheSecond == At("timestamp", 3, {keeper})

\* Among them two that are refused: a kind that is not supported, and more
\* executors than there may be.
NestedCommands == {AtBlock, OnTheSecond, AfterTheSecond, At("other", 1, {}),
                   At("height", 1, {alice, keeper})}

AliceSecond == Hasher(alice, <<"timestamp", 1>>, "execute", strategy)
StrategyBlock == Hasher(strategy, <<"height", 1>>, "execute", strategy)

\* One id twice, and one of the target's own with one of a user.
NestedBatches == {<<AliceSecond, AliceSecond>>, <<StrategyBlock, AliceSecond>>}

=============================================================================
