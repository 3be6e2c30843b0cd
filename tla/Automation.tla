------------------------------ MODULE Automation ------------------------------
(***************************************************************************)
(* How a strategy is executed again and again: the strategy's first node   *)
(* is a Schedule whose on_success is an action, the manager keeps its      *)
(* status, the scheduler holds the triggers the schedule creates for       *)
(* itself, and anybody may execute a trigger that is due.                  *)
(*                                                                         *)
(* An action of this module is a transaction.  The messages inside it are  *)
(* the subject of Strategy and Scheduler; here they run to their end, the  *)
(* creation of a trigger that fails is swallowed by the strategy's reply,  *)
(* and a strategy that aborts undoes the transaction, or, when a trigger   *)
(* called it, its own part of it.                                          *)
(***************************************************************************)
EXTENDS Cadence, FiniteSets

CONSTANTS
  Schedules,     \* the schedules owners configure
  MaxExecutors,  \* MAX_EXECUTORS of the scheduler
  MaxFunds,      \* bound: the strategy's balance
  Spending,      \* what the scheduled action spends, if it has it
  MaxHeight,     \* bound: the last block
  MaxRuns,       \* bound: runs of the action of one configuration
  MaxUpdates     \* bound: configurations after the first

ScheduleRecords ==
  [cadence    : Cadences,
   next       : Cadences \cup {NONE},
   rebate     : Nat,
   executors  : Nat,      \* how many
   jitter     : BOOLEAN,
   executions : Nat \cup {NONE},
   max        : Nat \cup {NONE}]

ASSUME AutomationAssumption ==
  /\ NONE \notin ScheduleRecords
  /\ Schedules \subseteq ScheduleRecords
  /\ \A s \in Schedules : s.next = NONE
  /\ MaxExecutors \in Nat
  /\ MaxFunds \in Nat
  /\ Spending \in Nat
  /\ MaxHeight \in Nat \ {0}
  /\ MaxHeight < MaxU64
  /\ MaxRuns \in Nat
  /\ MaxUpdates \in Nat

VARIABLES
  schedule,  \* the Schedule in the strategy's node
  status,    \* the strategy's status in the manager
  triggers,  \* the strategy's triggers in the scheduler, by id
  funds,     \* the strategy's balance
  height,    \* env.block.height
  time,      \* env.block.time, in nanoseconds
  config,    \* history: the schedule as it was configured
  runs,      \* history: runs of the action since then
  ranAt,     \* history: the second of the last of them
  updates    \* history: configurations after the first

strategyVars == <<schedule, runs, ranAt>>
configVars == <<config, updates>>
blockVars == <<height, time>>
vars == <<schedule, status, triggers, funds, height, time, config, runs, ranAt,
          updates>>

env == [height |-> height, time |-> time]

Least(a, b) == IF a < b THEN a ELSE b

-----------------------------------------------------------------------------
(* The schedule's operations *)

\* init: a jitter says nothing of an execution anybody may make.
Accepted(s) == ~(s.jitter /\ s.executors = 0)

Executions(s) == IF s.executions = NONE THEN 0 ELSE s.executions

\* can_execute, the condition that the next node depends on
CanExecute(s) ==
  /\ ~(s.max # NONE /\ s.executions # NONE /\ s.executions >= s.max)
  /\ IsDue(s.cadence, env)

\* execute_unsafe fails otherwise
WithinMaximum(s) == s.max # NONE => Executions(s) + 1 <= s.max

CommitKeepsNext(s) ==  \* slip: next is not taken, so that it is committed again
  IF s.next = NONE THEN s
  ELSE [s EXCEPT !.cadence = s.next,
                 !.executions = Executions(s) + 1]

Commit(s) ==
  IF s.next = NONE THEN s
  ELSE [s EXCEPT !.cadence = s.next,
                 !.next = NONE,
                 !.executions = Executions(s) + 1]

\* The schedule as its execution saves it.
Executed(s) ==
  IF WithinMaximum(s) /\ IsDue(s.cadence, env)
    THEN [s EXCEPT !.next = Crank(s.cadence, env)]
    ELSE s

AwaitedStale(s) ==  \* slip: the condition of the boundary just served
  IntoCondition(s.cadence, env)

AwaitedFromNow(s) ==  \* slip: every execution waits a whole interval anew
  IntoCondition([s.cadence EXCEPT !.previous = NONE],
                [height |-> height + s.cadence.interval,
                 time   |-> time + Nanos(s.cadence.interval)])

\* The condition of the trigger an execution creates.
Awaited(s) ==
  IntoCondition(IF IsDue(s.cadence, env) THEN Crank(s.cadence, env)
                                         ELSE s.cadence, env)

Aborts(s) ==
  WithinMaximum(s) /\ IsDue(s.cadence, env) /\ CrankAborts(s.cadence, env)

-----------------------------------------------------------------------------
(* The scheduler's triggers *)

\* The id keeps the second of a timestamp, and of the rest only what all the
\* triggers of one strategy have in common.
TriggerId(condition) ==
  <<condition.kind, IF condition.kind = "timestamp" THEN Seconds(condition.at)
                                                    ELSE condition.at>>

NoTriggers == [id \in {} |-> 0]

Without(id) == [i \in DOMAIN triggers \ {id} |-> triggers[i]]

Refund(book, id) == IF id \in DOMAIN book THEN book[id].rebate ELSE 0

Creates(s) == WithinMaximum(s) /\ s.executors <= MaxExecutors

\* Create stores the trigger, with the rebate the balance allows, in place of
\* one of the same id, whose rebate is refunded.
Book(s, condition, book, balance) ==
  IF ~Creates(s) THEN book
  ELSE LET id == TriggerId(condition)
       IN [i \in DOMAIN book \cup {id} |->
             IF i = id THEN [condition |-> condition,
                             rebate    |-> Least(s.rebate, balance)]
                       ELSE book[i]]

Balance(s, condition, book, balance) ==
  IF ~Creates(s) THEN balance
  ELSE balance - Least(s.rebate, balance) + Refund(book, TriggerId(condition))

-----------------------------------------------------------------------------
(* A strategy's execution, of a schedule s that ran n times, last at `at` *)

Runs(s, n, left) ==
  /\ CanExecute(s)
  /\ n < MaxRuns
  /\ runs' = n + 1
  /\ ranAt' = Seconds(time)
  /\ funds' = left - Least(Spending, left)

Rests(s, n, at, left) ==
  /\ ~CanExecute(s)
  /\ runs' = n
  /\ ranAt' = at
  /\ funds' = left

Process(s, n, at, book, balance) ==
  /\ ~Aborts(s)
  /\ schedule' = Commit(Executed(s))
  /\ \E condition \in {Awaited(s)} :
       /\ triggers' = Book(s, condition, book, balance)
       /\ \E left \in {Balance(s, condition, book, balance)} :
            Runs(s, n, left) \/ Rests(s, n, at, left)

-----------------------------------------------------------------------------

Init ==
  /\ schedule = NONE
  /\ status = "none"
  /\ triggers = NoTriggers
  /\ funds = 0
  /\ height = 0
  /\ time = 0
  /\ config = NONE
  /\ runs = 0
  /\ ranAt = NONE
  /\ updates = 0

NextBlock ==
  /\ height < MaxHeight
  /\ height' = height + 1
  /\ \E elapsed \in 1 .. NanosPerSecond : time' = time + elapsed
  /\ UNCHANGED <<strategyVars, configVars, status, triggers, funds>>

\* Deposits by anyone and withdrawals by the owner.
Transfer ==
  /\ status # "none"
  /\ \E balance \in 0 .. MaxFunds : funds' = balance
  /\ UNCHANGED <<strategyVars, configVars, blockVars, status, triggers>>

Instantiate(s) ==
  /\ status = "none"
  /\ Accepted(s)
  /\ status' = "active"
  /\ config' = s
  /\ \E sent \in 0 .. MaxFunds : Process(s, 0, NONE, triggers, sent)
  /\ UNCHANGED <<blockVars, updates>>

\* A schedule has nothing to cancel: its triggers stay where they are.
Update(s) ==
  /\ status # "none"
  /\ updates < MaxUpdates
  /\ Accepted(s)
  /\ updates' = updates + 1
  /\ config' = s
  /\ Process(s, 0, NONE, triggers, funds)
  /\ UNCHANGED <<blockVars, status>>

UpdateStatus(new) ==
  /\ status # "none"
  /\ status' = new
  /\ IF new = "active"
       THEN Process(schedule, runs, ranAt, triggers, funds)
       ELSE UNCHANGED <<strategyVars, triggers, funds>>
  /\ UNCHANGED <<blockVars, configVars>>

\* Anybody may execute a strategy through the manager.
Execute ==
  /\ status = "active"
  /\ Process(schedule, runs, ranAt, triggers, funds)
  /\ UNCHANGED <<blockVars, configVars, status>>

\* A trigger is removed and its rebate paid to the keeper, whatever becomes of
\* the execution it asks the manager for.
Fire(id) ==
  /\ IsSatisfied(triggers[id].condition, env)
  /\ IF status = "active" /\ ~Aborts(schedule)
       THEN Process(schedule, runs, ranAt, Without(id), funds)
       ELSE /\ triggers' = Without(id)
            /\ UNCHANGED <<strategyVars, funds>>
  /\ UNCHANGED <<blockVars, configVars, status>>

FireAny == \E id \in DOMAIN triggers : Fire(id)

Next ==
  \/ NextBlock
  \/ Transfer
  \/ \E s \in Schedules : Instantiate(s) \/ Update(s)
  \/ \E new \in {"active", "paused", "archived"} : UpdateStatus(new)
  \/ Execute
  \/ FireAny

Spec == Init /\ [][Next]_vars

\* Keepers execute what is due: they are paid the rebates for it.
FairSpec == Spec /\ WF_vars(FireAny)

-----------------------------------------------------------------------------
(* Properties *)

Trigger == [condition : [kind : {"height", "timestamp"}, at : Nat], rebate : Nat]

\* Every variable has its type: the strategy's triggers are stored under their
\* own ids, `next` never outlives the transaction that set it, and no balance
\* is overdrawn by a rebate.
TypeOK ==
  /\ schedule \in ScheduleRecords \cup {NONE}
  /\ schedule # NONE => schedule.next = NONE
  /\ status \in {"none", "active", "paused", "archived"}
  /\ status = "none" <=> schedule = NONE
  /\ \A id \in DOMAIN triggers :
       triggers[id] \in Trigger /\ id = TriggerId(triggers[id].condition)
  /\ funds \in Nat
  /\ height \in 0 .. MaxHeight
  /\ time \in Nat
  /\ runs \in 0 .. MaxRuns
  /\ ranAt \in Nat \cup {NONE}
  /\ updates \in 0 .. MaxUpdates
  /\ config \in Schedules \cup {NONE}

\* The schedule can go on: runs are left, and no crank to come is bound to
\* abort.
GoesOn(s) ==
  /\ WithinMaximum(s)
  /\ s.executors <= MaxExecutors
  /\ ~CrankAborts(s.cadence, env)

\* An active strategy whose schedule can go on has a trigger pending for its
\* next boundary, whatever has happened: triggers fired in vain while it was
\* paused, executed by hand before they fired, left over from a schedule since
\* replaced, or paid for with the last coin (execute_unsafe in schedule.rs).
PendingWhileActive ==
  status = "active" /\ GoesOn(schedule) =>
    \E id \in DOMAIN triggers :
      triggers[id].condition = IntoCondition(schedule.cadence, env)

\* The triggers whose block or second has not come.
Ahead == {id \in DOMAIN triggers :
            LET condition == triggers[id].condition
            IN IF condition.kind = "height" THEN condition.at > height
               ELSE Seconds(condition.at) > Seconds(time)}

\* Triggers do not pile up: of those whose second has not come, at most one is
\* there for each configuration the strategy has had.  Executions that are not
\* due replace the trigger they find (execute_unsafe; create in the scheduler).
TriggersDoNotPileUp == Cardinality(Ahead) <= 1 + updates

\* A cron schedule that has run is ready at the next occurrence of its
\* expression.
ReadyAtEveryOccurrence ==
  (/\ status = "active"
   /\ schedule.cadence.kind = "cron"
   /\ ranAt # NONE
   /\ WithinMaximum(schedule)
   /\ \E o \in Occurrences : ranAt < o /\ o <= Seconds(time))
    => IsDue(schedule.cadence, env)

Reached ==
  /\ status = "active"
  /\ GoesOn(schedule)
  /\ runs < MaxRuns
  /\ IsSatisfied(IntoCondition(schedule.cadence, env), env)

\* Once the boundary an active schedule waits for has come, its action runs,
\* unless the owner stops or replaces it: keepers execute due triggers, and
\* the trigger is there to be executed.
DueRunsAgain == Reached ~> ~Reached

-----------------------------------------------------------------------------
(* The refinement *)

SecondsOf(t) == IF t = NONE THEN NONE ELSE Seconds(t)

InUnits(c) == IF c.kind = "blocks" THEN c.previous ELSE SecondsOf(c.previous)

\* A maximum of zero is no limit to can_execute before the first execution is
\* counted, and none ever is: execute_unsafe fails, and commit finds no next.
Counted(s) == ~(s.max = 0 /\ s.executions = NONE)

Plan(s) ==
  [kind     |-> s.cadence.kind,
   interval |-> s.cadence.interval,
   previous |-> InUnits(s.cadence),
   max      |-> IF s.max = NONE THEN NONE ELSE s.max - Executions(s),
   counted  |-> Counted(s)]

ASSUME PlanAssumption == \A s \in Schedules : Plan(s) # NONE

\* A cron cadence does not remember the occurrence it was served at.
Anchor ==
  IF schedule = NONE THEN NONE
  ELSE IF schedule.cadence.kind = "cron" /\ ranAt # NONE /\ Counted(schedule)
    THEN ranAt
  ELSE InUnits(schedule.cadence)

Order == INSTANCE StandingOrder WITH
  Plans  <- {Plan(s) : s \in Schedules},
  plan   <- IF config = NONE THEN NONE ELSE Plan(config),
  anchor <- Anchor,
  count  <- runs,
  time   <- Seconds(time)

\* The schedule, the manager's status and the scheduler's triggers together
\* keep the promise of a standing order: every boundary served at most once,
\* none too early, none beyond the maximum, however executions by keepers, by
\* hand and by the owner interleave (crank and is_due in cadence.rs, commit in
\* schedule.rs).  An interval of zero and a maximum of zero, which the code
\* accepts, get what StandingOrder says of them: no boundary too early.
ServesInOrder == Order!Spec

=============================================================================
