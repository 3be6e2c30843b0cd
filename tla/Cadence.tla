-------------------------------- MODULE Cadence --------------------------------
(***************************************************************************)
(* The clockwork of a schedule: when a cadence is due, the condition its   *)
(* trigger waits for, and the boundary it moves to when it is cranked.     *)
(*                                                                         *)
(* Heights are numbers of blocks.  Timestamps are nanoseconds, of which    *)
(* NanosPerSecond make a second; durations are whole seconds.  `env` is a  *)
(* block: its height and its time.                                         *)
(***************************************************************************)
EXTENDS Integers

CONSTANTS
  NONE,            \* Option::None
  NanosPerSecond,
  MaxU64,          \* u64::MAX, a height no block reaches
  Occurrences      \* the seconds at which the cron expression occurs

Cadences == [kind     : {"blocks", "time", "cron"},
             interval : Nat,
             previous : Nat \cup {NONE}]

ASSUME CadenceAssumption ==
  /\ NONE \notin Nat
  /\ NONE \notin Cadences
  /\ NanosPerSecond \in Nat \ {0}
  /\ MaxU64 \in Nat
  /\ Occurrences \subseteq Nat

Seconds(t) == t \div NanosPerSecond

Nanos(s) == s * NanosPerSecond

-----------------------------------------------------------------------------
(* Conditions of a trigger *)

BlocksCompleted(h) == [kind |-> "height", at |-> h]

TimestampElapsed(t) == [kind |-> "timestamp", at |-> t]

IsSatisfied(condition, env) ==
  \/ condition.kind = "timestamp" /\ env.time >= condition.at
  \/ condition.kind = "height" /\ env.height >= condition.at

\* The cron crate: the first occurrence after t, if there is one.
After(t) ==
  LET later == {o \in Occurrences : Nanos(o) > t}
  IN IF later = {} THEN NONE
     ELSE Nanos(CHOOSE o \in later : \A p \in later : o <= p)

-----------------------------------------------------------------------------

IntoCondition(c, env) ==
  IF c.kind = "blocks"
    THEN BlocksCompleted(IF c.previous = NONE THEN env.height
                                              ELSE c.previous + c.interval)
  ELSE IF c.kind = "time"
    THEN TimestampElapsed(IF c.previous = NONE THEN env.time
                                               ELSE c.previous + Nanos(c.interval))
  ELSE LET next == After(IF c.previous = NONE THEN env.time ELSE c.previous)
       IN IF next = NONE THEN BlocksCompleted(MaxU64) ELSE TimestampElapsed(next)

IsDueStrictly(c, env) ==  \* slip: later than the boundary, instead of at it
  c.previous # NONE =>
    \/ c.kind = "blocks" /\ env.height > c.previous + c.interval
    \/ c.kind = "time" /\ Seconds(env.time) > Seconds(c.previous) + c.interval
    \/ c.kind = "cron" /\ IsSatisfied(IntoCondition(c, env), env)

IsDue(c, env) ==
  c.previous # NONE =>
    \/ c.kind = "blocks" /\ env.height >= c.previous + c.interval
    \/ c.kind = "time" /\ Seconds(env.time) >= Seconds(c.previous) + c.interval
    \/ c.kind = "cron" /\ IsSatisfied(IntoCondition(c, env), env)

\* The moment from which a cron expression is cranked.
Latest(c, env) ==
  IF c.previous = NONE \/ c.previous < env.time THEN env.time ELSE c.previous

CrankedToNow(p, interval, h) ==  \* slip: boundaries drift with a late execution
  IF p + interval < h - interval THEN h ELSE p + interval

CrankedHeight(p, interval, h) ==
  IF p + interval < h - interval THEN h - ((h - p) % interval) ELSE p + interval

CrankedTime(p, d, t) ==
  IF p + Nanos(d) < t - Nanos(d)
    THEN t - Nanos((Seconds(t) - Seconds(p)) % d)
    ELSE p + Nanos(d)

Crank(c, env) ==
  [c EXCEPT !.previous =
     IF c.kind = "cron" THEN After(Latest(c, env))
     ELSE IF c.previous = NONE
       THEN (IF c.kind = "blocks" THEN env.height ELSE env.time)
     ELSE IF c.kind = "blocks"
       THEN CrankedHeight(c.previous, c.interval, env.height)
       ELSE CrankedTime(c.previous, c.interval, env.time)]

\* Overflow checks are on: a negative difference, a remainder by zero and the
\* timestamp of u64::MAX seconds all abort the execution.
CrankAborts(c, env) ==
  \/ c.kind = "cron" /\ After(Latest(c, env)) = NONE
  \/ /\ c.kind = "blocks"
     /\ c.previous # NONE
     /\ \/ env.height < c.interval
        \/ c.interval = 0 /\ c.previous < env.height
  \/ /\ c.kind = "time"
     /\ c.previous # NONE
     /\ \/ env.time < Nanos(c.interval)
        \/ c.interval = 0 /\ c.previous < env.time

=============================================================================
