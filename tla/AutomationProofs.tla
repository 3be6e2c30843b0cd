--------------------------- MODULE AutomationProofs ---------------------------
(***************************************************************************)
(* What a schedule, the manager's status and the scheduler's triggers do   *)
(* together is what a standing order promises, for every set of schedules, *)
(* every interval, every expression and every sequence of blocks.  First   *)
(* what cranking a cadence does, for every interval and every block, the   *)
(* facts about Cadence that the proofs about schedules rest on.            *)
(***************************************************************************)
EXTENDS Automation, FiniteSetTheorems, WellFoundedInduction, TLAPS

Blocks == [height : Nat, time : Nat]

-----------------------------------------------------------------------------
(* Seconds and nanoseconds *)

\* A time lies in its second (Timestamp::seconds).
LEMMA SecondsBound ==
  ASSUME NEW t \in Nat
  PROVE  /\ Seconds(t) \in Nat
         /\ Nanos(Seconds(t)) <= t
         /\ t < Nanos(Seconds(t)) + NanosPerSecond
  BY CadenceAssumption DEF Seconds, Nanos

\* Whole seconds added are seconds added (Timestamp::plus_seconds).
LEMMA SecondsPlus ==
  ASSUME NEW t \in Nat, NEW d \in Nat
  PROVE  Seconds(t + Nanos(d)) = Seconds(t) + d /\ t + Nanos(d) \in Nat
  BY CadenceAssumption DEF Seconds, Nanos

\* Whole seconds taken off are seconds taken off (Timestamp::minus_seconds).
LEMMA SecondsMinus ==
  ASSUME NEW t \in Nat, NEW d \in Nat, d <= Seconds(t)
  PROVE  Seconds(t - Nanos(d)) = Seconds(t) - d /\ t - Nanos(d) \in Nat
  BY CadenceAssumption DEF Seconds, Nanos

\* Seconds grow with time.
LEMMA SecondsMonotone ==
  ASSUME NEW t \in Nat, NEW u \in Nat, t <= u
  PROVE  Seconds(t) <= Seconds(u)
  BY CadenceAssumption DEF Seconds

\* A second is whole.
LEMMA SecondsOfNanos ==
  ASSUME NEW s \in Nat
  PROVE  Nanos(s) \in Nat /\ Seconds(Nanos(s)) = s
  BY CadenceAssumption DEF Seconds, Nanos

\* A whole second that is later than a time is a later second.
LEMMA LaterSecond ==
  ASSUME NEW s \in Nat, NEW t \in Nat, Nanos(s) > t
  PROVE  s > Seconds(t)
  BY CadenceAssumption DEF Seconds, Nanos

\* A time a duration before another one leaves a duration of seconds.
LEMMA SecondsApart ==
  ASSUME NEW t \in Nat, NEW d \in Nat, t >= Nanos(d)
  PROVE  Seconds(t) >= d
  BY CadenceAssumption DEF Seconds, Nanos

-----------------------------------------------------------------------------
(* The occurrences of a cron expression *)

\* Of some numbers one is the least, so that After's CHOOSE has one to choose.
LEMMA LeastOne ==
  ASSUME NEW T, T \subseteq Nat, T # {}
  PROVE  \E x \in T : \A y \in T : x <= y
<1>1. \E x \in T : \A y \in T : ~(<<y, x>> \in OpToRel(<, Nat))
  BY WFMin, NatLessThanWellFounded, Zenon
<1>2. \A x, y \in Nat : y < x => <<y, x>> \in OpToRel(<, Nat)
  BY Zenon DEF OpToRel
<1>3. \E x \in T : \A y \in T : ~(y < x)
  BY <1>1, <1>2, Zenon
<1> QED BY <1>3, SMT

\* What follows a time is an occurrence later than it (crank, into_condition).
LEMMA AfterIsLater ==
  ASSUME NEW t \in Nat, After(t) # NONE
  PROVE  \E o \in Occurrences : After(t) = Nanos(o) /\ Nanos(o) > t
<1> DEFINE later == {o \in Occurrences : Nanos(o) > t}
           first == CHOOSE o \in later : \A p \in later : o <= p
<1>1. later # {} /\ After(t) = Nanos(first)
  BY DEF After
<1>2. \E o \in later : \A p \in later : o <= p
  BY <1>1, LeastOne, CadenceAssumption
<1>3. first \in later
  BY <1>2
<1> QED BY <1>1, <1>3

\* In seconds: the occurrence lies in a later second.
LEMMA AfterInSeconds ==
  ASSUME NEW t \in Nat, After(t) # NONE
  PROVE  \E o \in Occurrences :
           /\ After(t) = Nanos(o)
           /\ Nanos(o) \in Nat
           /\ Seconds(Nanos(o)) = o
           /\ o > Seconds(t)
<1>1. PICK o \in Occurrences : After(t) = Nanos(o) /\ Nanos(o) > t
  BY AfterIsLater
<1>2. o \in Nat
  BY CadenceAssumption
<1> QED BY <1>1, <1>2, SecondsOfNanos, LaterSecond

-----------------------------------------------------------------------------
(* Cranking *)

\* A number is so many times another one, and a remainder.
LEMMA Division ==
  ASSUME NEW a \in Nat, NEW d \in Nat \ {0}
  PROVE  /\ a \div d \in Nat
         /\ (a % d) \in Nat
         /\ (a % d) < d
         /\ a - (a % d) = (a \div d) * d
  OBVIOUS

\* A number of positive steps is no larger than where they lead.
LEMMA StepsBound ==
  ASSUME NEW k \in Nat, NEW d \in Nat \ {0}
  PROVE  k <= k * d
  OBVIOUS

\* The last boundary that has come, of those d apart after p.
LEMMA LastBoundary ==
  ASSUME NEW p \in Nat, NEW d \in Nat \ {0}, NEW h \in Nat, p + d <= h
  PROVE  \E k \in 1 .. h + 1 : h - ((h - p) % d) = p + k * d
<1> DEFINE k == (h - p) \div d
<1>1. h - p \in Nat
  OBVIOUS
<1>2. /\ k \in Nat
      /\ ((h - p) % d) \in Nat
      /\ ((h - p) % d) < d
      /\ (h - p) - ((h - p) % d) = k * d
  BY <1>1, Division
<1>3. k <= k * d
  BY <1>2, StepsBound
<1>4. k # 0
  BY <1>2
<1>5. k \in 1 .. h + 1 /\ h - ((h - p) % d) = p + k * d
  <2> HIDE DEF k
  <2> QED BY <1>2, <1>3, <1>4
<1> QED BY <1>5

\* A crank that does not abort moves a cadence to a boundary and leaves the
\* rest of it alone (crank in cadence.rs).
LEMMA CrankTyped ==
  ASSUME NEW c \in Cadences, NEW e \in Blocks, ~CrankAborts(c, e)
  PROVE  /\ Crank(c, e) \in Cadences
         /\ Crank(c, e).kind = c.kind
         /\ Crank(c, e).interval = c.interval
         /\ Crank(c, e).previous \in Nat
<1> DEFINE new == Crank(c, e).previous
<1>1. /\ c.kind \in {"blocks", "time", "cron"}
      /\ c.interval \in Nat
      /\ c.previous \in Nat \cup {NONE}
      /\ e.height \in Nat
      /\ e.time \in Nat
  BY DEF Cadences, Blocks
<1>2. new \in Nat
  <2>1. CASE c.kind = "cron"
    <3>1. Latest(c, e) \in Nat
      BY <1>1 DEF Latest
    <3>2. new = After(Latest(c, e)) /\ After(Latest(c, e)) # NONE
      BY <2>1 DEF Crank, Cadences, CrankAborts
    <3> QED BY <3>1, <3>2, AfterInSeconds
  <2>2. CASE c.kind # "cron" /\ c.previous = NONE
    BY <1>1, <2>2 DEF Crank, Cadences
  <2>3. CASE c.kind = "blocks" /\ c.previous # NONE
    <3> DEFINE p == c.previous  d == c.interval  h == e.height
    <3>1. new = CrankedHeight(p, d, h) /\ p \in Nat
      BY <1>1, <2>3 DEF Crank, Cadences
    <3>2. d = 0 => p >= h
      BY <1>1, <2>3, <3>1 DEF CrankAborts
    <3>3. CASE p + d < h - d
      <4>1. d \in Nat \ {0} /\ h - p \in Nat
        BY <1>1, <3>1, <3>2, <3>3
      <4>2. ((h - p) % d) \in Nat /\ ((h - p) % d) < d
        BY <4>1, Division
      <4> QED BY <1>1, <3>1, <3>3, <4>1, <4>2 DEF CrankedHeight
    <3>4. CASE ~(p + d < h - d)
      BY <1>1, <3>1, <3>4 DEF CrankedHeight
    <3> QED BY <3>3, <3>4
  <2>4. CASE c.kind = "time" /\ c.previous # NONE
    <3> DEFINE p == c.previous  d == c.interval  t == e.time
    <3>1. new = CrankedTime(p, d, t) /\ p \in Nat
      BY <1>1, <2>4 DEF Crank, Cadences
    <3>2. t >= Nanos(d) /\ (d = 0 => p >= t)
      BY <1>1, <2>4, <3>1, SecondsOfNanos DEF CrankAborts
    <3>3. Nanos(d) \in Nat
      BY <1>1, SecondsOfNanos
    <3>4. CASE p + Nanos(d) < t - Nanos(d)
      <4>1. d \in Nat \ {0} /\ Seconds(t) \in Nat /\ Seconds(p) \in Nat
            /\ Seconds(t) - Seconds(p) \in Nat /\ d <= Seconds(t)
        <5>1. p <= t /\ d # 0
          BY <1>1, <3>1, <3>2, <3>3, <3>4
        <5> QED BY <1>1, <3>1, <3>2, <5>1, SecondsBound, SecondsMonotone,
                   SecondsApart
      <4> DEFINE r == (Seconds(t) - Seconds(p)) % d
      <4>2. r \in Nat /\ r <= Seconds(t)
        <5>1. r \in Nat /\ r < d
          BY <4>1, Division
        <5> HIDE DEF r
        <5> QED BY <1>1, <4>1, <5>1
      <4>3. new = t - Nanos(r)
        BY <3>1, <3>4 DEF CrankedTime
      <4> QED BY <1>1, <4>2, <4>3, SecondsMinus
    <3>5. CASE ~(p + Nanos(d) < t - Nanos(d))
      BY <1>1, <3>1, <3>3, <3>5 DEF CrankedTime
    <3> QED BY <3>4, <3>5
  <2> QED BY <1>1, <2>1, <2>2, <2>3, <2>4
<1>3. Crank(c, e) = [c EXCEPT !.previous = new]
  BY DEF Crank, Cadences
<1> HIDE DEF new
<1> QED BY <1>2, <1>3 DEF Cadences

Conditions == [kind : {"height", "timestamp"}, at : Nat]

\* A trigger's condition is a height or a time (into_condition in cadence.rs).
LEMMA ConditionTyped ==
  ASSUME NEW c \in Cadences, NEW e \in Blocks
  PROVE  IntoCondition(c, e) \in Conditions
<1>1. /\ c.interval \in Nat
      /\ c.previous \in Nat \cup {NONE}
      /\ e.height \in Nat
      /\ e.time \in Nat
      /\ Nanos(c.interval) \in Nat
  BY SecondsOfNanos DEF Cadences, Blocks
<1>2. CASE c.kind \in {"blocks", "time"}
  BY <1>1, <1>2 DEF IntoCondition, Conditions, BlocksCompleted, TimestampElapsed
<1>3. CASE c.kind \notin {"blocks", "time"}
  <2> DEFINE from == IF c.previous = NONE THEN e.time ELSE c.previous
  <2>1. from \in Nat
    BY <1>1
  <2>2. IntoCondition(c, e) = IF After(from) = NONE THEN BlocksCompleted(MaxU64)
                              ELSE TimestampElapsed(After(from))
    BY <1>3 DEF IntoCondition
  <2>3. After(from) # NONE => After(from) \in Nat
    BY <2>1, AfterInSeconds
  <2> HIDE DEF from
  <2> QED BY <2>2, <2>3, CadenceAssumption
          DEF Conditions, BlocksCompleted, TimestampElapsed
<1> QED BY <1>2, <1>3

\* A cadence of blocks that is due is cranked to a boundary that has come.
LEMMA BlocksOnTheGrid ==
  ASSUME NEW c \in Cadences, NEW e \in Blocks, ~CrankAborts(c, e),
         c.kind = "blocks", c.previous # NONE, IsDue(c, e)
  PROVE  /\ Crank(c, e).previous \in 0 .. e.height
         /\ \E k \in 1 .. e.height + 1 :
              Crank(c, e).previous = c.previous + k * c.interval
<1> DEFINE p == c.previous  d == c.interval  h == e.height
           new == Crank(c, e).previous
<1>1. p \in Nat /\ d \in Nat /\ h \in Nat /\ new \in Nat
  BY CrankTyped DEF Cadences, Blocks
<1>2. new = CrankedHeight(p, d, h)
  BY DEF Crank, Cadences
<1>3. p + d <= h
  BY <1>1 DEF IsDue
<1>4. d = 0 => p >= h
  BY <1>1 DEF CrankAborts
<1>5. CASE p + d < h - d
  <2>1. d \in Nat \ {0} /\ h - p \in Nat
    BY <1>1, <1>4, <1>5
  <2>2. new = h - ((h - p) % d)
    BY <1>2, <1>5 DEF CrankedHeight
  <2>3. \E k \in 1 .. h + 1 : h - ((h - p) % d) = p + k * d
    BY <1>1, <1>3, <2>1, LastBoundary
  <2>4. new <= h
    <3>1. ((h - p) % d) \in Nat
      BY <2>1, Division
    <3> QED BY <1>1, <2>2, <3>1
  <2> QED BY <1>1, <2>2, <2>3, <2>4
<1>6. CASE ~(p + d < h - d)
  <2>1. new = p + d
    BY <1>2, <1>6 DEF CrankedHeight
  <2>2. 1 \in 1 .. h + 1 /\ p + d = p + 1 * d
    BY <1>1
  <2> QED BY <1>1, <1>3, <2>1, <2>2
<1> QED BY <1>5, <1>6

\* A cadence of time that is due is cranked to a second that has come.
LEMMA TimeOnTheGrid ==
  ASSUME NEW c \in Cadences, NEW e \in Blocks, ~CrankAborts(c, e),
         c.kind = "time", c.previous # NONE, IsDue(c, e)
  PROVE  /\ Seconds(Crank(c, e).previous) \in 0 .. Seconds(e.time)
         /\ \E k \in 1 .. Seconds(e.time) + 1 :
              Seconds(Crank(c, e).previous)
                = Seconds(c.previous) + k * c.interval
<1> DEFINE p == c.previous  d == c.interval  t == e.time
           new == Crank(c, e).previous
<1>1. /\ p \in Nat /\ d \in Nat /\ t \in Nat /\ new \in Nat
      /\ Nanos(d) \in Nat /\ Seconds(p) \in Nat /\ Seconds(t) \in Nat
  BY CrankTyped, SecondsOfNanos, SecondsBound DEF Cadences, Blocks
<1>2. new = CrankedTime(p, d, t)
  BY DEF Crank, Cadences
<1>3. Seconds(p) + d <= Seconds(t)
  BY <1>1 DEF IsDue
<1>4. d = 0 => p >= t
  BY <1>1 DEF CrankAborts
<1>5. CASE p + Nanos(d) < t - Nanos(d)
  <2> DEFINE r == (Seconds(t) - Seconds(p)) % d
  <2>1. d \in Nat \ {0} /\ Seconds(t) - Seconds(p) \in Nat
    BY <1>1, <1>3, <1>4, <1>5
  <2>2. r \in Nat /\ r < d
    BY <2>1, Division
  <2>3. new = t - Nanos(r)
    BY <1>2, <1>5 DEF CrankedTime
  <2>4. \E k \in 1 .. Seconds(t) + 1 : Seconds(t) - r = Seconds(p) + k * d
    BY <1>1, <1>3, <2>1, LastBoundary
  <2> HIDE DEF r
  <2>5. r <= Seconds(t)
    BY <1>1, <1>3, <2>1, <2>2
  <2>6. Seconds(new) = Seconds(t) - r
    BY <1>1, <2>2, <2>3, <2>5, SecondsMinus
  <2> QED BY <1>1, <2>2, <2>4, <2>5, <2>6
<1>6. CASE ~(p + Nanos(d) < t - Nanos(d))
  <2>1. Seconds(new) = Seconds(p) + d
    BY <1>1, <1>2, <1>6, SecondsPlus DEF CrankedTime
  <2>2. 1 \in 1 .. Seconds(t) + 1 /\ Seconds(p) + d = Seconds(p) + 1 * d
    BY <1>1
  <2> QED BY <1>1, <1>3, <2>1, <2>2
<1> QED BY <1>5, <1>6

\* A cron cadence that is due has an occurrence behind it that it has not
\* been cranked past, as long as blocks stay below u64::MAX.
LEMMA CronDue ==
  ASSUME NEW c \in Cadences, NEW e \in Blocks, e.height < MaxU64,
         c.kind = "cron", c.previous # NONE, IsDue(c, e)
  PROVE  \E o \in Occurrences : Seconds(c.previous) < o /\ o <= Seconds(e.time)
<1>1. c.previous \in Nat /\ e.time \in Nat /\ e.height \in Nat /\ MaxU64 \in Nat
  BY CadenceAssumption DEF Cadences, Blocks
<1>2. IsSatisfied(IntoCondition(c, e), e)
  BY DEF IsDue
<1>3. After(c.previous) # NONE /\ e.time >= After(c.previous)
  BY <1>1, <1>2 DEF IntoCondition, IsSatisfied, BlocksCompleted, TimestampElapsed
<1>4. PICK o \in Occurrences : /\ After(c.previous) = Nanos(o)
                               /\ Nanos(o) \in Nat
                               /\ Seconds(Nanos(o)) = o
                               /\ o > Seconds(c.previous)
  BY <1>1, <1>3, AfterInSeconds
<1>5. o <= Seconds(e.time)
  BY <1>1, <1>3, <1>4, SecondsMonotone
<1>6. Seconds(c.previous) \in Nat /\ o \in Nat
  BY <1>1, SecondsBound, CadenceAssumption
<1> QED BY <1>4, <1>5, <1>6

\* A cron cadence is cranked to a second later than the block's.
LEMMA CronCranked ==
  ASSUME NEW c \in Cadences, NEW e \in Blocks, ~CrankAborts(c, e),
         c.kind = "cron"
  PROVE  Seconds(Crank(c, e).previous) > Seconds(e.time)
<1>1. c.previous \in Nat \cup {NONE} /\ e.time \in Nat
  BY DEF Cadences, Blocks
<1> DEFINE from == Latest(c, e)
<1>2. from \in Nat /\ from >= e.time
  BY <1>1 DEF Latest
<1>3. Crank(c, e).previous = After(from) /\ After(from) # NONE
  BY DEF Crank, Cadences, CrankAborts
<1> HIDE DEF from
<1>4. PICK o \in Occurrences : /\ After(from) = Nanos(o)
                               /\ Nanos(o) \in Nat
                               /\ Seconds(Nanos(o)) = o
                               /\ o > Seconds(from)
  BY <1>2, <1>3, AfterInSeconds
<1>5. Seconds(from) >= Seconds(e.time)
  BY <1>1, <1>2, SecondsMonotone
<1>6. Seconds(from) \in Nat /\ Seconds(e.time) \in Nat /\ o \in Nat
  BY <1>1, <1>2, SecondsBound, CadenceAssumption
<1> QED BY <1>3, <1>4, <1>5, <1>6

-----------------------------------------------------------------------------
(* Later blocks *)

\* What a cadence with a boundary waits for does not depend on the block.
LEMMA ConditionStays ==
  ASSUME NEW c, c.previous # NONE, NEW e, NEW f
  PROVE  IntoCondition(c, e) = IntoCondition(c, f)
BY DEF IntoCondition

\* When no occurrence is left there never is one again.
LEMMA NothingAfter ==
  ASSUME NEW t \in Nat, NEW u \in Nat, t <= u, After(t) = NONE
  PROVE  After(u) = NONE
<1> DEFINE later(v) == {o \in Occurrences : Nanos(o) > v}
<1>1. later(t) = {}
  <2> SUFFICES ASSUME later(t) # {} PROVE FALSE
    OBVIOUS
  <2> DEFINE first == CHOOSE o \in later(t) : \A p \in later(t) : o <= p
  <2>1. After(t) = Nanos(first)
    BY DEF After
  <2>2. \E o \in later(t) : \A p \in later(t) : o <= p
    BY LeastOne, CadenceAssumption
  <2>3. first \in Nat
    BY <2>2, CadenceAssumption
  <2> QED BY <2>1, <2>3, SecondsOfNanos, CadenceAssumption
<1>2. later(u) = {}
  <2>1. \A o \in Occurrences : Nanos(o) \in Nat
    BY CadenceAssumption, SecondsOfNanos
  <2> QED BY <1>1, <2>1
<1> QED BY <1>2 DEF After

\* A cadence whose crank aborts once it is due aborts for ever.
LEMMA StuckForEver ==
  ASSUME NEW c \in Cadences, NEW e \in Blocks, NEW f \in Blocks,
         e.height <= f.height, e.time <= f.time,
         IsDue(c, e), CrankAborts(c, e)
  PROVE  IsDue(c, f) /\ CrankAborts(c, f)
<1>1. /\ c.kind \in {"blocks", "time", "cron"} /\ c.interval \in Nat
      /\ c.previous \in Nat \cup {NONE}
      /\ e.height \in Nat /\ e.time \in Nat
      /\ f.height \in Nat /\ f.time \in Nat
      /\ Seconds(e.time) \in Nat /\ Seconds(f.time) \in Nat
      /\ Seconds(e.time) <= Seconds(f.time)
  BY SecondsBound, SecondsMonotone DEF Cadences, Blocks
<1>2. CASE c.kind = "blocks"
  BY <1>1, <1>2 DEF IsDue, CrankAborts
<1>3. CASE c.kind = "time"
  <2>1. c.previous \in Nat /\ Seconds(c.previous) \in Nat
    BY <1>1, <1>3, SecondsBound DEF CrankAborts
  <2>2. Seconds(e.time) >= Seconds(c.previous) + c.interval
    BY <1>3, <2>1, CadenceAssumption DEF IsDue
  <2>3. ~(e.time < Nanos(c.interval))
    <3>1. Seconds(e.time) >= c.interval
      BY <1>1, <2>1, <2>2
    <3>2. Nanos(Seconds(e.time)) <= e.time
      BY <1>1, SecondsBound
    <3>3. Nanos(c.interval) <= Nanos(Seconds(e.time))
      BY <1>1, <3>1, CadenceAssumption DEF Nanos
    <3> QED BY <1>1, <3>2, <3>3, SecondsOfNanos
  <2>4. c.interval = 0 /\ c.previous < f.time
    BY <1>1, <1>3, <2>1, <2>3 DEF CrankAborts
  <2>5. Seconds(f.time) >= Seconds(c.previous) + c.interval
    BY <1>1, <2>1, <2>2
  <2> QED BY <1>3, <2>1, <2>4, <2>5, CadenceAssumption DEF IsDue, CrankAborts
<1>4. CASE c.kind = "cron"
  <2>1. Latest(c, e) \in Nat /\ Latest(c, f) \in Nat /\ Latest(c, e) <= Latest(c, f)
    BY <1>1 DEF Latest
  <2>2. After(Latest(c, e)) = NONE
    BY <1>4 DEF CrankAborts
  <2>3. After(Latest(c, f)) = NONE
    BY <2>1, <2>2, NothingAfter
  <2>4. ASSUME c.previous # NONE
        PROVE  IsSatisfied(IntoCondition(c, f), f)
    <3>1. IsSatisfied(IntoCondition(c, e), e)
      BY <1>4, <2>4 DEF IsDue
    <3>2. IntoCondition(c, e) = IntoCondition(c, f)
      BY <2>4, ConditionStays
    <3>3. IntoCondition(c, f) \in Conditions
      BY ConditionTyped
    <3> QED BY <1>1, <3>1, <3>2, <3>3 DEF IsSatisfied, Conditions
  <2> QED BY <1>4, <2>3, <2>4 DEF IsDue, CrankAborts
<1> QED BY <1>1, <1>2, <1>3, <1>4

-----------------------------------------------------------------------------
(* Typed books *)

BookOK(book) ==
  \A id \in DOMAIN book :
    book[id] \in Trigger /\ id = TriggerId(book[id].condition)

-----------------------------------------------------------------------------
(* One execution *)

LEMMA EnvTyped ==
  ASSUME TypeOK
  PROVE  env \in Blocks /\ env.height = height /\ env.time = time
         /\ height \in Nat /\ time \in Nat /\ height < MaxU64
BY AutomationAssumption, CadenceAssumption DEF TypeOK, env, Blocks

\* What is committed of a schedule that was executed: the crank, or nothing.
LEMMA Committed ==
  ASSUME TypeOK, NEW s \in ScheduleRecords, s.next = NONE, ~Aborts(s)
  PROVE  /\ Commit(Executed(s)) \in ScheduleRecords
         /\ Commit(Executed(s)).next = NONE
         /\ Commit(Executed(s)).max = s.max
         /\ Commit(Executed(s)).executors = s.executors
         /\ WithinMaximum(s) /\ IsDue(s.cadence, env) =>
              /\ ~CrankAborts(s.cadence, env)
              /\ Commit(Executed(s)).cadence = Crank(s.cadence, env)
              /\ Commit(Executed(s)).executions = Executions(s) + 1
         /\ ~(WithinMaximum(s) /\ IsDue(s.cadence, env)) =>
              Commit(Executed(s)) = s
<1>1. /\ s.cadence \in Cadences
      /\ Executions(s) \in Nat
      /\ env \in Blocks
  BY EnvTyped DEF ScheduleRecords, Executions
<1>2. CASE WithinMaximum(s) /\ IsDue(s.cadence, env)
  <2> DEFINE c == Crank(s.cadence, env)
  <2>1. ~CrankAborts(s.cadence, env) /\ c \in Cadences
    BY <1>1, <1>2, CrankTyped DEF Aborts
  <2>2. Executed(s) = [s EXCEPT !.next = c]
    BY <1>2 DEF Executed
  <2> HIDE DEF c
  <2>3. c # NONE
    BY <2>1, CadenceAssumption
  <2> DEFINE e == [s EXCEPT !.next = c]
  <2>4. /\ e \in ScheduleRecords /\ e.next = c /\ e.max = s.max
        /\ e.executions = s.executions /\ e.executors = s.executors
    BY <2>1 DEF ScheduleRecords
  <2>5. Executions(e) = Executions(s)
    BY <2>4 DEF Executions
  <2> HIDE DEF e
  <2> DEFINE n == Executions(s) + 1
             e1 == [e EXCEPT !.cadence = c]
             e2 == [e1 EXCEPT !.next = NONE]
             e3 == [e2 EXCEPT !.executions = n]
  <2>6. Commit(e) = e3
    BY <2>3, <2>4, <2>5 DEF Commit
  <2>7. n \in Nat
    BY <1>1
  <2> HIDE DEF n
  <2>8. /\ e1 \in ScheduleRecords /\ e1.max = s.max /\ e1.cadence = c
        /\ e1.executors = s.executors
    BY <2>1, <2>4 DEF ScheduleRecords
  <2> HIDE DEF e1
  <2>9. /\ e2 \in ScheduleRecords /\ e2.max = s.max /\ e2.cadence = c
        /\ e2.next = NONE /\ e2.executors = s.executors
    BY <2>8 DEF ScheduleRecords
  <2> HIDE DEF e2
  <2>10. /\ e3 \in ScheduleRecords /\ e3.max = s.max /\ e3.cadence = c
         /\ e3.next = NONE /\ e3.executions = n /\ e3.executors = s.executors
    BY <2>7, <2>9 DEF ScheduleRecords
  <2> QED BY <1>2, <2>1, <2>2, <2>6, <2>10 DEF c, e, n
<1>3. CASE ~(WithinMaximum(s) /\ IsDue(s.cadence, env))
  <2>1. Executed(s) = s
    BY <1>3 DEF Executed
  <2>2. Commit(s) = s
    BY DEF Commit
  <2> QED BY <1>3, <2>1, <2>2
<1> QED BY <1>2, <1>3

\* A trigger is stored under its own id, with a rebate the balance covers.
LEMMA BookKept ==
  ASSUME TypeOK, NEW s \in ScheduleRecords, ~Aborts(s),
         NEW book, BookOK(book), NEW balance \in Nat
  PROVE  /\ BookOK(Book(s, Awaited(s), book, balance))
         /\ Balance(s, Awaited(s), book, balance) \in Nat
<1> DEFINE condition == Awaited(s)
           id == TriggerId(condition)
           rebate == Least(s.rebate, balance)
<1>1. CASE ~Creates(s)
  BY <1>1 DEF Book, Balance
<1>2. CASE Creates(s)
  <2>1. s.cadence \in Cadences /\ s.rebate \in Nat /\ env \in Blocks
    BY EnvTyped DEF ScheduleRecords
  <2>2. condition \in Conditions
    <3>1. CASE IsDue(s.cadence, env)
      <4>1. ~CrankAborts(s.cadence, env)
        BY <1>2, <3>1 DEF Aborts, Creates
      <4>2. Crank(s.cadence, env) \in Cadences
        BY <2>1, <4>1, CrankTyped
      <4>3. condition = IntoCondition(Crank(s.cadence, env), env)
        BY <3>1 DEF Awaited
      <4> QED BY <2>1, <4>2, <4>3, ConditionTyped
    <3>2. CASE ~IsDue(s.cadence, env)
      <4>1. condition = IntoCondition(s.cadence, env)
        BY <3>2 DEF Awaited
      <4> QED BY <2>1, <4>1, ConditionTyped
    <3> QED BY <3>1, <3>2
  <2> HIDE DEF condition
  <2>3. rebate \in Nat /\ rebate <= balance
    BY <2>1 DEF Least
  <2> DEFINE new == Book(s, condition, book, balance)
             trigger == [condition |-> condition, rebate |-> rebate]
  <2>4. /\ DOMAIN new = DOMAIN book \cup {id}
        /\ new[id] = trigger
        /\ \A i \in DOMAIN book : i # id => new[i] = book[i]
    BY <1>2 DEF Book
  <2>5. trigger \in Trigger /\ trigger.condition = condition
    BY <2>2, <2>3 DEF Trigger, Conditions
  <2> HIDE DEF new, trigger, id
  <2>6. BookOK(new)
    <3> SUFFICES ASSUME NEW i \in DOMAIN new
                 PROVE  new[i] \in Trigger /\ i = TriggerId(new[i].condition)
      BY DEF BookOK
    <3>1. CASE i = id
      BY <2>4, <2>5, <3>1 DEF id
    <3>2. CASE i # id
      BY <2>4, <3>2 DEF BookOK
    <3> QED BY <3>1, <3>2
  <2>7. Refund(book, id) \in Nat
    BY DEF Refund, BookOK, Trigger
  <2>8. Balance(s, condition, book, balance) = balance - rebate + Refund(book, id)
    BY <1>2 DEF Balance, id
  <2> HIDE DEF rebate
  <2> QED BY <2>3, <2>6, <2>7, <2>8 DEF new, condition
<1> QED BY <1>1, <1>2

\* An execution keeps every variable in its type.
LEMMA ProcessTyped ==
  ASSUME TypeOK, NEW s \in ScheduleRecords, s.next = NONE,
         NEW n \in 0 .. MaxRuns, NEW at \in Nat \cup {NONE},
         NEW book, BookOK(book), NEW balance \in Nat,
         Process(s, n, at, book, balance)
  PROVE  /\ schedule' \in ScheduleRecords
         /\ schedule'.next = NONE
         /\ BookOK(triggers')
         /\ funds' \in Nat
         /\ runs' \in 0 .. MaxRuns
         /\ ranAt' \in Nat \cup {NONE}
<1>1. ~Aborts(s) /\ schedule' = Commit(Executed(s))
  BY DEF Process
<1>2. schedule' \in ScheduleRecords /\ schedule'.next = NONE
  BY <1>1, Committed
<1> DEFINE left == Balance(s, Awaited(s), book, balance)
<1>3. /\ triggers' = Book(s, Awaited(s), book, balance)
      /\ Runs(s, n, left) \/ Rests(s, n, at, left)
  BY DEF Process
<1>4. BookOK(triggers') /\ left \in Nat
  BY <1>1, <1>3, BookKept
<1> HIDE DEF left
<1>5. Seconds(time) \in Nat
  BY EnvTyped, SecondsBound
<1>6. funds' \in Nat /\ runs' \in 0 .. MaxRuns /\ ranAt' \in Nat \cup {NONE}
  BY <1>3, <1>4, <1>5, AutomationAssumption DEF Runs, Rests, Least
<1> QED BY <1>2, <1>4, <1>6

-----------------------------------------------------------------------------
(* Types *)

LEMMA TypeInit == Init => TypeOK
<1> SUFFICES ASSUME Init PROVE TypeOK
  OBVIOUS
<1>1. \A id \in DOMAIN triggers :
        triggers[id] \in Trigger /\ id = TriggerId(triggers[id].condition)
  BY DEF Init, NoTriggers
<1> QED BY <1>1, AutomationAssumption DEF Init, TypeOK

\* Every execution is one of Process, of a schedule that is stored or proposed.
LEMMA TypeStep == TypeOK /\ [Next]_vars => TypeOK'
<1> SUFFICES ASSUME TypeOK, [Next]_vars PROVE TypeOK'
  OBVIOUS
<1> DEFINE Ran == /\ schedule' \in ScheduleRecords
                  /\ schedule'.next = NONE
                  /\ BookOK(triggers')
                  /\ funds' \in Nat
                  /\ runs' \in 0 .. MaxRuns
                  /\ ranAt' \in Nat \cup {NONE}
<1>1. /\ BookOK(triggers) /\ funds \in Nat
      /\ height \in 0 .. MaxHeight /\ time \in Nat
      /\ runs \in 0 .. MaxRuns /\ ranAt \in Nat \cup {NONE}
      /\ 0 \in 0 .. MaxRuns /\ NONE \in Nat \cup {NONE}
  BY AutomationAssumption DEF TypeOK, BookOK
<1>2. ASSUME NEW s \in Schedules PROVE s \in ScheduleRecords /\ s.next = NONE
  BY AutomationAssumption
<1>3. ASSUME status # "none"
      PROVE  schedule \in ScheduleRecords /\ schedule.next = NONE
  BY <1>3 DEF TypeOK
<1>4. ASSUME Ran, status' \in {"active", "paused", "archived"},
             UNCHANGED blockVars,
             config' \in Schedules \cup {NONE}, updates' \in 0 .. MaxUpdates
      PROVE  TypeOK'
  BY <1>1, <1>4, AutomationAssumption DEF TypeOK, BookOK, blockVars
<1>5. ASSUME Ran, status # "none", UNCHANGED <<blockVars, configVars, status>>
      PROVE  TypeOK'
  BY <1>4, <1>5 DEF TypeOK, configVars
<1>6. CASE NextBlock
  <2>1. height' \in 0 .. MaxHeight /\ time' \in Nat
    BY <1>1, <1>6, CadenceAssumption, AutomationAssumption DEF NextBlock
  <2> QED BY <1>6, <2>1 DEF NextBlock, TypeOK, strategyVars, configVars
<1>7. CASE Transfer
  <2>1. funds' \in Nat
    BY <1>7, AutomationAssumption DEF Transfer
  <2> QED BY <1>7, <2>1 DEF Transfer, TypeOK, strategyVars, configVars, blockVars
<1>8. ASSUME NEW s \in Schedules, Instantiate(s) PROVE TypeOK'
  <2>1. PICK sent \in 0 .. MaxFunds : Process(s, 0, NONE, triggers, sent)
    BY <1>8 DEF Instantiate
  <2>2. sent \in Nat
    BY <2>1, AutomationAssumption
  <2>3. Ran
    BY <1>1, <1>2, <2>1, <2>2, ProcessTyped
  <2> QED BY <1>4, <1>8, <2>3 DEF Instantiate, TypeOK
<1>9. ASSUME NEW s \in Schedules, Update(s) PROVE TypeOK'
  <2>1. Process(s, 0, NONE, triggers, funds)
    BY <1>9 DEF Update
  <2>2. Ran
    BY <1>1, <1>2, <2>1, ProcessTyped
  <2>3. updates' \in 0 .. MaxUpdates
    BY <1>9, AutomationAssumption DEF Update, TypeOK
  <2>4. status' \in {"active", "paused", "archived"}
    BY <1>9 DEF Update, TypeOK
  <2> QED BY <1>4, <1>9, <2>2, <2>3, <2>4 DEF Update
<1>10. ASSUME NEW new \in {"active", "paused", "archived"}, UpdateStatus(new)
       PROVE  TypeOK'
  <2>1. Ran
    <3>1. CASE new = "active"
      <4>1. Process(schedule, runs, ranAt, triggers, funds)
        BY <1>10, <3>1 DEF UpdateStatus
      <4> QED BY <1>1, <1>3, <1>10, <4>1, ProcessTyped DEF UpdateStatus
    <3>2. CASE new # "active"
      BY <1>1, <1>3, <1>10, <3>2 DEF UpdateStatus, strategyVars, BookOK
    <3> QED BY <3>1, <3>2
  <2> QED BY <1>4, <1>10, <2>1 DEF UpdateStatus, TypeOK, configVars
<1>11. CASE Execute
  <2>1. Process(schedule, runs, ranAt, triggers, funds) /\ status # "none"
    BY <1>11 DEF Execute
  <2>2. Ran
    BY <1>1, <1>3, <2>1, ProcessTyped
  <2> QED BY <1>5, <1>11, <2>1, <2>2 DEF Execute
<1>12. ASSUME NEW id \in DOMAIN triggers, Fire(id) PROVE TypeOK'
  <2>1. BookOK(Without(id))
    BY <1>1 DEF Without, BookOK
  <2>2. CASE status = "active" /\ ~Aborts(schedule)
    <3>1. Process(schedule, runs, ranAt, Without(id), funds)
      BY <1>12, <2>2 DEF Fire
    <3>2. Ran
      BY <1>1, <1>3, <2>1, <2>2, <3>1, ProcessTyped
    <3> QED BY <1>5, <1>12, <2>2, <3>2 DEF Fire
  <2>3. CASE ~(status = "active" /\ ~Aborts(schedule))
    <3>1. triggers' = Without(id)
          /\ UNCHANGED <<strategyVars, funds, blockVars, configVars, status>>
      BY <1>12, <2>3 DEF Fire
    <3>2. BookOK(triggers')
      BY <2>1, <3>1
    <3> QED BY <3>1, <3>2
            DEF TypeOK, BookOK, strategyVars, blockVars, configVars
  <2> QED BY <2>2, <2>3
<1>13. CASE UNCHANGED vars
  BY <1>13 DEF vars, TypeOK
<1> QED BY <1>6, <1>7, <1>8, <1>9, <1>10, <1>11, <1>12, <1>13 DEF Next, FireAny

\* Every variable has its type in every behaviour: triggers are stored under
\* their own ids, a schedule never keeps the boundary it is about to commit,
\* and rebates never overdraw the balance.
THEOREM TypeCorrect == Spec => []TypeOK
BY TypeInit, TypeStep, PTL DEF Spec

-----------------------------------------------------------------------------
(* The standing order *)

\* The anchor of a schedule that last ran at `at`.
AnchorOf(s, at) ==
  IF s.cadence.kind = "cron" /\ at # NONE /\ Counted(s) THEN at
                                                       ELSE InUnits(s.cadence)

\* What stays of a configuration c in the schedule s that came of it after n
\* runs: its plan, less the runs if they are counted; and a cron schedule that
\* ran, and counted it, stands at a later second.
Kept(c, s, n, at) ==
  /\ s.cadence.kind = c.cadence.kind
  /\ s.cadence.interval = c.cadence.interval
  /\ s.max = c.max
  /\ Counted(s) <=> Counted(c)
  /\ Counted(s) => Executions(s) = Executions(c) + n
  /\ s.cadence.kind = "cron" /\ at # NONE /\ Counted(s) =>
       s.cadence.previous \in Nat /\ Seconds(s.cadence.previous) > at

\* One more run than n serves a plan p that stands at a, and leaves it at b.
Serving(p, a, b, n) ==
  /\ p.counted /\ p.max # NONE => n < p.max
  /\ \E m \in 0 .. Order!Now(p) : /\ Order!Follows(p, a, m)
                                 /\ b = IF p.counted THEN m ELSE a

IInv ==
  /\ TypeOK
  /\ config = NONE <=> schedule = NONE
  /\ schedule # NONE => Kept(config, schedule, runs, ranAt)

\* A cadence that is due has reached a boundary the order may serve next.
LEMMA DueBoundary ==
  ASSUME TypeOK, NEW c \in Cadences, IsDue(c, env),
         NEW p, p.kind = c.kind, p.interval = c.interval
  PROVE  \E b \in 0 .. Order!Now(p) : Order!Follows(p, InUnits(c), b)
<1>1. /\ env \in Blocks /\ env.height = height /\ env.time = time
      /\ height \in Nat /\ time \in Nat /\ env.height < MaxU64
      /\ Seconds(time) \in Nat
  BY EnvTyped, SecondsBound
<1>2. /\ c.kind \in {"blocks", "time", "cron"} /\ c.interval \in Nat
      /\ c.previous \in Nat \cup {NONE}
  BY DEF Cadences
<1>3. Order!Now(p) \in Nat
  BY <1>1 DEF Order!Now
<1>4. CASE c.previous = NONE
  <2>1. InUnits(c) = NONE
    BY <1>4 DEF InUnits, SecondsOf
  <2>2. Order!Follows(p, InUnits(c), Order!Now(p))
    BY <1>3, <2>1 DEF Order!Follows
  <2> QED BY <1>3, <2>2
<1>5. CASE c.previous # NONE /\ c.kind = "blocks"
  <2> DEFINE b == c.previous + c.interval
  <2>1. /\ InUnits(c) = c.previous /\ InUnits(c) \in Nat /\ InUnits(c) # NONE
        /\ Order!Now(p) = height
    BY <1>2, <1>5, CadenceAssumption DEF InUnits, Order!Now
  <2>2. b \in 0 .. height
    BY <1>1, <1>2, <1>5 DEF IsDue
  <2>3. 1 \in 1 .. Order!Now(p) + 1 /\ b = InUnits(c) + 1 * p.interval
    BY <1>1, <1>2, <2>1
  <2>4. b <= Order!Now(p) /\ p.kind # "cron"
    BY <1>5, <2>1, <2>2
  <2> HIDE DEF b
  <2>5. Order!Follows(p, InUnits(c), b)
    BY <2>1, <2>3, <2>4 DEF Order!Follows
  <2> QED BY <2>1, <2>2, <2>5
<1>6. CASE c.previous # NONE /\ c.kind = "time"
  <2> DEFINE b == Seconds(c.previous) + c.interval
  <2>1. /\ InUnits(c) = Seconds(c.previous) /\ InUnits(c) \in Nat
        /\ InUnits(c) # NONE /\ Order!Now(p) = Seconds(time)
    BY <1>2, <1>6, SecondsBound, CadenceAssumption
       DEF InUnits, SecondsOf, Order!Now
  <2>2. b \in 0 .. Seconds(time)
    BY <1>1, <1>2, <1>6, <2>1 DEF IsDue
  <2>3. 1 \in 1 .. Order!Now(p) + 1 /\ b = InUnits(c) + 1 * p.interval
    BY <1>1, <1>2, <2>1
  <2>4. b <= Order!Now(p) /\ p.kind # "cron"
    BY <1>6, <2>1, <2>2
  <2> HIDE DEF b
  <2>5. Order!Follows(p, InUnits(c), b)
    BY <2>1, <2>3, <2>4 DEF Order!Follows
  <2> QED BY <2>1, <2>2, <2>5
<1>7. CASE c.previous # NONE /\ c.kind = "cron"
  <2>1. /\ InUnits(c) = Seconds(c.previous) /\ InUnits(c) # NONE
        /\ Order!Now(p) = Seconds(time)
    BY <1>2, <1>7, SecondsBound, CadenceAssumption
       DEF InUnits, SecondsOf, Order!Now
  <2>2. \E o \in Occurrences : InUnits(c) < o /\ o <= Order!Now(p)
    BY <1>1, <1>7, <2>1, CronDue
  <2>3. Order!Follows(p, InUnits(c), Order!Now(p))
    BY <1>3, <1>7, <2>1, <2>2 DEF Order!Follows
  <2> QED BY <1>3, <2>3
<1> QED BY <1>2, <1>4, <1>5, <1>6, <1>7

\* A schedule that is due is cranked to a boundary the order may serve next.
LEMMA NextBoundary ==
  ASSUME TypeOK, NEW s \in ScheduleRecords, NEW at \in Nat \cup {NONE},
         Counted(s), IsDue(s.cadence, env), ~CrankAborts(s.cadence, env),
         s.cadence.kind = "cron" /\ at # NONE =>
           s.cadence.previous \in Nat /\ Seconds(s.cadence.previous) > at,
         NEW new \in ScheduleRecords, new.cadence = Crank(s.cadence, env),
         Counted(new),
         NEW p, p.kind = s.cadence.kind, p.interval = s.cadence.interval
  PROVE  /\ AnchorOf(new, Seconds(time)) \in 0 .. Order!Now(p)
         /\ Order!Follows(p, AnchorOf(s, at), AnchorOf(new, Seconds(time)))
<1> DEFINE c == s.cadence
           a == AnchorOf(s, at)
           b == AnchorOf(new, Seconds(time))
<1>1. /\ c \in Cadences /\ env \in Blocks /\ env.height = height /\ env.time = time
      /\ height \in Nat /\ time \in Nat /\ env.height < MaxU64
      /\ Seconds(time) \in Nat
  BY EnvTyped, SecondsBound DEF ScheduleRecords
<1>2. /\ c.kind \in {"blocks", "time", "cron"} /\ c.interval \in Nat
      /\ c.previous \in Nat \cup {NONE}
  BY <1>1 DEF Cadences
<1>3. /\ Crank(c, env).kind = c.kind
      /\ Crank(c, env).previous \in Nat
      /\ new.cadence = Crank(c, env)
  BY <1>1, CrankTyped
<1>4. CASE c.kind = "blocks"
  <2>1. a = c.previous /\ b = Crank(c, env).previous /\ Order!Now(p) = height
    BY <1>3, <1>4 DEF AnchorOf, InUnits, Order!Now
  <2>2. CASE c.previous = NONE
    <3>1. b = height
      BY <1>1, <1>4, <2>1, <2>2 DEF Crank, Cadences
    <3> QED BY <1>1, <2>1, <2>2, <3>1 DEF Order!Follows
  <2>3. CASE c.previous # NONE
    <3>1. /\ Crank(c, env).previous \in 0 .. height
          /\ \E k \in 1 .. height + 1 :
               Crank(c, env).previous = c.previous + k * c.interval
      BY <1>1, <1>4, <2>3, BlocksOnTheGrid
    <3>2. \E k \in 1 .. Order!Now(p) + 1 : b = a + k * p.interval
      BY <2>1, <3>1
    <3>3. b \in 0 .. Order!Now(p) /\ a # NONE /\ p.kind # "cron"
      BY <1>4, <2>1, <2>3, <3>1
    <3> QED BY <1>1, <2>1, <3>2, <3>3 DEF Order!Follows
  <2> QED BY <2>2, <2>3
<1>5. CASE c.kind = "time"
  <2>1. /\ a = SecondsOf(c.previous)
        /\ b = Seconds(Crank(c, env).previous)
        /\ Order!Now(p) = Seconds(time)
    BY <1>3, <1>5, CadenceAssumption
       DEF AnchorOf, InUnits, SecondsOf, Order!Now
  <2>2. CASE c.previous = NONE
    <3>1. a = NONE /\ b = Seconds(time)
      BY <1>1, <1>5, <2>1, <2>2 DEF Crank, Cadences, SecondsOf
    <3> QED BY <1>1, <2>1, <3>1 DEF Order!Follows
  <2>3. CASE c.previous # NONE
    <3>1. /\ Seconds(Crank(c, env).previous) \in 0 .. Seconds(time)
          /\ \E k \in 1 .. Seconds(time) + 1 :
               Seconds(Crank(c, env).previous)
                 = Seconds(c.previous) + k * c.interval
      BY <1>1, <1>5, <2>3, TimeOnTheGrid
    <3>2. a = Seconds(c.previous) /\ a # NONE
      BY <1>2, <2>1, <2>3, SecondsBound, CadenceAssumption DEF SecondsOf
    <3>3. \E k \in 1 .. Order!Now(p) + 1 : b = a + k * p.interval
      BY <2>1, <3>1, <3>2
    <3>4. b \in 0 .. Order!Now(p) /\ p.kind # "cron"
      BY <1>5, <2>1, <3>1
    <3> QED BY <1>1, <2>1, <3>2, <3>3, <3>4 DEF Order!Follows
  <2> QED BY <2>2, <2>3
<1>6. CASE c.kind = "cron"
  <2>1. b = Seconds(time) /\ Order!Now(p) = Seconds(time)
    BY <1>1, <1>3, <1>6, CadenceAssumption DEF AnchorOf, Order!Now
  <2>2. CASE a = NONE
    BY <1>1, <2>1, <2>2 DEF Order!Follows
  <2>3. CASE a # NONE
    <3>1. /\ c.previous \in Nat /\ a \in Nat
          /\ a <= Seconds(c.previous) /\ Seconds(c.previous) \in Nat
      <4>1. CASE at # NONE
        <5>1. a = at /\ at \in Nat
          BY <1>6, <4>1 DEF AnchorOf
        <5> QED BY <1>6, <4>1, <5>1, SecondsBound
      <4>2. CASE at = NONE
        <5>1. a = SecondsOf(c.previous)
          BY <1>6, <4>2 DEF AnchorOf, InUnits
        <5>2. c.previous # NONE
          BY <2>3, <5>1 DEF SecondsOf
        <5> QED BY <1>2, <5>1, <5>2, SecondsBound DEF SecondsOf
      <4> QED BY <4>1, <4>2
    <3>2. PICK o \in Occurrences : /\ Seconds(c.previous) < o
                                   /\ o <= Seconds(time)
      BY <1>1, <1>6, <3>1, CadenceAssumption, CronDue
    <3>3. a < o /\ o \in Nat
      <4>1. o \in Nat
        BY CadenceAssumption
      <4> HIDE DEF a
      <4> QED BY <3>1, <3>2, <4>1
    <3>4. p.kind = "cron" /\ \E q \in Occurrences : a < q /\ q <= b
      BY <1>6, <2>1, <3>2, <3>3
    <3> QED BY <1>1, <2>1, <2>3, <3>4 DEF Order!Follows
  <2> QED BY <2>2, <2>3
<1> QED BY <1>2, <1>4, <1>5, <1>6

\* An execution serves the order's next boundary, if it runs the action, and
\* leaves order and schedule as they are if it does not.
LEMMA ProcessServes ==
  ASSUME TypeOK, NEW c \in Schedules,
         NEW s \in ScheduleRecords, s.next = NONE,
         NEW n \in 0 .. MaxRuns, NEW at \in Nat \cup {NONE},
         NEW book, NEW balance,
         Process(s, n, at, book, balance),
         Kept(c, s, n, at)
  PROVE  /\ Kept(c, schedule', runs', ranAt')
         /\ \/ schedule' = s /\ runs' = n /\ ranAt' = at
            \/ /\ runs' = n + 1
               /\ Serving(Plan(c), AnchorOf(s, at), AnchorOf(schedule', ranAt'), n)
<1> DEFINE left == Balance(s, Awaited(s), book, balance)
           new == Commit(Executed(s))
<1>1. /\ ~Aborts(s)
      /\ schedule' = new
      /\ Runs(s, n, left) \/ Rests(s, n, at, left)
  BY DEF Process
<1>2. /\ s.cadence \in Cadences /\ s.max \in Nat \cup {NONE}
      /\ s.executions \in Nat \cup {NONE}
      /\ Executions(s) \in Nat
      /\ env \in Blocks /\ env.time = time /\ time \in Nat
      /\ Seconds(time) \in Nat
      /\ c \in ScheduleRecords /\ Executions(c) \in Nat
  BY EnvTyped, SecondsBound, AutomationAssumption
     DEF ScheduleRecords, Executions
<1>3. CanExecute(s) <=> (Counted(s) => WithinMaximum(s)) /\ IsDue(s.cadence, env)
  BY <1>2, CadenceAssumption DEF CanExecute, WithinMaximum, Executions, Counted
<1>4. ~Counted(s) => ~WithinMaximum(s)
  BY <1>2, CadenceAssumption DEF WithinMaximum, Executions, Counted
<1>5. /\ Plan(c).kind = s.cadence.kind
      /\ Plan(c).interval = s.cadence.interval
      /\ Plan(c).max = IF s.max = NONE THEN NONE ELSE s.max - Executions(c)
      /\ Plan(c).counted = Counted(c)
      /\ Counted(s) <=> Counted(c)
  BY DEF Plan, Kept
<1>6. CASE CanExecute(s) /\ Counted(s)
  <2>1. runs' = n + 1 /\ ranAt' = Seconds(time)
    BY <1>1, <1>6 DEF Runs, Rests
  <2>2. /\ new \in ScheduleRecords
        /\ new.max = s.max
        /\ ~CrankAborts(s.cadence, env)
        /\ new.cadence = Crank(s.cadence, env)
        /\ new.executions = Executions(s) + 1
    BY <1>1, <1>3, <1>6, Committed
  <2> HIDE DEF new
  <2>3. new.executions # NONE /\ Executions(new) = Executions(s) + 1
    BY <1>2, <2>2, CadenceAssumption DEF Executions
  <2>4. Counted(new)
    BY <2>3 DEF Counted
  <2>5. Executions(s) = Executions(c) + n
    BY <1>6 DEF Kept
  <2>6. Plan(c).max # NONE => n < Plan(c).max
    BY <1>2, <1>3, <1>5, <1>6, <2>5 DEF WithinMaximum
  <2>7. s.cadence.kind = "cron" /\ at # NONE =>
          s.cadence.previous \in Nat /\ Seconds(s.cadence.previous) > at
    BY <1>6 DEF Kept
  <2>8. /\ AnchorOf(new, Seconds(time)) \in 0 .. Order!Now(Plan(c))
        /\ Order!Follows(Plan(c), AnchorOf(s, at), AnchorOf(new, Seconds(time)))
    BY <1>3, <1>5, <1>6, <2>2, <2>4, <2>7, NextBoundary
  <2>9. Serving(Plan(c), AnchorOf(s, at), AnchorOf(new, Seconds(time)), n)
    BY <1>5, <1>6, <2>6, <2>8 DEF Serving
  <2>10. Kept(c, new, n + 1, Seconds(time))
    <3>1. /\ new.cadence.kind = s.cadence.kind
          /\ new.cadence.interval = s.cadence.interval
          /\ new.cadence.previous \in Nat
      BY <1>2, <2>2, CrankTyped
    <3>2. Executions(new) = Executions(c) + (n + 1)
      BY <1>2, <2>3, <2>5
    <3>3. new.cadence.kind = "cron" =>
            Seconds(new.cadence.previous) > Seconds(time)
      BY <1>2, <2>2, <3>1, CronCranked
    <3> QED BY <1>6, <2>2, <2>4, <3>1, <3>2, <3>3 DEF Kept
  <2> QED BY <1>1, <2>1, <2>9, <2>10
<1>7. CASE CanExecute(s) /\ ~Counted(s)
  <2>1. runs' = n + 1 /\ ranAt' = Seconds(time)
    BY <1>1, <1>7 DEF Runs, Rests
  <2>2. new = s
    BY <1>1, <1>4, <1>7, Committed
  <2> HIDE DEF new
  <2>3. /\ AnchorOf(s, at) = InUnits(s.cadence)
        /\ AnchorOf(new, Seconds(time)) = InUnits(s.cadence)
    BY <1>7, <2>2 DEF AnchorOf
  <2>4. \E b \in 0 .. Order!Now(Plan(c)) :
          Order!Follows(Plan(c), InUnits(s.cadence), b)
    BY <1>2, <1>3, <1>5, <1>7, DueBoundary
  <2>5. Serving(Plan(c), AnchorOf(s, at), AnchorOf(new, Seconds(time)), n)
    BY <1>5, <1>7, <2>3, <2>4 DEF Serving
  <2>6. Kept(c, new, n + 1, Seconds(time))
    BY <1>7, <2>2 DEF Kept
  <2> QED BY <1>1, <2>1, <2>5, <2>6
<1>8. CASE ~CanExecute(s)
  <2>1. runs' = n /\ ranAt' = at
    BY <1>1, <1>8 DEF Runs, Rests
  <2>2. new = s
    BY <1>1, <1>3, <1>4, <1>8, Committed
  <2> QED BY <1>1, <2>1, <2>2
<1> QED BY <1>6, <1>7, <1>8

\* A schedule as it is configured: nothing has been lost of it yet.
LEMMA KeptAtFirst ==
  ASSUME NEW s \in Schedules
  PROVE  /\ s \in ScheduleRecords /\ s.next = NONE
         /\ Kept(s, s, 0, NONE)
         /\ AnchorOf(s, NONE) = Plan(s).previous
<1>1. s \in ScheduleRecords /\ s.next = NONE
  BY AutomationAssumption
<1>2. Executions(s) \in Nat
  BY <1>1 DEF ScheduleRecords, Executions
<1> QED BY <1>1, <1>2 DEF Kept, AnchorOf, Plan

LEMMA OrderInit == Init => IInv /\ Order!Init
<1> SUFFICES ASSUME Init PROVE IInv /\ Order!Init
  OBVIOUS
<1>1. IInv
  BY TypeInit DEF Init, IInv
<1>2. Seconds(time) = 0
  BY CadenceAssumption DEF Init, Seconds
<1> QED BY <1>1, <1>2 DEF Init, Order!Init, Anchor

\* Executing the schedule that is stored runs the order, or leaves it.
LEMMA StoredServes ==
  ASSUME IInv, TypeOK', schedule # NONE,
         NEW book, NEW balance,
         Process(schedule, runs, ranAt, book, balance),
         UNCHANGED <<height, time, config>>, status' # "none"
  PROVE  IInv' /\ [Order!Next]_(Order!vars)
<1>1. /\ TypeOK
      /\ config \in Schedules /\ config # NONE
      /\ schedule \in ScheduleRecords /\ schedule.next = NONE
      /\ runs \in 0 .. MaxRuns /\ ranAt \in Nat \cup {NONE}
      /\ Kept(config, schedule, runs, ranAt)
  BY DEF IInv, TypeOK
<1>2. /\ Kept(config, schedule', runs', ranAt')
      /\ \/ schedule' = schedule /\ runs' = runs /\ ranAt' = ranAt
         \/ /\ runs' = runs + 1
            /\ Serving(Plan(config), AnchorOf(schedule, ranAt),
                       AnchorOf(schedule', ranAt'), runs)
  BY <1>1, ProcessServes
<1>3. schedule' # NONE
  BY DEF TypeOK
<1>4. IInv'
  BY <1>1, <1>2, <1>3 DEF IInv
<1>5. Anchor = AnchorOf(schedule, ranAt) /\ Anchor' = AnchorOf(schedule', ranAt')
  BY <1>3 DEF Anchor, AnchorOf
<1>6. Plan(config) # NONE
  BY <1>1, PlanAssumption
<1>7. CASE schedule' = schedule /\ runs' = runs /\ ranAt' = ranAt
  <2>1. UNCHANGED Order!vars
    BY <1>7 DEF Order!vars, Anchor
  <2> QED BY <1>4, <2>1
<1>8. CASE ~(schedule' = schedule /\ runs' = runs /\ ranAt' = ranAt)
  <2>1. Order!Serve(Plan(config), Anchor, runs)
    BY <1>2, <1>5, <1>8 DEF Order!Serve, Serving
  <2>2. Order!Run
    BY <1>1, <1>6, <2>1 DEF Order!Run
  <2> QED BY <1>4, <2>2 DEF Order!Next
<1> QED BY <1>7, <1>8

\* Executing a schedule as it is configured gives the order, and may serve it
\* at once.
LEMMA ProposedServes ==
  ASSUME TypeOK, TypeOK', NEW s \in Schedules,
         NEW book, NEW balance,
         Process(s, 0, NONE, book, balance),
         config' = s, UNCHANGED <<height, time>>, status' # "none"
  PROVE  IInv' /\ [Order!Next]_(Order!vars)
<1>1. /\ s \in ScheduleRecords /\ s.next = NONE
      /\ Kept(s, s, 0, NONE)
      /\ AnchorOf(s, NONE) = Plan(s).previous
      /\ 0 \in 0 .. MaxRuns /\ NONE \in Nat \cup {NONE}
  BY KeptAtFirst, AutomationAssumption
<1>2. /\ Kept(s, schedule', runs', ranAt')
      /\ \/ schedule' = s /\ runs' = 0 /\ ranAt' = NONE
         \/ /\ runs' = 0 + 1
            /\ Serving(Plan(s), AnchorOf(s, NONE), AnchorOf(schedule', ranAt'), 0)
  BY <1>1, ProcessServes
<1>3. schedule' # NONE /\ s # NONE
  BY <1>1, AutomationAssumption DEF TypeOK
<1>4. IInv'
  BY <1>2, <1>3 DEF IInv
<1>5. Anchor' = AnchorOf(schedule', ranAt')
  BY <1>3 DEF Anchor, AnchorOf
<1>6. \/ Anchor' = Plan(s).previous /\ runs' = 0
      \/ Order!Serve(Plan(s), Plan(s).previous, 0)
  BY <1>1, <1>2, <1>5 DEF Order!Serve, Serving
<1>7. Order!Configure
  BY <1>3, <1>6 DEF Order!Configure
<1> QED BY <1>4, <1>7 DEF Order!Next

\* Every step is a step of the order, or none.
LEMMA OrderStep ==
  ASSUME IInv, [Next]_vars
  PROVE  IInv' /\ [Order!Next]_(Order!vars)
<1>1. TypeOK /\ TypeOK'
  BY TypeStep DEF IInv
<1>2. ASSUME UNCHANGED <<schedule, runs, ranAt, config>>, TypeOK'
      PROVE  /\ IInv'
             /\ Anchor' = Anchor
             /\ UNCHANGED <<height, time>> => UNCHANGED Order!vars
  BY <1>2 DEF IInv, Anchor, Order!vars
<1>3. status # "none" => schedule # NONE
  BY <1>1 DEF TypeOK
<1>4. CASE NextBlock
  <2>1. /\ height' > height /\ Seconds(time') >= Seconds(time)
        /\ UNCHANGED <<schedule, runs, ranAt, config>>
    <3>1. /\ height \in Nat /\ time \in Nat
          /\ height' = height + 1 /\ time' \in Nat /\ time' >= time
      BY <1>1, <1>4, EnvTyped, CadenceAssumption DEF NextBlock
    <3> QED BY <1>4, <3>1, SecondsMonotone, SecondsBound
            DEF NextBlock, strategyVars, configVars
  <2>2. Order!Tick
    BY <1>1, <1>2, <2>1 DEF Order!Tick
  <2> QED BY <1>1, <1>2, <2>1, <2>2 DEF Order!Next
<1>5. CASE Transfer
  BY <1>1, <1>2, <1>5 DEF Transfer, strategyVars, configVars, blockVars
<1>6. ASSUME NEW s \in Schedules, Instantiate(s)
      PROVE  IInv' /\ [Order!Next]_(Order!vars)
  <2>1. PICK sent \in 0 .. MaxFunds : Process(s, 0, NONE, triggers, sent)
    BY <1>6 DEF Instantiate
  <2>2. config' = s /\ UNCHANGED <<height, time>> /\ status' # "none"
    BY <1>6 DEF Instantiate, blockVars
  <2> QED BY <1>1, <2>1, <2>2, ProposedServes
<1>7. ASSUME NEW s \in Schedules, Update(s)
      PROVE  IInv' /\ [Order!Next]_(Order!vars)
  <2>1. /\ Process(s, 0, NONE, triggers, funds)
        /\ config' = s /\ UNCHANGED <<height, time>> /\ status' # "none"
    BY <1>7 DEF Update, blockVars
  <2> QED BY <1>1, <2>1, ProposedServes
<1>8. ASSUME NEW new \in {"active", "paused", "archived"}, UpdateStatus(new)
      PROVE  IInv' /\ [Order!Next]_(Order!vars)
  <2>1. /\ UNCHANGED <<height, time, config>> /\ status' # "none"
        /\ status # "none"
    BY <1>8 DEF UpdateStatus, blockVars, configVars
  <2>2. CASE new = "active"
    <3>1. Process(schedule, runs, ranAt, triggers, funds)
      BY <1>8, <2>2 DEF UpdateStatus
    <3> QED BY <1>1, <1>3, <2>1, <3>1, StoredServes
  <2>3. CASE new # "active"
    BY <1>1, <1>2, <1>8, <2>1, <2>3 DEF UpdateStatus, strategyVars
  <2> QED BY <2>2, <2>3
<1>9. CASE Execute
  <2>1. /\ Process(schedule, runs, ranAt, triggers, funds)
        /\ UNCHANGED <<height, time, config>>
        /\ status # "none" /\ status' # "none"
    BY <1>9 DEF Execute, blockVars, configVars
  <2> QED BY <1>1, <1>3, <2>1, StoredServes
<1>10. ASSUME NEW id \in DOMAIN triggers, Fire(id)
       PROVE  IInv' /\ [Order!Next]_(Order!vars)
  <2>1. UNCHANGED <<height, time, config, status>>
    BY <1>10 DEF Fire, blockVars, configVars
  <2>2. CASE status = "active" /\ ~Aborts(schedule)
    <3>1. Process(schedule, runs, ranAt, Without(id), funds)
      BY <1>10, <2>2 DEF Fire
    <3> QED BY <1>1, <1>3, <2>1, <2>2, <3>1, StoredServes
  <2>3. CASE ~(status = "active" /\ ~Aborts(schedule))
    BY <1>1, <1>2, <1>10, <2>1, <2>3 DEF Fire, strategyVars
  <2> QED BY <2>2, <2>3
<1>11. CASE UNCHANGED vars
  BY <1>1, <1>2, <1>11 DEF vars
<1> QED BY <1>4, <1>5, <1>6, <1>7, <1>8, <1>9, <1>10, <1>11 DEF Next, FireAny

\* Scheduled actions keep the promise of a standing order: every boundary
\* served in order, none before it has come, at most once if the interval is
\* not zero, and no more of them than the maximum, whoever executes the
\* strategy and however often; a maximum of zero, which runs at every call
\* once its boundary has come, included (crank and is_due in cadence.rs,
\* can_execute and commit in schedule.rs).
THEOREM Implements == Spec => ServesInOrder
<1>1. IInv /\ [Next]_vars => IInv' /\ [Order!Next]_(Order!vars)
  BY OrderStep
<1> QED BY <1>1, OrderInit, PTL DEF Spec, ServesInOrder, Order!Spec

-----------------------------------------------------------------------------
(* The trigger that is pending *)

\* A schedule that may create triggers waits for its next boundary, or for
\* nothing any more.
Waiting(s, book, e) ==
  \/ /\ s.cadence.previous # NONE
     /\ \E id \in DOMAIN book : book[id].condition = IntoCondition(s.cadence, e)
  \/ IsDue(s.cadence, e) /\ CrankAborts(s.cadence, e)

PInv ==
  /\ TypeOK
  /\ status = "active" /\ Creates(schedule) => Waiting(schedule, triggers, env)

\* An execution leaves the trigger of the boundary it saves.
LEMMA ProcessWaits ==
  ASSUME TypeOK, NEW s \in ScheduleRecords, s.next = NONE,
         NEW n, NEW at, NEW book, NEW balance,
         Process(s, n, at, book, balance), Creates(schedule')
  PROVE  Waiting(schedule', triggers', env)
<1> DEFINE new == Commit(Executed(s))
<1>1. /\ ~Aborts(s) /\ schedule' = new
      /\ triggers' = Book(s, Awaited(s), book, balance)
  BY DEF Process
<1>2. /\ s.cadence \in Cadences /\ env \in Blocks
      /\ s.max \in Nat \cup {NONE} /\ Executions(s) \in Nat
  BY EnvTyped DEF ScheduleRecords, Executions
<1>3. ASSUME Creates(s), Awaited(s) = IntoCondition(new.cadence, env),
             new.cadence.previous # NONE
      PROVE  Waiting(new, triggers', env)
  <2> DEFINE id == TriggerId(Awaited(s))
  <2>1. id \in DOMAIN triggers' /\ triggers'[id].condition = Awaited(s)
    BY <1>1, <1>3 DEF Book
  <2> HIDE DEF id, new
  <2> QED BY <1>3, <2>1 DEF Waiting
<1>4. CASE WithinMaximum(s) /\ IsDue(s.cadence, env)
  <2>1. /\ new.cadence = Crank(s.cadence, env)
        /\ ~CrankAborts(s.cadence, env)
        /\ new.executors = s.executors
    BY <1>1, <1>4, Committed
  <2> HIDE DEF new
  <2>2. new.cadence.previous \in Nat
    BY <1>2, <2>1, CrankTyped
  <2>3. Awaited(s) = IntoCondition(new.cadence, env)
    BY <1>4, <2>1 DEF Awaited
  <2>4. Creates(s)
    BY <1>1, <1>4, <2>1 DEF Creates
  <2> QED BY <1>1, <1>3, <2>2, <2>3, <2>4, CadenceAssumption DEF new
<1>5. CASE ~(WithinMaximum(s) /\ IsDue(s.cadence, env))
  <2>1. new = s
    BY <1>1, <1>5, Committed
  <2>2. Creates(s) /\ ~IsDue(s.cadence, env)
    BY <1>1, <1>5, <2>1 DEF Creates
  <2>3. s.cadence.previous # NONE
    BY <2>2 DEF IsDue
  <2>4. Awaited(s) = IntoCondition(s.cadence, env)
    BY <2>2 DEF Awaited
  <2> QED BY <1>1, <1>3, <2>1, <2>2, <2>3, <2>4
<1> QED BY <1>4, <1>5

LEMMA PendingStep == PInv /\ [Next]_vars => PInv'
<1> SUFFICES ASSUME PInv, [Next]_vars PROVE PInv'
  OBVIOUS
<1>1. TypeOK /\ TypeOK'
  BY TypeStep DEF PInv
<1> SUFFICES ASSUME status' = "active", Creates(schedule')
             PROVE  Waiting(schedule', triggers', env')
  BY <1>1 DEF PInv
<1>2. ASSUME UNCHANGED <<height, time>> PROVE env' = env
  BY <1>2 DEF env
<1>3. ASSUME status # "none"
      PROVE  schedule \in ScheduleRecords /\ schedule.next = NONE
  BY <1>1, <1>3 DEF TypeOK
<1>4. ASSUME UNCHANGED <<schedule, triggers, status, height, time>>
      PROVE  Waiting(schedule', triggers', env')
  <2>1. Waiting(schedule, triggers, env)
    BY <1>4 DEF PInv
  <2> QED BY <1>2, <1>4, <2>1
<1>5. CASE NextBlock
  <2>1. /\ UNCHANGED <<schedule, triggers, status>>
        /\ height' = height + 1 /\ time' >= time
    BY <1>1, <1>5, EnvTyped, CadenceAssumption DEF NextBlock, strategyVars
  <2>2. schedule \in ScheduleRecords /\ schedule.cadence \in Cadences
    BY <1>1, <2>1 DEF TypeOK, ScheduleRecords
  <2>3. /\ env \in Blocks /\ env' \in Blocks
        /\ env.height <= env'.height /\ env.time <= env'.time
    <3>1. height' \in Nat /\ time' \in Nat /\ height \in Nat /\ time \in Nat
      BY <1>1, AutomationAssumption DEF TypeOK
    <3> QED BY <2>1, <3>1 DEF env, Blocks
  <2>4. Waiting(schedule, triggers, env)
    BY <2>1 DEF PInv
  <2>5. CASE IsDue(schedule.cadence, env) /\ CrankAborts(schedule.cadence, env)
    <3>1. IsDue(schedule.cadence, env') /\ CrankAborts(schedule.cadence, env')
      BY <2>2, <2>3, <2>5, StuckForEver
    <3> QED BY <2>1, <3>1 DEF Waiting
  <2>6. CASE ~(IsDue(schedule.cadence, env) /\ CrankAborts(schedule.cadence, env))
    <3>1. /\ schedule.cadence.previous # NONE
          /\ \E id \in DOMAIN triggers :
               triggers[id].condition = IntoCondition(schedule.cadence, env)
      BY <2>4, <2>6 DEF Waiting
    <3>2. IntoCondition(schedule.cadence, env)
            = IntoCondition(schedule.cadence, env')
      BY <3>1, ConditionStays
    <3> QED BY <2>1, <3>1, <3>2 DEF Waiting
  <2> QED BY <2>5, <2>6
<1>6. CASE Transfer
  BY <1>4, <1>6 DEF Transfer, strategyVars, blockVars
<1>7. ASSUME NEW s \in Schedules, Instantiate(s)
      PROVE  Waiting(schedule', triggers', env')
  <2>1. PICK sent \in 0 .. MaxFunds : Process(s, 0, NONE, triggers, sent)
    BY <1>7 DEF Instantiate
  <2>2. UNCHANGED <<height, time>>
    BY <1>7 DEF Instantiate, blockVars
  <2> QED BY <1>1, <1>2, <2>1, <2>2, ProcessWaits, AutomationAssumption
<1>8. ASSUME NEW s \in Schedules, Update(s)
      PROVE  Waiting(schedule', triggers', env')
  <2>1. Process(s, 0, NONE, triggers, funds) /\ UNCHANGED <<height, time>>
    BY <1>8 DEF Update, blockVars
  <2> QED BY <1>1, <1>2, <2>1, ProcessWaits, AutomationAssumption
<1>9. ASSUME NEW new \in {"active", "paused", "archived"}, UpdateStatus(new)
      PROVE  Waiting(schedule', triggers', env')
  <2>1. /\ Process(schedule, runs, ranAt, triggers, funds)
        /\ UNCHANGED <<height, time>> /\ status # "none"
    BY <1>9 DEF UpdateStatus, blockVars
  <2> QED BY <1>1, <1>2, <1>3, <2>1, ProcessWaits
<1>10. CASE Execute
  <2>1. /\ Process(schedule, runs, ranAt, triggers, funds)
        /\ UNCHANGED <<height, time>> /\ status # "none"
    BY <1>10 DEF Execute, blockVars
  <2> QED BY <1>1, <1>2, <1>3, <2>1, ProcessWaits
<1>11. ASSUME NEW id \in DOMAIN triggers, Fire(id)
       PROVE  Waiting(schedule', triggers', env')
  <2>1. status = "active" /\ UNCHANGED <<height, time>>
    BY <1>11 DEF Fire, blockVars
  <2>2. CASE Aborts(schedule)
    <3>1. schedule' = schedule
      BY <1>11, <2>2 DEF Fire, strategyVars
    <3> QED BY <1>2, <2>1, <2>2, <3>1 DEF Waiting, Aborts
  <2>3. CASE ~Aborts(schedule)
    <3>1. Process(schedule, runs, ranAt, Without(id), funds)
      BY <1>11, <2>1, <2>3 DEF Fire
    <3> QED BY <1>1, <1>2, <1>3, <2>1, <3>1, ProcessWaits
  <2> QED BY <2>2, <2>3
<1>12. CASE UNCHANGED vars
  BY <1>4, <1>12 DEF vars
<1> QED BY <1>5, <1>6, <1>7, <1>8, <1>9, <1>10, <1>11, <1>12 DEF Next, FireAny

\* A strategy that is active, and whose schedule can go on, always has the
\* trigger that will execute it again: none of the triggers that fire in vain,
\* are replaced, or lie about from an earlier schedule takes it away
\* (execute_unsafe in schedule.rs, create and execute in the scheduler).
THEOREM AlwaysPending == Spec => []PendingWhileActive
<1>1. Init => PInv
  BY TypeInit DEF Init, PInv
<1>2. PInv => PendingWhileActive
  BY DEF PInv, PendingWhileActive, GoesOn, Creates, Waiting
<1> QED BY <1>1, <1>2, PendingStep, PTL DEF Spec


-----------------------------------------------------------------------------
(* The triggers ahead *)

\* That of a trigger's condition which says whether it has come is in its id.
ComesLater(id) ==
  IF id[1] = "height" THEN id[2] > height ELSE id[2] > Seconds(time)

Later(book) == {id \in DOMAIN book : ComesLater(id)}

\* The trigger of the boundary a schedule waits for.
Own(s) ==
  IF s = NONE \/ s.cadence.previous = NONE THEN {}
  ELSE {TriggerId(IntoCondition(s.cadence, env))}

\* All the triggers ahead but that one are left over from earlier configurations.
LeftOver == Later(triggers) \ Own(schedule)

PileInv ==
  /\ TypeOK
  /\ IsFiniteSet(DOMAIN triggers)
  /\ Cardinality(LeftOver) <= updates
  /\ status = "none" => DOMAIN triggers = {}

LEMMA IdComesLater ==
  ASSUME TypeOK, NEW id \in DOMAIN triggers
  PROVE  id \in Ahead <=> ComesLater(id)
<1>1. triggers[id] \in Trigger /\ id = TriggerId(triggers[id].condition)
  BY DEF TypeOK
<1>2. triggers[id].condition.kind \in {"height", "timestamp"}
  BY <1>1 DEF Trigger
<1>3. /\ id[1] = triggers[id].condition.kind
      /\ id[2] = IF triggers[id].condition.kind = "timestamp"
                 THEN Seconds(triggers[id].condition.at)
                 ELSE triggers[id].condition.at
  BY <1>1 DEF TriggerId
<1> QED BY <1>2, <1>3 DEF Ahead, ComesLater

LEMMA AheadIsLater ==
  ASSUME TypeOK
  PROVE  Ahead = Later(triggers)
<1>1. \A id \in DOMAIN triggers : id \in Ahead <=> ComesLater(id)
  BY IdComesLater
<1> QED BY <1>1 DEF Ahead, Later

\* What a schedule that is due has waited for has come.
LEMMA DueHasCome ==
  ASSUME TypeOK, NEW s \in ScheduleRecords, s.cadence.previous # NONE,
         IsDue(s.cadence, env)
  PROVE  ~ComesLater(TriggerId(IntoCondition(s.cadence, env)))
<1> DEFINE c == s.cadence
           condition == IntoCondition(c, env)
           id == TriggerId(condition)
<1>1. /\ c \in Cadences /\ env \in Blocks /\ env.height = height /\ env.time = time
      /\ height \in Nat /\ time \in Nat /\ height < MaxU64
  BY EnvTyped DEF ScheduleRecords
<1>2. /\ c.kind \in {"blocks", "time", "cron"} /\ c.interval \in Nat
      /\ c.previous \in Nat /\ c.previous # NONE
  BY <1>1 DEF Cadences
<1>3. CASE c.kind = "blocks"
  <2>1. condition = BlocksCompleted(c.previous + c.interval)
    BY <1>2, <1>3 DEF IntoCondition
  <2>2. id = <<"height", c.previous + c.interval>>
    BY <2>1 DEF TriggerId, BlocksCompleted
  <2>3. height >= c.previous + c.interval
    BY <1>1, <1>2, <1>3 DEF IsDue
  <2>4. id[1] = "height" /\ id[2] = c.previous + c.interval
    BY <2>2
  <2> HIDE DEF id
  <2> QED BY <1>1, <1>2, <2>3, <2>4 DEF ComesLater, id
<1>4. CASE c.kind = "time"
  <2> DEFINE at == c.previous + Nanos(c.interval)
  <2>1. condition = TimestampElapsed(at)
    BY <1>2, <1>4 DEF IntoCondition
  <2>2. Seconds(at) = Seconds(c.previous) + c.interval
    BY <1>2, SecondsPlus
  <2> HIDE DEF at
  <2>3. id = <<"timestamp", Seconds(at)>>
    BY <2>1 DEF TriggerId, TimestampElapsed
  <2>4. Seconds(time) >= Seconds(c.previous) + c.interval
    BY <1>1, <1>2, <1>4 DEF IsDue
  <2>5. id[1] = "timestamp" /\ id[2] = Seconds(at)
    BY <2>3
  <2>6. Seconds(time) \in Nat /\ Seconds(c.previous) \in Nat
    BY <1>1, <1>2, SecondsBound
  <2> HIDE DEF id
  <2> QED BY <1>2, <2>2, <2>4, <2>5, <2>6 DEF ComesLater, id
<1>5. CASE c.kind = "cron"
  <2> DEFINE next == After(c.previous)
  <2>1. IsSatisfied(condition, env)
    BY <1>2, <1>5 DEF IsDue
  <2>2. condition = IF next = NONE THEN BlocksCompleted(MaxU64)
                                   ELSE TimestampElapsed(next)
    BY <1>2, <1>5 DEF IntoCondition
  <2>3. next # NONE
    BY <1>1, <2>1, <2>2, CadenceAssumption DEF IsSatisfied, BlocksCompleted
  <2>4. next \in Nat
    BY <1>2, <2>3, AfterInSeconds
  <2> HIDE DEF next
  <2>5. condition = TimestampElapsed(next)
    BY <2>2, <2>3
  <2>6. time >= next
    BY <1>1, <2>1, <2>5 DEF IsSatisfied, TimestampElapsed
  <2>7. Seconds(next) <= Seconds(time) /\ Seconds(next) \in Nat /\ Seconds(time) \in Nat
    BY <1>1, <2>4, <2>6, SecondsMonotone, SecondsBound
  <2>8. id = <<"timestamp", Seconds(next)>>
    BY <2>5 DEF TriggerId, TimestampElapsed
  <2>9. id[1] = "timestamp" /\ id[2] = Seconds(next)
    BY <2>8
  <2> HIDE DEF id
  <2> QED BY <2>7, <2>9 DEF ComesLater, id
<1> QED BY <1>2, <1>3, <1>4, <1>5

\* An execution leaves no more over than there was of the triggers that are not
\* its schedule's own.
LEMMA ProcessLeaves ==
  ASSUME TypeOK, NEW s \in ScheduleRecords, s.next = NONE,
         NEW n, NEW at, NEW book, NEW balance,
         Process(s, n, at, book, balance), schedule' \in ScheduleRecords,
         UNCHANGED <<height, time>>, IsFiniteSet(DOMAIN book)
  PROVE  /\ LeftOver' \subseteq Later(book) \ Own(s)
         /\ IsFiniteSet(DOMAIN triggers')
<1> DEFINE new == Commit(Executed(s))
           id == TriggerId(Awaited(s))
<1>1. /\ ~Aborts(s) /\ schedule' = new
      /\ triggers' = Book(s, Awaited(s), book, balance)
  BY DEF Process
<1>2. /\ s.cadence \in Cadences /\ env \in Blocks
      /\ s # NONE /\ new # NONE
  BY <1>1, EnvTyped, AutomationAssumption DEF ScheduleRecords
<1>3. env' = env /\ \A i : ComesLater(i)' <=> ComesLater(i)
  BY DEF env, ComesLater
<1>4. Own(schedule)' = Own(new)
  BY <1>1, <1>3 DEF Own
<1>5. Later(triggers)' = Later(triggers')
  BY <1>3 DEF Later
<1>6. /\ Creates(s) => DOMAIN triggers' = DOMAIN book \cup {id}
      /\ ~Creates(s) => DOMAIN triggers' = DOMAIN book
  BY <1>1 DEF Book
<1>7. IsFiniteSet(DOMAIN triggers')
  BY <1>6, FS_AddElement
<1>8. LeftOver' = Later(triggers') \ Own(new)
  BY <1>4, <1>5 DEF LeftOver
<1> HIDE DEF new
<1>9. ASSUME NEW i \in Later(triggers'), i \notin Own(new)
      PROVE  i \in Later(book) \ Own(s)
  <2>1. ComesLater(i) /\ i \in DOMAIN triggers'
    BY <1>9 DEF Later
  <2>2. CASE WithinMaximum(s) /\ IsDue(s.cadence, env)
    <3>1. /\ new.cadence = Crank(s.cadence, env)
          /\ ~CrankAborts(s.cadence, env)
      BY <1>1, <2>2, Committed DEF new
    <3>2. new.cadence.previous # NONE
      BY <1>2, <3>1, CrankTyped, CadenceAssumption
    <3>3. Awaited(s) = IntoCondition(new.cadence, env)
      BY <2>2, <3>1 DEF Awaited
    <3>4. Own(new) = {id}
      BY <1>2, <3>2, <3>3 DEF Own
    <3>5. i \in DOMAIN book
      BY <1>6, <1>9, <2>1, <3>4
    <3>6. i \notin Own(s)
      BY <2>1, <2>2, DueHasCome DEF Own
    <3> QED BY <2>1, <3>5, <3>6 DEF Later
  <2>3. CASE ~(WithinMaximum(s) /\ IsDue(s.cadence, env))
    <3>1. new = s
      BY <1>1, <2>3, Committed DEF new
    <3>2. CASE Creates(s)
      <4>1. ~IsDue(s.cadence, env)
        BY <2>3, <3>2 DEF Creates
      <4>2. s.cadence.previous # NONE
        BY <4>1 DEF IsDue
      <4>3. Awaited(s) = IntoCondition(s.cadence, env)
        BY <4>1 DEF Awaited
      <4>4. Own(new) = {id}
        BY <1>2, <3>1, <4>2, <4>3 DEF Own
      <4> QED BY <1>6, <1>9, <2>1, <3>1, <4>4 DEF Later
    <3>3. CASE ~Creates(s)
      BY <1>6, <1>9, <2>1, <3>1, <3>3 DEF Later
    <3> QED BY <3>2, <3>3
  <2> QED BY <2>2, <2>3
<1> QED BY <1>7, <1>8, <1>9


LEMMA PileInit == Init => PileInv
<1> SUFFICES ASSUME Init PROVE PileInv
  OBVIOUS
<1>1. TypeOK
  BY TypeInit
<1>2. DOMAIN triggers = {} /\ updates = 0
  BY DEF Init, NoTriggers
<1>3. LeftOver = {}
  BY <1>2 DEF LeftOver, Later
<1> QED BY <1>1, <1>2, <1>3, FS_EmptySet DEF PileInv

\* Fewer triggers are left over, of no fewer configurations.
LEMMA PileShrinks ==
  ASSUME PileInv, LeftOver' \subseteq LeftOver, updates' = updates
  PROVE  Cardinality(LeftOver') <= updates'
<1>1. IsFiniteSet(LeftOver) /\ Cardinality(LeftOver) <= updates
  <2>1. LeftOver \subseteq DOMAIN triggers
    BY DEF LeftOver, Later
  <2> QED BY <2>1, FS_Subset DEF PileInv
<1>2. IsFiniteSet(LeftOver') /\ Cardinality(LeftOver') <= Cardinality(LeftOver)
  BY <1>1, FS_Subset
<1> DEFINE k == Cardinality(LeftOver)
           l == Cardinality(LeftOver')
<1>3. k \in Nat /\ l \in Nat /\ updates \in Nat
  BY <1>1, <1>2, FS_CardinalityType, AutomationAssumption DEF PileInv, TypeOK
<1>4. k <= updates /\ l <= k
  BY <1>1, <1>2
<1> HIDE DEF k, l
<1>5. l <= updates'
  BY <1>3, <1>4
<1> QED BY <1>5 DEF l

\* Executing the schedule that is stored adds none that is left over.
LEMMA StoredKeepsPile ==
  ASSUME PileInv, TypeOK', schedule # NONE, NEW book,
         DOMAIN book \subseteq DOMAIN triggers,
         Process(schedule, runs, ranAt, book, funds),
         UNCHANGED <<height, time, updates>>, status' # "none"
  PROVE  PileInv'
<1>1. schedule \in ScheduleRecords /\ schedule.next = NONE /\ TypeOK
  BY DEF PileInv, TypeOK
<1>2. schedule' \in ScheduleRecords
  BY DEF TypeOK
<1>3. IsFiniteSet(DOMAIN book)
  BY FS_Subset DEF PileInv
<1>4. /\ LeftOver' \subseteq Later(book) \ Own(schedule)
      /\ IsFiniteSet(DOMAIN triggers')
  BY <1>1, <1>2, <1>3, ProcessLeaves
<1>5. LeftOver' \subseteq LeftOver
  BY <1>4 DEF LeftOver, Later
<1> QED BY <1>4, <1>5, PileShrinks DEF PileInv

\* With the schedule's own trigger it is one more at most.
LEMMA OneMore ==
  ASSUME PileInv, NEW S, S \subseteq LeftOver \cup Own(schedule)
  PROVE  Cardinality(S) <= 1 + updates
<1>1. LeftOver \subseteq DOMAIN triggers
  BY DEF LeftOver, Later
<1>2. IsFiniteSet(LeftOver) /\ Cardinality(LeftOver) <= updates
  BY <1>1, FS_Subset DEF PileInv
<1>3. PICK id : Own(schedule) \subseteq {id}
  BY DEF Own
<1>4. /\ IsFiniteSet(LeftOver \cup {id})
      /\ Cardinality(LeftOver \cup {id}) =
           IF id \in LeftOver THEN Cardinality(LeftOver)
                              ELSE Cardinality(LeftOver) + 1
  BY <1>2, FS_AddElement
<1> DEFINE k == Cardinality(LeftOver)
           u == Cardinality(LeftOver \cup {id})
           l == Cardinality(S)
<1>5. l <= u /\ IsFiniteSet(S)
  BY <1>3, <1>4, FS_Subset
<1>6. k \in Nat /\ u \in Nat /\ l \in Nat /\ updates \in Nat
  BY <1>2, <1>4, <1>5, FS_CardinalityType, AutomationAssumption DEF PileInv, TypeOK
<1>7. u <= k + 1 /\ k <= updates
  BY <1>2, <1>4, <1>6
<1> HIDE DEF k, u, l
<1>8. l <= 1 + updates
  BY <1>5, <1>6, <1>7
<1> QED BY <1>8 DEF l

LEMMA PileStep == PileInv /\ [Next]_vars => PileInv'
<1> SUFFICES ASSUME PileInv, [Next]_vars PROVE PileInv'
  OBVIOUS
<1>1. TypeOK /\ TypeOK' /\ IsFiniteSet(DOMAIN triggers)
  BY TypeStep DEF PileInv
<1>2. ASSUME status # "none" PROVE schedule # NONE
  BY <1>1, <1>2 DEF TypeOK
<1>3. ASSUME UNCHANGED <<height, time>>
      PROVE  env' = env /\ \A i : ComesLater(i)' <=> ComesLater(i)
  BY <1>3 DEF env, ComesLater
<1>4. ASSUME UNCHANGED <<schedule, height, time, updates>>,
             status' = "none" => status = "none",
             DOMAIN triggers' \subseteq DOMAIN triggers
      PROVE  PileInv'
  <2>1. Own(schedule)' = Own(schedule)
    BY <1>3, <1>4 DEF Own
  <2>2. LeftOver' \subseteq LeftOver
    BY <1>3, <1>4, <2>1 DEF LeftOver, Later
  <2>3. IsFiniteSet(DOMAIN triggers')
    BY <1>1, <1>4, FS_Subset
  <2>4. status' = "none" => DOMAIN triggers' = {}
    BY <1>4 DEF PileInv
  <2> QED BY <1>1, <1>4, <2>2, <2>3, <2>4, PileShrinks DEF PileInv
<1>5. CASE NextBlock
  <2>1. /\ UNCHANGED <<schedule, triggers, status, updates>>
        /\ height' = height + 1 /\ time' >= time
        /\ height \in Nat /\ time \in Nat /\ time' \in Nat
    BY <1>1, <1>5, EnvTyped, CadenceAssumption
       DEF NextBlock, strategyVars, configVars
  <2>2. Seconds(time) <= Seconds(time') /\ Seconds(time) \in Nat /\ Seconds(time') \in Nat
    BY <2>1, SecondsMonotone, SecondsBound
  <2>3. ASSUME NEW i \in DOMAIN triggers, ComesLater(i)' PROVE ComesLater(i)
    <3>1. i[2] \in Nat
      <4>1. triggers[i] \in Trigger /\ i = TriggerId(triggers[i].condition)
        BY <1>1 DEF TypeOK
      <4>2. triggers[i].condition.at \in Nat
        BY <4>1 DEF Trigger
      <4>3. Seconds(triggers[i].condition.at) \in Nat
        BY <4>2, SecondsBound
      <4>4. i[2] = IF triggers[i].condition.kind = "timestamp"
                   THEN Seconds(triggers[i].condition.at)
                   ELSE triggers[i].condition.at
        BY <4>1 DEF TriggerId
      <4> QED BY <4>2, <4>3, <4>4
    <3> QED BY <2>1, <2>2, <2>3, <3>1 DEF ComesLater
  <2>4. Own(schedule)' = Own(schedule)
    <3>1. CASE schedule = NONE \/ schedule.cadence.previous = NONE
      BY <2>1, <3>1 DEF Own
    <3>2. CASE schedule # NONE /\ schedule.cadence.previous # NONE
      <4>1. IntoCondition(schedule.cadence, env')
              = IntoCondition(schedule.cadence, env)
        BY <3>2, ConditionStays
      <4> QED BY <2>1, <4>1 DEF Own
    <3> QED BY <3>1, <3>2
  <2>5. LeftOver' \subseteq LeftOver
    BY <2>1, <2>3, <2>4 DEF LeftOver, Later
  <2> QED BY <1>1, <2>1, <2>5, PileShrinks DEF PileInv
<1>6. CASE Transfer
  BY <1>4, <1>6 DEF Transfer, strategyVars, configVars, blockVars
<1>7. ASSUME NEW s \in Schedules, Instantiate(s) PROVE PileInv'
  <2>1. PICK sent \in 0 .. MaxFunds : Process(s, 0, NONE, triggers, sent)
    BY <1>7 DEF Instantiate
  <2>2. /\ status = "none" /\ status' = "active"
        /\ UNCHANGED <<height, time, updates>> /\ DOMAIN triggers = {}
    BY <1>7 DEF Instantiate, blockVars, PileInv
  <2>3. /\ s \in ScheduleRecords /\ s.next = NONE /\ schedule' \in ScheduleRecords
    BY <1>1, <2>2, AutomationAssumption DEF TypeOK
  <2>4. /\ LeftOver' \subseteq Later(triggers) \ Own(s)
        /\ IsFiniteSet(DOMAIN triggers')
    BY <1>1, <2>1, <2>2, <2>3, ProcessLeaves
  <2>5. LeftOver' \subseteq LeftOver
    BY <2>2, <2>4 DEF Later
  <2> QED BY <1>1, <2>2, <2>4, <2>5, PileShrinks DEF PileInv
<1>8. ASSUME NEW s \in Schedules, Update(s) PROVE PileInv'
  <2>1. /\ Process(s, 0, NONE, triggers, funds) /\ status' # "none"
        /\ UNCHANGED <<height, time>> /\ updates' = updates + 1
    BY <1>8 DEF Update, blockVars
  <2>2. s \in ScheduleRecords /\ s.next = NONE /\ schedule' \in ScheduleRecords
    BY <1>1, <2>1, AutomationAssumption DEF TypeOK
  <2>3. /\ LeftOver' \subseteq Later(triggers) \ Own(s)
        /\ IsFiniteSet(DOMAIN triggers')
    BY <1>1, <2>1, <2>2, ProcessLeaves
  <2>4. LeftOver' \subseteq LeftOver \cup Own(schedule)
    BY <2>3 DEF LeftOver
  <2>5. Cardinality(LeftOver') <= updates'
    <3>1. Cardinality(LeftOver') <= 1 + updates
      BY <2>4, OneMore
    <3>2. 1 + updates = updates'
      BY <1>1, <2>1, AutomationAssumption DEF TypeOK
    <3> QED BY <3>1, <3>2
  <2> QED BY <1>1, <2>1, <2>3, <2>5 DEF PileInv
<1>9. ASSUME NEW new \in {"active", "paused", "archived"}, UpdateStatus(new)
      PROVE  PileInv'
  <2>1. /\ UNCHANGED <<height, time, updates>> /\ status' # "none"
        /\ status # "none"
    BY <1>9 DEF UpdateStatus, blockVars, configVars
  <2>2. CASE new = "active"
    <3>1. Process(schedule, runs, ranAt, triggers, funds)
      BY <1>9, <2>2 DEF UpdateStatus
    <3> QED BY <1>1, <1>2, <2>1, <3>1, StoredKeepsPile
  <2>3. CASE new # "active"
    BY <1>4, <1>9, <2>1, <2>3 DEF UpdateStatus, strategyVars
  <2> QED BY <2>2, <2>3
<1>10. CASE Execute
  <2>1. /\ Process(schedule, runs, ranAt, triggers, funds)
        /\ UNCHANGED <<height, time, updates>>
        /\ status # "none" /\ status' # "none"
    BY <1>10 DEF Execute, blockVars, configVars
  <2> QED BY <1>1, <1>2, <2>1, StoredKeepsPile
<1>11. ASSUME NEW id \in DOMAIN triggers, Fire(id) PROVE PileInv'
  <2>1. UNCHANGED <<height, time, updates, status>>
    BY <1>11 DEF Fire, blockVars, configVars
  <2>2. DOMAIN Without(id) \subseteq DOMAIN triggers
    BY DEF Without
  <2>3. CASE status = "active" /\ ~Aborts(schedule)
    <3>1. Process(schedule, runs, ranAt, Without(id), funds)
      BY <1>11, <2>3 DEF Fire
    <3> QED BY <1>1, <1>2, <2>1, <2>2, <2>3, <3>1, StoredKeepsPile
  <2>4. CASE ~(status = "active" /\ ~Aborts(schedule))
    BY <1>4, <1>11, <2>1, <2>2, <2>4 DEF Fire, strategyVars
  <2> QED BY <2>3, <2>4
<1>12. CASE UNCHANGED vars
  BY <1>4, <1>12 DEF vars
<1> QED BY <1>5, <1>6, <1>7, <1>8, <1>9, <1>10, <1>11, <1>12 DEF Next, FireAny

\* Triggers do not pile up: however often a strategy is executed before it is
\* due, and whatever it did with its balance, of those whose second has not come
\* one at most is there for each configuration it has had (execute_unsafe in
\* schedule.rs, the id of a trigger in the scheduler).
THEOREM NonePilesUp == Spec => []TriggersDoNotPileUp
<1>1. PileInv => TriggersDoNotPileUp
  <2> SUFFICES ASSUME PileInv PROVE Cardinality(Ahead) <= 1 + updates
    BY DEF TriggersDoNotPileUp
  <2>1. Ahead \subseteq LeftOver \cup Own(schedule)
    BY AheadIsLater DEF PileInv, LeftOver
  <2> QED BY <2>1, OneMore
<1> QED BY <1>1, PileInit, PileStep, PTL DEF Spec

=============================================================================
