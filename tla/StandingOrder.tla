----------------------------- MODULE StandingOrder -----------------------------
(***************************************************************************)
(* What an owner who schedules an action is promised: the boundaries of    *)
(* the plan are served in order, each at most once and none before it is   *)
(* reached, and never more often than the plan's maximum.  Boundaries may  *)
(* be passed over.  Nothing is said of how the action comes to be run.     *)
(*                                                                         *)
(* Two plans are promised less.  The boundaries of an interval of zero are *)
(* one boundary, which may be served any number of times.  And a plan that *)
(* is not counted has no maximum and moves to no next boundary: once one   *)
(* is reached, it may be served without end.                               *)
(***************************************************************************)
EXTENDS Integers

CONSTANTS
  NONE,
  Occurrences,  \* the seconds at which the cron expression occurs
  Plans         \* [kind, interval, previous, max, counted]: max is the runs
                \* allowed, if they are counted

VARIABLES
  plan,    \* the plan in force, NONE before the first
  anchor,  \* the last boundary served, in blocks or in seconds
  count,   \* the runs of this plan
  height,
  time     \* in seconds

vars == <<plan, anchor, count, height, time>>

Now(p) == IF p.kind = "blocks" THEN height ELSE time

\* b is a boundary that has been reached, after a (or a, if all are the same).
Follows(p, a, b) ==
  /\ b <= Now(p)
  /\ \/ a = NONE /\ b = Now(p)
     \/ /\ a # NONE
        /\ p.kind = "cron"
        /\ b = Now(p)
        /\ \E o \in Occurrences : a < o /\ o <= b
     \/ /\ a # NONE
        /\ p.kind # "cron"
        /\ \E k \in 1 .. Now(p) + 1 : b = a + k * p.interval

Init ==
  /\ plan = NONE
  /\ anchor = NONE
  /\ count = 0
  /\ height = 0
  /\ time = 0

Serve(p, a, n) ==
  /\ p.counted /\ p.max # NONE => n < p.max
  /\ count' = n + 1
  /\ \E b \in 0 .. Now(p) :
       /\ Follows(p, a, b)
       /\ anchor' = IF p.counted THEN b ELSE a

Run ==
  /\ plan # NONE
  /\ Serve(plan, anchor, count)
  /\ UNCHANGED <<plan, height, time>>

\* A new plan counts anew, and may be served at once.
Configure ==
  /\ \E p \in Plans :
       /\ plan' = p
       /\ \/ anchor' = p.previous /\ count' = 0
          \/ Serve(p, p.previous, 0)
  /\ UNCHANGED <<height, time>>

Tick ==
  /\ height' > height
  /\ time' >= time
  /\ UNCHANGED <<plan, anchor, count>>

Next == Run \/ Configure \/ Tick

Spec == Init /\ [][Next]_vars

=============================================================================
