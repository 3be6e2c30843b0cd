---- MODULE MCAutomation ----
(* Instances of Automation for TLC. *)
EXTENDS Automation

Every(kind, interval, previous) ==
  [kind : {kind}, interval : {interval}, previous : {previous}]

Of(cadences, rebate, executors, jitter, max) ==
  [cadence    : cadences,
   next       : {NONE},
   rebate     : {rebate},
   executors  : {executors},
   jitter     : {jitter},
   executions : {NONE},
   max        : {max}]

\* One schedule of each kind from now and from before, one that runs out, one
\* of no runs at all, one that stands still, one with more executors than a
\* trigger may have and one that is refused.
Intervals ==
  Of(Every("blocks", 2, NONE), 1, 0, FALSE, NONE)
    \cup Of(Every("blocks", 2, 0), 0, 0, FALSE, 2)
    \cup Of(Every("blocks", 0, NONE), 0, 0, FALSE, NONE)
    \cup Of(Every("blocks", 2, 1), 0, 0, FALSE, 0)
    \cup Of(Every("time", 2, 1), 0, 0, FALSE, NONE)
    \cup Of(Every("blocks", 2, 0), 0, 2, FALSE, NONE)
    \cup Of(Every("time", 2, NONE), 0, 0, TRUE, NONE)
    \cup Of(Every("cron", 0, NONE), 0, 0, FALSE, NONE)

CronOnly == Of(Every("cron", 0, NONE), 0, 0, FALSE, NONE)

Nights == {1, 2, 3, 4}
====
