------------------------------- MODULE Batches ------------------------------
(* Batch jobs (biz.go): a strategy that decides on several pairs at once is   *)
(* called when the bars of a period are in. Each bar adds its job to the      *)
(* batch and postpones it. DelayBatchMS is two time units; Mode is "live",    *)
(* "warm" (live, from the warm-up of the history on) or "backtest".           *)
EXTENDS Naturals, FiniteSets
CONSTANTS
  Mode,
  Pairs, Tfs,  \* what the strategy trades; the time frames in time units
  Start, Stop, \* the time of the first tick, and the end of the last bars
  Lag,         \* how late a live bar may arrive
  MaxFail      \* batches for which there is no database connection
VARIABLES
  now, todo,   \* the clock; bars that have ended and not been handled
  handling,    \* bars inside FeedKline
  tasks,       \* strat.BatchTasks: when to execute, and the jobs
  timers,      \* when delayExecBatch runs again
  last,        \* strat.LastBatchMS
  fired, fails
vars == <<now, todo, handling, tasks, timers, last, fired, fails>>

Delay == 2
Bars(t) == {[pair |-> p, tf |-> k, end |-> t, warm |-> FALSE, since |-> 0] : p \in Pairs, k \in {x \in Tfs : t % x = 0}}
WarmBars == {[pair |-> p, tf |-> k, end |-> t, warm |-> TRUE, since |-> 0] : p \in Pairs, k \in Tfs, t \in 1 .. Start}
NoTask == [exec |-> 0, jobs |-> {}]
Max2(a, b) == IF a > b THEN a ELSE b

Init ==
  /\ now = Start /\ handling = {} /\ timers = {} /\ fired = {} /\ last = 0 /\ fails = 0
  /\ tasks = [k \in Tfs |-> NoTask]
  /\ todo = IF Mode = "warm" THEN {b \in WarmBars : b.end % b.tf = 0} ELSE {}

\* Batches whose time is less than half a period away are waited for.
Waits(t) == {k \in Tfs : tasks[k].jobs # {} /\ t < tasks[k].exec /\ 2 * (tasks[k].exec - t) < k}
Ripe(t) == {k \in Tfs : tasks[k].jobs # {} /\ t >= tasks[k].exec}
WaitsForNone(t) == {}
Waiting(t) == Waits(t)
\* The batches to execute are taken from the map, then their callbacks run.
TryFireBatches(keys, warm) ==
  fired' = fired \cup {[tf |-> k, jobs |-> tasks[k].jobs, at |-> now, warm |-> warm] : k \in keys}
Left(keys) == [k \in Tfs |-> IF k \in keys THEN NoTask ELSE tasks[k]]
Postponed(k) == now + Delay
FirstTime(k) == IF tasks[k].jobs = {} THEN now + Delay ELSE tasks[k].exec
PeriodLater(k) == now + k
ExecMS(k) == Postponed(k)
\* A job takes the place of the one of its pair.
Added(ts, b) ==
  [ts EXCEPT ![b.tf] = [exec |-> ExecMS(b.tf),
                        jobs |-> {j \in @.jobs : j.pair # b.pair}
                                   \cup {[pair |-> b.pair, end |-> b.end, warm |-> b.warm, added |-> now]}]]

\* A bar that is late by half its period opens no orders, and is in no batch.
BarExpired(b) == ~b.warm /\ Mode # "backtest" /\ 2 * (now - b.end) >= b.tf
AddBatchJob(b) == tasks' = IF BarExpired(b) THEN tasks ELSE Added(tasks, b)

Least(S) == CHOOSE b \in S : \A c \in S : b.end <= c.end
(* A bar of the warm-up first executes the batches of earlier ends, then adds *)
(* its job; the clock is that of the wall (btime.TimeMS).                     *)
WarmNext(b) == b.end > last
WarmBar ==
  \E b \in todo :
    /\ b.warm /\ b.end = Least(todo).end /\ todo' = todo \ {b}
    /\ LET t == b.end + Delay + 1
           run == IF WarmNext(b) THEN Ripe(t) ELSE {} IN
       /\ TryFireBatches(run, TRUE) /\ tasks' = Added(Left(run), b)
       /\ last' = Max2(last, b.end)
    /\ UNCHANGED <<now, handling, timers, fails>>

\* A live bar starts a timer, and adds its job when the strategy has seen it, before that runs.
LiveBar ==
  \E b \in todo :
    /\ Mode # "backtest" /\ ~b.warm /\ todo' = todo \ {b}
    /\ timers' = timers \cup {now + Delay} /\ handling' = handling \cup {[b EXCEPT !.since = now]}
    /\ UNCHANGED <<now, tasks, last, fired, fails>>
FeedKline ==
  \E b \in handling :
    /\ handling' = handling \ {b} /\ AddBatchJob(b)
    /\ UNCHANGED <<now, todo, timers, last, fired, fails>>
\* Without a connection nothing is executed, and 0 batches wait.
DelayExecBatch ==
  \E t \in timers :
    /\ t <= now
    /\ \/ /\ TryFireBatches(Ripe(now), FALSE) /\ tasks' = Left(Ripe(now)) /\ UNCHANGED fails
          /\ timers' = (timers \ {t}) \cup (IF Waiting(now) = {} THEN {} ELSE {now + Delay})
       \/ /\ fails < MaxFail /\ fails' = fails + 1
          /\ timers' = timers \ {t} /\ UNCHANGED <<tasks, fired>>
    /\ UNCHANGED <<now, todo, handling, last>>

\* A back test executes what is due when the time of the bars goes on.
Later(t) == t > last
BackTestBar ==
  \E b \in todo :
    /\ Mode = "backtest" /\ todo' = todo \ {b}
    /\ LET run == IF Later(now) THEN Ripe(now) ELSE {} IN
       /\ TryFireBatches(run, FALSE) /\ tasks' = Added(Left(run), b)
       /\ last' = Max2(last, now)
    /\ UNCHANGED <<now, handling, timers, fails>>

Tick ==
  /\ now < Stop + Lag + 8
  /\ \A b \in todo : ~b.warm /\ Mode # "backtest" /\ now < b.end + Lag
  /\ \A b \in handling : now + 1 < b.since + Delay
  /\ \A t \in timers : t > now
  /\ now' = now + 1
  /\ todo' = todo \cup (IF now + 1 <= Stop THEN Bars(now + 1) ELSE {})
  /\ UNCHANGED <<handling, tasks, timers, last, fired, fails>>

Next == WarmBar \/ LiveBar \/ FeedKline \/ DelayExecBatch \/ BackTestBar \/ Tick
Spec == Init /\ [][Next]_vars /\ WF_vars(Next)
-----------------------------------------------------------------------------
TypeOK ==
  /\ \A k \in Tfs : tasks[k].jobs = {} \/ tasks[k].exec \in Start .. now + Delay
  /\ timers \subseteq Start .. now + Delay

(* A live batch is executed no sooner than the delay after the last of its    *)
(* jobs came (AddBatchJob).                                                   *)
WaitsForLast == \A f \in fired : ~f.warm /\ Mode # "backtest" => \A j \in f.jobs : f.at >= j.added + Delay

(* In a back test a batch has a job of every pair, all of one end, and runs   *)
(* before the next bar of any time frame is handled.                          *)
BatchWhole ==
  Mode = "backtest" =>
    \A f \in fired : /\ {j.pair : j \in f.jobs} = Pairs
                     /\ \A j \in f.jobs : f.at = j.end + (CHOOSE k \in Tfs : \A x \in Tfs : k <= x)

(* What is in a batch gets executed, with every timer gone by then            *)
(* (delayExecBatch).                                                          *)
EveryBatchFires == \A k \in Tfs : tasks[k].jobs # {} ~> (tasks[k].jobs = {} \/ Mode = "backtest")

(* Bars of the warm-up open no orders: their batches are executed before the  *)
(* next time frame is entered, or not at all.                                 *)
WarmStaysWarm == \A f \in fired : ~f.warm => \A j \in f.jobs : ~j.warm
=============================================================================
