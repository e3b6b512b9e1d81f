----------------------------- MODULE MCServices -----------------------------
(* The services around the trading core and the checks of every minute, each in a few settings; part says    *)
(* which, and the variables of the others do not change.                      *)
EXTENDS Naturals
VARIABLES
  data, wire, back, waits, hand, dead, chans, mine, op, res, polls, round, timeouts, taking, race,
  queue, open, wg, disable, num, con, msgArr, sent, clean, panic,
  now, todo, handling, tasks, timers, last, fired,
  row, seq, out, task, dirs, run, pend, found, twice, fresh, crashes, dels,
  od, late, trig, check, odQueue, exo, asked,
  stage, fails, part
lockOnly == <<data, wire, back, waits, hand, dead, chans, mine, op, res, polls, round, timeouts, taking, race>>
hookVars == <<queue, open, wg, disable, num, con, msgArr, sent, clean, panic>>
batchVars == <<now, todo, handling, tasks, timers, last, fired>>
taskVars == <<row, seq, out, task, dirs, run, pend, found, twice, fresh, crashes, dels>>
waitVars == <<od, late, trig, check, odQueue, exo, asked>>
lockV == <<lockOnly, stage>>
hookV == <<hookVars, stage, fails>>
batchV == <<batchVars, fails>>
taskV == <<taskVars, stage, fails>>
allVars == <<lockOnly, hookVars, batchVars, taskVars, waitVars, stage, fails, part>>

\* Two programs take the lock, without and with a call that times out; two goroutines of one program.
Lock == INSTANCE NetLock WITH Callers <- {"a", "b"}, OneConn <- FALSE, Rounds <- 1, Polls <- 2, MaxTimeouts <- 0
Slow == INSTANCE NetLock WITH Callers <- {"a", "b"}, OneConn <- FALSE, Rounds <- 1, Polls <- 2, MaxTimeouts <- 1
Shared == INSTANCE NetLock WITH Callers <- {"a", "b"}, OneConn <- TRUE, Rounds <- 1, Polls <- 1, MaxTimeouts <- 0
\* A channel whose attempts succeed, one that sends a batch or nothing, one that sends message by message.
Hook == INSTANCE WebHook WITH Senders <- {"a", "b"}, Sends <- 2, Cap <- 2, WholeBatch <- TRUE, MaxFails <- 0
Email == INSTANCE WebHook WITH Senders <- {"a", "b"}, Sends <- 2, Cap <- 2, WholeBatch <- TRUE, MaxFails <- 2
WeWork == INSTANCE WebHook WITH Senders <- {"a", "b"}, Sends <- 2, Cap <- 2, WholeBatch <- FALSE, MaxFails <- 2
\* Bars of two pairs live, with a warm-up and a failing connection, and in a back test with two periods.
Live == INSTANCE Batches WITH Mode <- "live", Pairs <- {"p", "q"}, Tfs <- {8}, Start <- 7, Stop <- 16, Lag <- 4, MaxFail <- 0
Warm == INSTANCE Batches WITH Mode <- "warm", Pairs <- {"p", "q"}, Tfs <- {8}, Start <- 18, Stop <- 24, Lag <- 2, MaxFail <- 1
BackTest == INSTANCE Batches WITH Mode <- "backtest", Pairs <- {"p", "q"}, Tfs <- {4, 8}, Start <- 3, Stop <- 16, Lag <- 0, MaxFail <- 0
\* Two tasks of one configuration with failing writes; the web program starts again.
WebTasks == INSTANCE BtTasks WITH Ids <- 1 .. 2, Hashes <- {<<"h">>}, MaxBtTasks <- 2, FindLimit <- 3, FailAt <- {"status"}, MaxFail <- 1, MaxCrash <- 0, MaxDel <- 1
Crash == INSTANCE BtTasks WITH Ids <- 1 .. 3, Hashes <- {<<"h">>}, MaxBtTasks <- 1, FindLimit <- 3, FailAt <- {"result"}, MaxFail <- 1, MaxCrash <- 1, MaxDel <- 1
\* Entries far from the price are put aside between the checks of the minutes, or while one runs.
Far == INSTANCE TriggerOds WITH queue <- odQueue, Orders <- {1, 2}, NoBook <- FALSE, Edits <- FALSE, Meanwhile <- FALSE, Again <- 2
Busy == INSTANCE TriggerOds WITH queue <- odQueue, Orders <- {1, 2}, NoBook <- FALSE, Edits <- FALSE, Meanwhile <- TRUE, Again <- 1

Idle(v) == v = [x \in {} |-> 0]
NoLock ==
  /\ Idle(data) /\ Idle(back) /\ Idle(waits) /\ Idle(hand) /\ Idle(chans) /\ Idle(mine) /\ Idle(op) /\ Idle(res)
  /\ Idle(polls) /\ Idle(round) /\ wire = {} /\ dead = {} /\ taking = {} /\ timeouts = 0 /\ race = FALSE
NoHook ==
  /\ Idle(queue) /\ Idle(num) /\ Idle(msgArr) /\ Idle(sent) /\ wg = 0
  /\ con = "none" /\ clean = "none" /\ open = FALSE /\ disable = FALSE /\ panic = FALSE
NoBatch == Idle(tasks) /\ now = 0 /\ last = 0 /\ todo = {} /\ handling = {} /\ timers = {} /\ fired = {}
NoTask ==
  /\ Idle(row) /\ Idle(out) /\ Idle(task) /\ Idle(dirs) /\ Idle(pend)
  /\ seq = 0 /\ found = 0 /\ crashes = 0 /\ dels = 0 /\ run = {} /\ twice = FALSE /\ fresh = FALSE
NoWait == Idle(od) /\ Idle(odQueue) /\ Idle(exo) /\ late = {} /\ trig = {} /\ check = Far!Idle /\ asked = 0

LockParts == {"lock", "late", "shared"}
HookParts == {"hook", "email", "wework"}
BatchParts == {"live", "warm", "backtest"}
TaskParts == {"tasks", "crash"}
WaitParts == {"far", "busy"}
AllInit ==
  /\ \/ part = "lock" /\ Lock!Init /\ fails = 0
     \/ part = "late" /\ Slow!Init /\ fails = 0
     \/ part = "shared" /\ Shared!Init /\ fails = 0
     \/ part = "hook" /\ Hook!Init
     \/ part = "email" /\ Email!Init
     \/ part = "wework" /\ WeWork!Init
     \/ part = "live" /\ Live!Init /\ Idle(stage)
     \/ part = "warm" /\ Warm!Init /\ Idle(stage)
     \/ part = "backtest" /\ BackTest!Init /\ Idle(stage)
     \/ part = "tasks" /\ WebTasks!Init
     \/ part = "crash" /\ Crash!Init
     \/ part = "far" /\ Far!Init /\ Idle(stage) /\ fails = 0
     \/ part = "busy" /\ Busy!Init /\ Idle(stage) /\ fails = 0
  /\ part \in LockParts \/ NoLock
  /\ part \in HookParts \/ NoHook
  /\ part \in BatchParts \/ NoBatch
  /\ part \in TaskParts \/ NoTask
  /\ part \in WaitParts \/ NoWait

LockNext ==
  /\ (part = "lock" /\ Lock!Next) \/ (part = "late" /\ Slow!Next) \/ (part = "shared" /\ Shared!Next)
  /\ UNCHANGED <<hookVars, batchVars, taskVars, waitVars, fails>>
HookNext ==
  /\ (part = "hook" /\ Hook!Next) \/ (part = "email" /\ Email!Next) \/ (part = "wework" /\ WeWork!Next)
  /\ UNCHANGED <<lockOnly, batchVars, taskVars, waitVars>>
BatchNext ==
  /\ (part = "live" /\ Live!Next) \/ (part = "warm" /\ Warm!Next) \/ (part = "backtest" /\ BackTest!Next)
  /\ UNCHANGED <<lockOnly, hookVars, taskVars, waitVars, stage>>
TaskNext ==
  /\ (part = "tasks" /\ WebTasks!Next) \/ (part = "crash" /\ Crash!Next)
  /\ UNCHANGED <<lockOnly, hookVars, batchVars, waitVars>>
WaitNext ==
  /\ (part = "far" /\ Far!Next) \/ (part = "busy" /\ Busy!Next)
  /\ UNCHANGED <<lockOnly, hookVars, batchVars, taskVars, stage, fails>>
AllNext == part' = part /\ (LockNext \/ HookNext \/ BatchNext \/ TaskNext \/ WaitNext)

LockGoesOn == (part = "lock" /\ Lock!GoesOn) \/ (part = "late" /\ Slow!GoesOn) \/ (part = "shared" /\ Shared!GoesOn)
HookGoesOn == part = "hook" /\ Hook!GoesOn
BatchGoesOn == part = "live" /\ Live!Next
TaskStarts == part = "tasks" /\ WebTasks!Scheduler
TaskGoesOn == part = "tasks" /\ WebTasks!GoesOn
TaskOutput == part = "tasks" /\ WebTasks!HandlesOutput
FarVerify == part = "far" /\ Far!Verify
FarStopPasses == part = "far" /\ \E o \in {1, 2} : Far!StopPasses(o)
Fairness ==
  /\ WF_lockV(LockGoesOn) /\ WF_hookV(HookGoesOn) /\ WF_batchV(BatchGoesOn)
  /\ WF_taskV(TaskStarts) /\ WF_taskV(TaskGoesOn) /\ WF_taskV(TaskOutput)
  /\ WF_waitVars(FarVerify) /\ WF_waitVars(FarStopPasses)
AllSpec == AllInit /\ [][AllNext]_allVars /\ Fairness
-----------------------------------------------------------------------------
(* Every call to the server ends, also for two goroutines of one program, of  *)
(* whom one takes the other's channel; and two programs that were not told at *)
(* once that the lock is free do not hold it at once, with the invariant that *)
(* NetLockProofs proves it from (GetNetLock, SetWait).                        *)
InCall(c) ==
  /\ part \in LockParts /\ stage[c] \in {"ask", "sent", "wait", "close"}
  /\ (IF part = "shared" THEN "conn" ELSE c) \notin dead
LockSound ==
  /\ [](/\ part = "lock" => Lock!IInv /\ Lock!Exclusive
        /\ part = "late" => Slow!IInv /\ Slow!Exclusive
        /\ part = "shared" => Shared!TypeOK)
  /\ \A c \in {"a", "b"} : InCall(c) ~> ~InCall(c)

(* The wait group counts what is queued or kept for another attempt, save for *)
(* the senders between putting their message and raising it; when no attempt  *)
(* fails CleanUp ends, with every message sent (SendMsg, doSend, CleanUp).    *)
HookSound ==
  /\ [](/\ part = "hook" => Hook!TypeOK /\ Hook!WgCounts
        /\ part = "email" => Email!TypeOK /\ Email!WgCounts
        /\ part = "wework" => WeWork!TypeOK /\ WeWork!WgCounts)
  /\ (part = "hook" /\ clean = "waiting") ~> (clean = "done" \/ panic)

(* A live batch is executed no sooner than the delay after the last of its    *)
(* jobs came, and gets executed; in a back test a batch has a job of every    *)
(* pair, all of one end, and runs before the next bar of any time frame       *)
(* (AddBatchJob, TryFireBatches).                                             *)
HasJobs == part = "live" /\ tasks[8].jobs # {}
BatchSound ==
  /\ [](/\ part = "live" => Live!TypeOK /\ Live!WaitsForLast
        /\ part = "warm" => Warm!TypeOK
        /\ part = "backtest" => BackTest!TypeOK /\ BackTest!BatchWhole)
  /\ HasJobs ~> ~HasJobs

(* A task of the web UI is never started while it runs, one that is done or   *)
(* failed is never set back to running, and after the collection at the start *)
(* a row has its directory and a directory with reports exactly one row; one  *)
(* that waits or runs gets a result, if the web program goes on and the       *)
(* result can be written (RunBtTaskScheduler, runBtCommand, executeBtTask,    *)
(* collectBtResults).                                                         *)
IsOpen(id) == part = "tasks" /\ row[id].st \in {"init", "running"}
TasksSound ==
  /\ [](/\ part = "tasks" => WebTasks!TypeOK /\ WebTasks!OneRun /\ WebTasks!RowsMatchDirs
        /\ part = "crash" => Crash!TypeOK /\ Crash!OneRun /\ Crash!RowsMatchDirs)
  /\ [][\A id \in DOMAIN row : row[id].st \in {"done", "fail"} => row'[id].st \in {row[id].st, "none"}]_allVars
  /\ \A id \in 1 .. 2 : IsOpen(id) ~> ~IsOpen(id)

(* The entry of an order that waited is at the exchange once, one that was    *)
(* not sent is waiting, looked at or in the queue, and an order that its      *)
(* StopAfter or an exit ended leaves nothing open there but an entry whose    *)
(* cancel failed; an entry that waits is submitted or ended                   *)
(* (VerifyTriggerOds, PutTriggers, execOrderExit).                            *)
Waits(o) == part = "far" /\ o \in trig
TriggerSound ==
  /\ [](/\ part = "far" => Far!OnceInv /\ Far!KeptInv /\ Far!EntersOnce /\ Far!EndedLeavesNone
        /\ part = "busy" => Busy!OnceInv /\ Busy!EntersOnce /\ Busy!EndedLeavesNone)
  /\ \A o \in {1, 2} : Waits(o) ~> ~Waits(o)
=============================================================================
