------------------------------- MODULE MCRules -------------------------------
(* The rules strategies and orders go by, each in a few settings; part says   *)
(* which, and the variables of the others do not change.                      *)
EXTENDS Integers, TLC
VARIABLES
  od, reqs, last, job, req,
  jobs, envs, pairStrats, ods, made, refreshes, left,
  at, glob, back, mode, first, groups, list, fed, end, opens, dones, relays, downs,
  part
exitVars == <<reqs, last>>
enterVars == <<job, req>>
jobVars == <<jobs, envs, pairStrats, ods, made, refreshes, left>>
relayVars == <<at, glob, back, mode, first, groups, list, fed, end, opens, dones, relays, downs>>
allVars == <<od, exitVars, enterVars, jobVars, relayVars, part>>

\* Exit requests over two orders of a strategy; one entry request and its order.
Exits == INSTANCE ExitOrders WITH Amounts <- <<2, 3>>, MaxOds <- 5, MaxReqs <- 2
Enters == INSTANCE EnterReqs WITH Price <- 200, Moves <- 9, Slip <- 0
\* Two strategies share two pairs, one may open after the rotation and one may not.
Rotation == [s |-> "open", t |-> "hold"]
Held == INSTANCE StratJobs WITH
  Accounts <- {"x"}, Pairs <- {"a", "b"}, Tfs <- {"m", "h"}, Policies <- <<"s", "t">>, MaxPair <- 1, AccMaxPair <- 0,
  OnRotation <- Rotation, HoldPosition <- TRUE, MaxOrders <- 2, MaxRefresh <- 3
Closed == INSTANCE StratJobs WITH
  Accounts <- {"x"}, Pairs <- {"a", "b"}, Tfs <- {"m", "h"}, Policies <- <<"s", "t">>, MaxPair <- 2, AccMaxPair <- 1,
  OnRotation <- Rotation, HoldPosition <- FALSE, MaxOrders <- 2, MaxRefresh <- 2
\* Strategies of three time frames in two groups, with restarts; one strategy whose refreshes go wrong.
Sig(s, p, i, o) == [pol |-> s, pair |-> p, in |-> i, out |-> o]
Quick == {Sig("s", "p", 2, 4), Sig("s", "q", 2, 7)}
Slow == {Sig("s", "p", 5, 8), Sig("u", "q", 3, 6), Sig("t", "p", 6, 12), Sig("t", "q", 0, 6)}
Calm == INSTANCE SimRelay WITH
  now <- at, phase <- mode, refreshes <- relays,
  Accounts <- {"x", "y"}, DefAcc <- "x", AccMaxPair <- [x |-> 1, y |-> 1], Pairs <- {"p", "q"},
  Policies <- {"s", "t", "u"}, Tf <- [s |-> 1, u |-> 3, t |-> 6], BarMax <- [s |-> 7, u |-> 1, t |-> 2], Signals <- Quick \cup Slow,
  Meanwhile <- FALSE, Rotates <- FALSE, Fails <- FALSE, MaxNow <- 13, MaxRefresh <- 3, MaxDown <- 3
Hasty == INSTANCE SimRelay WITH
  now <- at, phase <- mode, refreshes <- relays,
  Accounts <- {"x", "y"}, DefAcc <- "x", AccMaxPair <- [x |-> 2, y |-> 1], Pairs <- {"p", "q"},
  Policies <- {"s"}, Tf <- [s |-> 1], BarMax <- [s |-> 3], Signals <- Quick,
  Meanwhile <- TRUE, Rotates <- TRUE, Fails <- TRUE, MaxNow <- 5, MaxRefresh <- 3, MaxDown <- 1

Idle(v) == v = [x \in {} |-> 0]
NoExit == reqs = 0 /\ Idle(last)
NoEnter == Idle(job) /\ Idle(req)
NoJobs == Idle(jobs) /\ Idle(envs) /\ Idle(made) /\ pairStrats = {} /\ ods = {} /\ left = {} /\ refreshes = 0
NoRelay ==
  /\ Idle(glob) /\ Idle(back) /\ at = 0 /\ mode = "none" /\ first = FALSE /\ groups = <<>> /\ list = <<>> /\ end = 0
  /\ fed = {} /\ opens = {} /\ dones = {} /\ relays = 0 /\ downs = 0
AllInit ==
  \/ part = "exits" /\ Exits!Init /\ NoEnter /\ NoJobs /\ NoRelay
  \/ part = "enters" /\ Enters!Init /\ NoExit /\ NoJobs /\ NoRelay
  \/ ((part = "held" /\ Held!Init) \/ (part = "closed" /\ Closed!Init)) /\ NoExit /\ NoEnter /\ Idle(od) /\ NoRelay
  \/ ((part = "calm" /\ Calm!Init) \/ (part = "hasty" /\ Hasty!Init)) /\ NoExit /\ NoEnter /\ NoJobs /\ Idle(od)
AllNext ==
  /\ part' = part
  /\ \/ part = "exits" /\ Exits!Next /\ UNCHANGED <<enterVars, jobVars, relayVars>>
     \/ part = "enters" /\ Enters!Next /\ UNCHANGED <<exitVars, jobVars, relayVars>>
     \/ /\ (part = "held" /\ Held!Next) \/ (part = "closed" /\ Closed!Next)
        /\ UNCHANGED <<od, exitVars, enterVars, relayVars>>
     \/ /\ (part = "calm" /\ Calm!Next) \/ (part = "hasty" /\ Hasty!Next)
        /\ UNCHANGED <<od, exitVars, enterVars, jobVars>>
AllSpec == AllInit /\ [][AllNext]_allVars
-----------------------------------------------------------------------------
(* Every variable of a part has its type, in every part.                      *)
AllTypeOK ==
  /\ part = "exits" => Exits!TypeOK
  /\ part = "enters" => Enters!TypeOK
  /\ part = "held" => Held!TypeOK
  /\ part = "closed" => Closed!TypeOK
  /\ part = "calm" => Calm!TypeOK
  /\ part = "hasty" => Hasty!TypeOK

(* A request ends what it asks for, as far as orders may be closed, and no    *)
(* more; its cuts make and lose no amounts, a limit exit leaves take profits  *)
(* for what it asks for, and the triggers of a job over its orders cover what *)
(* was asked (ExitOpenOrders, CutPart, exitOrder, setAllExitTrigger).         *)
ExitsAddUp ==
  part = "exits" => Exits!EndsWhatIsAsked /\ Exits!CutsAddUp /\ Exits!TakesProfitAsAsked /\ Exits!TriggersAddUp

(* What openOrder accepts has stop and take profit on their sides of the      *)
(* price; the trailing stop never moves back, and only an order that was in   *)
(* profit exits for its drawdown, if its entry filled at its price            *)
(* (getMaxTp, drawDownExit).                                                  *)
EnterStopsSound ==
  /\ [](part = "enters" => Enters!AcceptedIsSound /\ Enters!ExitsInProfit)
  /\ [][part = "enters" => Enters!RatchetStep]_allVars

(* Jobs that may open stay within max_pair of their policy and account, a job *)
(* works on the environment its bars go to, an entered order is closed when   *)
(* its job ends, and with positions held no refresh ends a job that has one   *)
(* (LoadStratJobs, RefreshJobs).                                              *)
RotationSound ==
  /\ [](part = "held" => Held!JobsBounded /\ Held!EnvsFit /\ Held!NoneLeftEntered)
  /\ [](part = "closed" => Closed!JobsBounded /\ Closed!EnvsFit /\ Closed!NoneLeftEntered)
  /\ [][part = "held" => Held!HeldStep]_allVars

(* Between refreshes every job holds the orders it would hold had it run all  *)
(* the time: none is missing after a rotation or a restart, and none is left  *)
(* it would have closed; and no signal is entered twice, though a relay fails *)
(* half-way, accounts trade different pairs, and bars come while the relay    *)
(* goes on (relayUnFinishOrders, syncSimOrders, KeyAlign).                    *)
RelayCatchesUp ==
  /\ part = "calm" => Calm!CaughtUp /\ Calm!NothingStale /\ Calm!OpenedOnce
  /\ part = "hasty" => Hasty!OpenedOnce
=============================================================================
