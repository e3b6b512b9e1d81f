------------------------------ MODULE MCTrading ------------------------------
(* What goes on around the orders of an account, each in a few settings; part *)
(* says which, and the variables of the others do not change.                 *)
EXTENDS Naturals, TLC
VARIABLES
  now, ex, loc, sent, phase, open, since, todo, snap, users, heard, kept,
  asked, due, barMS, simulOpen, simulOpenSt, opened, work, noEnter, refused, dropped, entered, inTick,
  part
recoveryOnly == <<ex, loc, sent, phase, open, since, todo, snap, users, heard, kept>>
limitOnly == <<asked, due, barMS, simulOpen, simulOpenSt, opened, work, noEnter, refused, dropped, entered, inTick>>
allVars == <<recoveryOnly, limitOnly, now, part>>

\* A bot that goes down and comes back: alone, with a user who trades, with one who cancels its orders.
Alone == INSTANCE LiveRecovery WITH Amount <- <<1, 1>>, MaxLoc <- 3, TakeOver <- TRUE, MaxUser <- 0, Cancels <- TRUE, MaxOrders <- 3
User == INSTANCE LiveRecovery WITH Amount <- <<2>>, MaxLoc <- 3, TakeOver <- TRUE, MaxUser <- 2, Cancels <- FALSE, MaxOrders <- 3
Canceller == INSTANCE LiveRecovery WITH Amount <- <<2>>, MaxLoc <- 3, TakeOver <- TRUE, MaxUser <- 1, Cancels <- TRUE, MaxOrders <- 3
\* Two strategies on two pairs of two time frames, in a back test.
Limits == INSTANCE OpenLimits WITH
  open <- opened, Strats <- {"s", "t"}, Pairs <- {"p", "q"}, Tf <- ("p" :> 1 @@ "q" :> 2), Parallel <- FALSE,
  MaxOpenOrders <- 4, MaxSimulOpen <- 3, PolMaxOpen <- 2, PolMaxSimul <- 2, JobMaxOpen <- 2, MaxReqs <- 2,
  MaxAsked <- 4, MaxTicks <- 2
\* Bars handled side by side, as in live mode.
LiveBars == INSTANCE OpenLimits WITH
  open <- opened, Strats <- {"s"}, Pairs <- {"p", "q"}, Tf <- ("p" :> 1 @@ "q" :> 1), Parallel <- TRUE,
  MaxOpenOrders <- 4, MaxSimulOpen <- 0, PolMaxOpen <- 1, PolMaxSimul <- 0, JobMaxOpen <- 1, MaxReqs <- 1,
  MaxAsked <- 2, MaxTicks <- 1

Idle(v) == v = [x \in {} |-> 0]
NoRecovery ==
  /\ Idle(ex) /\ Idle(loc) /\ Idle(open) /\ Idle(kept) /\ sent = {} /\ todo = {} /\ heard = {} /\ phase = "none"
  /\ since = 0 /\ snap = 0 /\ users = 0
NoLimit ==
  /\ Idle(simulOpenSt) /\ Idle(work) /\ Idle(inTick) /\ due = {} /\ opened = {} /\ barMS = 0 /\ simulOpen = 0
  /\ noEnter = FALSE /\ refused = 0 /\ dropped = 0 /\ entered = 0 /\ asked = 0

AllInit ==
  \/ /\ \/ part = "alone" /\ Alone!Init
        \/ part = "user" /\ User!Init
        \/ part = "canceller" /\ Canceller!Init
     /\ NoLimit
  \/ part = "limits" /\ Limits!Init /\ NoRecovery
AllNext ==
  /\ part' = part
  /\ \/ /\ \/ part = "alone" /\ Alone!Next
           \/ part = "user" /\ User!Next
           \/ part = "canceller" /\ Canceller!Next
        /\ UNCHANGED limitOnly
     \/ part = "limits" /\ Limits!Next /\ UNCHANGED recoveryOnly
AllSpec == AllInit /\ [][AllNext]_allVars
-----------------------------------------------------------------------------
\* The setting that breaks a promise, a specification of its own.
LiveBarsSpec ==
  /\ part = "livebars" /\ LiveBars!Init /\ NoRecovery
  /\ [][part' = part /\ LiveBars!Next /\ UNCHANGED recoveryOnly]_allVars

(* In live mode too no strategy has more open orders than max_open of its     *)
(* policy (allowOrderEnter).                                                  *)
LivePolicyBounded == LiveBars!PolicyBounded
-----------------------------------------------------------------------------
(* Every variable of a part has its type, in every part.                      *)
AllTypeOK ==
  /\ part = "alone" => Alone!TypeOK
  /\ part = "user" => User!TypeOK
  /\ part = "canceller" => Canceller!TypeOK
  /\ part = "limits" => Limits!TypeOK

(* After a restart at most one open order may hold more than the position     *)
(* leaves for it and none is open without a position; with a strategy that    *)
(* takes over positions the open orders hold all of the position, if none was *)
(* to exit in part; the check of every minute closes no order the positions   *)
(* it fetched back, though orders fill meanwhile (SyncExgOrders,              *)
(* createOdFromPos, SyncLocalOrders).                                         *)
RestartSound ==
  [][/\ part = "alone" => Alone!BackedStep /\ Alone!TrackedStep /\ Alone!SpareStep
     /\ part = "user" => User!BackedStep /\ User!TrackedStep /\ User!SpareStep
     /\ part = "canceller" => Canceller!BackedStep /\ Canceller!TrackedStep /\ Canceller!SpareStep]_allVars

(* No more orders enter on a bar than max_simul_open of the account and of    *)
(* their policy, over all pairs and time frames; a strategy has no more open  *)
(* orders than its max_open; and every request ends as an order, as a failed  *)
(* open, or with an error or a ban, counted once (allowOrderEnter,            *)
(* checkOrderNum, AddAccFailOpens).                                           *)
LimitsKept == part = "limits" => Limits!LimitsKept
=============================================================================
