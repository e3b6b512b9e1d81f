-------------------------------- MODULE MCSim --------------------------------
(* The simulation of orders in one run: the simulated order manager and its   *)
(* wallet (LocalOrder), the prices inside a bar (BarSim), and the stored      *)
(* bars on their way to the callbacks (HistFeed).  setup says which; the      *)
(* variables of the others do not change.                                     *)
EXTENDS LocalOrder
VARIABLES
  setup,
  bar, od, step, rate, rest, exit,
  stored, pc, feeder, holds, cur, calls, out, vers, oldVer, dirtyLast, clock, nextRefresh, maxTf, bot, bombs, told
localVars == <<ods, ava, frozens, upol, used, now, phase, todo, trig, paid>>
barVars == <<bar, od, step, rate, rest, exit>>
histVars == <<stored, pc, feeder, holds, cur, calls, out, vers, oldVer, dirtyLast, clock, nextRefresh, maxTf, bot, bombs, told>>
simVars == <<localVars, price, barVars, histVars, setup>>

\* Whole exits have the constants of the run; parts are split orders, leverage and a refill after a liquidation.
Parts == INSTANCE LocalOrder WITH Leverage <- 2, Charge <- TRUE, Cuts <- TRUE

AllInit ==
  \/ setup = "whole" /\ Init
  \/ setup = "parts" /\ Parts!Init
AllNext ==
  /\ setup' = setup
  /\ \/ setup = "whole" /\ Next
     \/ setup = "parts" /\ Parts!Next

FourPrices == {10, 20, 30, 40}
\* One moment in each part of most bars, the first short move included.
Moments == {<<0, 1>>, <<1, 20>>, <<1, 4>>, <<1, 2>>, <<9, 10>>}
Bar == INSTANCE BarSim WITH Prices <- FourPrices, MinRates <- Moments, Bears <- TRUE, Late <- TRUE
\* Two pairs without holes, or with some at the refreshes; the refreshes change pairs and time frames.
T == 0 .. 40
Whole == <<T, T>>
Hist == INSTANCE HistFeed WITH
  Data <- {Whole, <<T \ {3, 9, 10}, T \ {8, 13}>>, <<T, T \ {2, 3}>>},
  Plans <- {<<{1}, {2}>>, <<{1, 2}, {2}>>, <<{1, 4}>>, <<{2, 4}, {1, 2}>>},
  Start <- 4, End <- 28, Cron <- {6, 11, 16, 21}, BatchSize <- 3, Cap <- 5, Bombs <- 1

Idle(v) == v = [x \in {} |-> 0]
NoLocal ==
  /\ Idle(ods) /\ frozens = [k \in Times |-> 0] /\ ava = Deposit /\ upol = 0 /\ used = 0 /\ now = 0
  /\ phase = "none" /\ todo = {} /\ trig = 0 /\ paid = 0
NoBar == Idle(bar) /\ Idle(od) /\ Idle(rate) /\ Idle(rest) /\ Idle(exit) /\ step = "none"
NoHist ==
  /\ Idle(stored) /\ Idle(feeder) /\ Idle(told) /\ pc = "none" /\ bot = "none" /\ holds = {} /\ calls = <<>> /\ out = <<>> /\ vers = <<>>
  /\ cur = 0 /\ oldVer = 0 /\ dirtyLast = 0 /\ clock = 0 /\ nextRefresh = 0 /\ maxTf = 0 /\ bombs = 0
LocalSetups == {"whole", "parts"}
SimInit ==
  \/ AllInit /\ NoBar /\ NoHist
  \/ setup = "bar" /\ Bar!Init /\ NoLocal /\ NoHist
  \/ setup = "hist" /\ Hist!Init /\ NoLocal /\ price = 0 /\ NoBar
SimNext ==
  \/ setup \in LocalSetups /\ AllNext /\ UNCHANGED <<barVars, histVars>>
  \/ setup = "bar" /\ setup' = setup /\ Bar!Next /\ UNCHANGED <<localVars, histVars>>
  \/ setup = "hist" /\ setup' = setup /\ Hist!Next /\ UNCHANGED <<localVars, price, barVars>>
SimSpec == SimInit /\ [][SimNext]_simVars
-----------------------------------------------------------------------------
InLocal == setup \in LocalSetups
(* Money is frozen for an order that is entered and not yet exited, and the    *)
(* clean-up leaves no order open, though callbacks open some meanwhile; while *)
(* orders are exited whole their keys differ and their profits add up to what *)
(* the wallet received (with parts they do not: both halves report the whole  *)
(* entry fee).  These are the invariants that are proved, the types included  *)
(* (ConfirmOdExit, CutPart, Key, CleanUp, UpdateProfits).                     *)
WalletSound ==
  /\ InLocal => OrdersInv /\ FrozenIsOwned /\ CleanUpClosesAll
  /\ setup = "whole" => WalletInv /\ KeysDiffer

(* A fill inside a bar is at a price of the bar and no worse than its limit, a *)
(* stop fills at its trigger or the open beyond it, time and price agree on   *)
(* the path, and the bar left after an entry holds the prices still to come   *)
(* and, if rising, none from before (simMarketPrice, getExcPrice,             *)
(* cutKlineFromRate).                                                         *)
BarPathKept ==
  setup = "bar" =>
    /\ Bar!TypeOK /\ Bar!FillIsFair /\ Bar!StopAtTrigger /\ Bar!RateMeetsPrice
    /\ Bar!RestHoldsPath /\ Bar!RisingRestIsPath

(* A callback gets the bar that follows the last its environment has seen,    *)
(* none twice and none passed over, over batches, warm-ups and refreshes that *)
(* change pairs and time frames; bars run in the order of their ends; and a   *)
(* test that nothing stopped has shown all that is stored (RunHistFeeders,    *)
(* SetNext, SubWarmPairs, onNewBars).                                         *)
HistSound ==
  /\ [](setup = "hist" => Hist!TypeOK /\ Hist!FedToEnd)
  /\ [][setup = "hist" => Hist!TellStep /\ Hist!TimeStep]_simVars
=============================================================================
