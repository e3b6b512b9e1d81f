----------------------------- MODULE LocalOrder -----------------------------
(***************************************************************************)
(* A back test on one contract pair: the simulated order manager, which    *)
(* fills orders bar by bar, and the wallet of the quote coin it moves the  *)
(* money in.  Everything runs in one goroutine, but the orders of a bar    *)
(* are taken in the order of a Go map, and every fill calls the strategy   *)
(* back, which may open, exit and split orders while the bar is handled.   *)
(*                                                                         *)
(* The price an order gets inside a bar is any price here (the module      *)
(* BarSim has the rules).  Money and amounts are integers.                 *)
(***************************************************************************)
EXTENDS Integers, Sequences, FiniteSets, FiniteSetsExt

CONSTANTS
  Prices,       \* the prices that occur
  Deposit,      \* config.WalletAmounts of the coin
  Cost,         \* legalCost of every entry
  Leverage,
  Fee,          \* the fee of one fill
  MinOpenPct,   \* config.MinOpenRate, in percent
  Charge,       \* config.ChargeOnBomb: refill the wallet after a liquidation
  Cuts,         \* TRUE: orders may be exited in part
  MaxOrders,    \* bound: orders, parts included
  MaxBars       \* bound: bars of the test

ASSUME ConstantsAssumption ==
  /\ Prices \subseteq Nat \ {0} /\ Prices # {} /\ IsFiniteSet(Prices)
  /\ {Deposit, Fee, MinOpenPct, MaxOrders, MaxBars} \subseteq Nat
  /\ {Cost, Leverage} \subseteq Nat \ {0}
  /\ {Charge, Cuts} \subseteq BOOLEAN

VARIABLES
  ods,      \* the InOutOrders, in the order they were made
  ava,      \* ItemWallet.Available
  frozens,  \* ItemWallet.Frozens, 0 for an absent key
  upol,     \* ItemWallet.UnrealizedPOL
  used,     \* ItemWallet.UsedUPol
  price,    \* core.GetPrice of the pair
  now,      \* btime.CurTimeMS
  phase,    \* what the engine is doing
  todo,     \* orders the loop of the phase has still to visit
  trig,     \* the order just entered, whose triggers are looked at next
  paid      \* what the simulated exchange paid so far (history variable)

wallet == <<ava, frozens, upol, used, paid>>
vars == <<ods, ava, frozens, upol, used, price, now, phase, todo, trig, paid>>

BarMS == MaxOrders + 1
LastTime == BarMS * (MaxBars + 1) + MaxOrders
Times == 1 .. LastTime
Ids == DOMAIN ods

InOutOrder ==
  [status : {"Init", "FullEnter", "FullExit"}, key : Times, dir : {1, -1},
   amt : Nat, avg : Prices \cup {0}, fee : {0, Fee}, stop : BOOLEAN,
   exitTag : BOOLEAN, profit : Int]

TypeOK ==
  /\ ods \in Seq(InOutOrder)
  /\ ava \in Int /\ upol \in Int /\ used \in Int /\ paid \in Int
  /\ frozens \in [Times -> Int]
  /\ price \in Prices
  /\ now \in Times
  /\ phase \in {"idle", "fill", "margin", "bomb", "close", "close2", "end", "clean"}
  /\ todo \subseteq Ids
  /\ trig \in Ids \cup {0}

\* f[1] + ... + f[n]
Sum(f, n) == LET s[i \in 0 .. n] == IF i = 0 THEN 0 ELSE s[i - 1] + f[i] IN s[n]
Open(o) == ods[o].status # "FullExit"
openOds == {o \in Ids : Open(o)}
entered == {o \in Ids : ods[o].status = "FullEnter"}
----------------------------------------------------------------------------
(* Orders *)

FeeOf(amt) == IF amt = 0 THEN 0 ELSE Fee

\* UpdateProfits at price p, once the order is entered; xfee is the exit's fee.
ProfitNoExitFee(od, p, xfee) ==
  IF od.amt = 0 THEN od.profit ELSE (p - od.avg) * od.amt * od.dir - od.fee
Profit(od, p, xfee) ==
  IF od.amt = 0 THEN od.profit ELSE (p - od.avg) * od.amt * od.dir - od.fee - xfee

\* SetExit and the rest of LocalExit or of fillPendingExit: closed at price p.
Closed(od, p) ==
  [od EXCEPT !.status = "FullExit", !.exitTag = TRUE,
             !.profit = Profit(od, p, FeeOf(od.amt))]

\* CutPart of half an order: the part keeps the key, the rest gets the next one,
\* and both keep the whole fee.
Part(od) == [od EXCEPT !.amt = od.amt \div 2]
Rest(od) == [od EXCEPT !.amt = @ - od.amt \div 2, !.key = @ + 1]
----------------------------------------------------------------------------
(* The wallet *)

frozenSum == Sum(frozens, LastTime)
Total == ava + frozenSum

CostAvaAll(need) == Min({need, ava})
\* CostAva: what can be spent of need, 0 for ErrLowFunds.
CostAva(need) ==
  IF ava >= need THEN need
  ELSE IF ava * 100 > need * MinOpenPct THEN ava ELSE 0

\* ConfirmOdEnter and ConfirmPending: the rest of the pending money goes back, and
\* the entry's value without its fee is frozen.
ConfirmOdEnter(key, cost, fee) ==
  /\ ava' = ava - cost
  /\ frozens' = [frozens EXCEPT ![key] = cost - fee]
  /\ paid' = paid - fee

ConfirmOdExitKeeps(od, p, froz) ==
  /\ ava' = ava + froz[od.key] + Profit(od, p, FeeOf(od.amt)) + od.fee
  /\ frozens' = froz
  /\ paid' = IF od.amt = 0 THEN paid ELSE paid + (p - od.avg) * od.amt * od.dir - Fee
\* ConfirmOdExit and Cancel, given what is frozen: all of it is released, with the
\* profit and the entry's fee, which the profit holds and the entry had paid.
ConfirmOdExitNoFee(od, p, froz) ==
  /\ ava' = ava + froz[od.key] + Profit(od, p, FeeOf(od.amt))
  /\ frozens' = [froz EXCEPT ![od.key] = 0]
  /\ paid' = IF od.amt = 0 THEN paid ELSE paid + (p - od.avg) * od.amt * od.dir - Fee
ConfirmOdExit(od, p, froz) ==
  /\ ava' = ava + froz[od.key] + Profit(od, p, FeeOf(od.amt)) + od.fee
  /\ frozens' = [froz EXCEPT ![od.key] = 0]
  /\ paid' = IF od.amt = 0 THEN paid ELSE paid + (p - od.avg) * od.amt * od.dir - Fee

WalletCutTwice(od) ==
  [frozens EXCEPT ![Rest(od).key] = @ + frozens[od.key] - frozens[od.key] \div 2]
\* CutPart: the share of the rest moves to its key.
WalletCut(od) ==
  LET cut == frozens[od.key] - frozens[od.key] \div 2
      src == [frozens EXCEPT ![od.key] = @ - cut]
  IN [src EXCEPT ![Rest(od).key] = @ + cut]

\* SetMargin: unrealized profit that is not used yet pays first.
Covered(margin) ==
  IF upol > used THEN Min({margin, upol - used}) ELSE 0
SetMarginTwice(key, margin) ==
  LET need == margin - Covered(margin)
      add == need - frozens[key]
  IN IF add > 0 /\ ava < add THEN UNCHANGED <<ava, frozens, used>>
     ELSE /\ ava' = ava - add
          /\ used' = used + margin
          /\ frozens' = [frozens EXCEPT ![key] = need]
SetMargin(key, margin) ==
  LET need == margin - Covered(margin)
      add == need - frozens[key]
  IN IF add > 0 /\ ava < add THEN UNCHANGED <<ava, frozens, used>>
     ELSE /\ ava' = ava - add
          /\ used' = used + Covered(margin)
          /\ frozens' = [frozens EXCEPT ![key] = need]
----------------------------------------------------------------------------
(* The strategy: at the end of a bar, or in the callback of a fill *)

Filling == phase \in {"fill", "close", "close2"}
Called == trig = 0 /\ (phase = "idle" \/ Filling)
\* An order touched by a callback is filled in another round of the same bar.
Again(o) == IF Filling THEN todo \cup {o} ELSE todo

\* enterOrder; afterEnter moves the clock on so that no two keys are equal.
AfterEnterNothing == now
AfterEnter == now + 1
EnterOrder(dir, stop) ==
  /\ Called /\ phase # "close2"
  /\ Len(ods) < MaxOrders
  /\ ods' = Append(ods, [status |-> "Init", key |-> now, dir |-> dir, amt |-> 0,
                         avg |-> 0, fee |-> 0, stop |-> stop, exitTag |-> FALSE,
                         profit |-> 0])
  /\ now' = AfterEnter
  /\ todo' = Again(Len(ods'))
  /\ UNCHANGED <<wallet, price, phase, trig>>

\* ExitOrder of a whole order.
ExitOrder(o) ==
  /\ Called
  /\ Open(o) /\ ~ ods[o].exitTag
  /\ ods' = [ods EXCEPT ![o].exitTag = TRUE]
  /\ todo' = Again(o)
  /\ UNCHANGED <<wallet, price, now, phase, trig>>

Cuttable(o) == Cuts /\ ods[o].amt >= 2 /\ Len(ods) < MaxOrders

\* ExitOrder of half of one: CutOrder, and the exit of the part.
ExitPart(o) ==
  /\ Called
  /\ ods[o].status = "FullEnter" /\ ~ ods[o].exitTag /\ Cuttable(o)
  /\ ods' = Append([ods EXCEPT ![o] = Rest(@)], [Part(ods[o]) EXCEPT !.exitTag = TRUE])
  /\ frozens' = WalletCut(ods[o])
  /\ todo' = Again(Len(ods'))
  /\ UNCHANGED <<ava, upol, used, paid, price, now, phase, trig>>
----------------------------------------------------------------------------
(* A bar: its fills (fillPendingOrdersAll), the profits and the margins *)

StartBar(close) ==
  /\ phase = "idle"
  /\ now \div BarMS < MaxBars
  /\ price' = close
  /\ now' = BarMS * (now \div BarMS + 1)
  /\ phase' = "fill"
  /\ todo' = openOds
  /\ UNCHANGED <<ods, wallet, trig>>

Visit(o) == Filling /\ trig = 0 /\ o \in todo
Done(o) == todo' = todo \ {o}

\* onLowFunds: with no money and nothing entered the test stops.
LowFunds == entered = {} /\ Total < Cost

\* Triggers are looked at only with a bar at hand.
Look(o) == IF phase = "fill" THEN o ELSE 0

\* fillPendingEnter: EnterOd, then the fill, or LocalExit when the money is short or
\* the amount comes out as 0.  The triggers are looked at in either case.
FillEnter(o, p) ==
  LET cost == CostAva(Cost \div Leverage)
      amt == (cost * Leverage) \div p
  IN /\ Visit(o)
     /\ ods[o].status = "Init" /\ ~ ods[o].exitTag
     /\ Done(o)
     /\ IF amt = 0
        THEN /\ ods' = [ods EXCEPT ![o] = Closed(@, p)]
             /\ IF cost = 0 /\ LowFunds THEN phase' = "end" /\ trig' = 0
                ELSE trig' = Look(o) /\ UNCHANGED phase
             /\ UNCHANGED wallet
        ELSE /\ ods' = [ods EXCEPT ![o].status = "FullEnter", ![o].amt = amt,
                                   ![o].avg = p, ![o].fee = Fee]
             /\ ConfirmOdEnter(ods[o].key, (p * amt) \div Leverage, Fee)
             /\ trig' = Look(o)
             /\ UNCHANGED <<upol, used, phase>>
     /\ UNCHANGED <<price, now>>

\* fillPendingExit
FillExit(o, p) ==
  /\ Visit(o)
  /\ Open(o) /\ ods[o].exitTag
  /\ Done(o)
  /\ ods' = [ods EXCEPT ![o] = Closed(@, p)]
  /\ ConfirmOdExit(ods[o], p, frozens)
  /\ UNCHANGED <<upol, used, price, now, phase, trig>>

\* tryFillTriggers of an order entered before, or entered just now.
Waiting(o) == Visit(o) /\ ods[o].status = "FullEnter" /\ ~ ods[o].exitTag
Triggers(o) == (Waiting(o) /\ phase = "fill") \/ trig = o

\* The stop is hit: the order is closed, or half of it is split off and closed.
TriggerAll(o, p) ==
  /\ Triggers(o) /\ ods[o].stop
  /\ ods' = [ods EXCEPT ![o] = Closed(@, p)]
  /\ ConfirmOdExit(ods[o], p, frozens)
  /\ Done(o) /\ trig' = 0
  /\ UNCHANGED <<upol, used, price, now, phase>>
TriggerPart(o, p) ==
  /\ Triggers(o) /\ ods[o].stop /\ Cuttable(o)
  /\ ods' = Append([ods EXCEPT ![o] = [Rest(@) EXCEPT !.stop = FALSE]],
                   Closed(Part(ods[o]), p))
  /\ ConfirmOdExit(Part(ods[o]), p, WalletCut(ods[o]))
  /\ Done(o) /\ trig' = 0
  /\ UNCHANGED <<upol, used, price, now, phase>>
NoTrigger(o) ==
  /\ Waiting(o) \/ trig = o
  /\ Done(o) /\ trig' = 0
  /\ UNCHANGED <<ods, wallet, price, now, phase>>

\* A limit order is not reached in this bar; an entry may have waited too long.
NotReached(o) ==
  /\ Visit(o) /\ phase = "fill"
  /\ ods[o].status = "Init" \/ (Open(o) /\ ods[o].exitTag)
  /\ Done(o)
  /\ \/ UNCHANGED ods
     \/ /\ ods[o].status = "Init"
        /\ ods' = [ods EXCEPT ![o] = Closed(@, price)]
  /\ UNCHANGED <<wallet, price, now, phase, trig>>

\* A closed order is passed over.
PassOver(o) ==
  /\ Visit(o) /\ ~ Open(o)
  /\ Done(o)
  /\ UNCHANGED <<ods, wallet, price, now, phase, trig>>

\* UpdateByBar: the profit of an entered order at the close of the bar.
MarkedAny(od) ==
  IF od.status # "Init" THEN [od EXCEPT !.profit = Profit(od, price, 0)] ELSE od
Marked(od) ==
  IF od.status = "FullEnter" THEN [od EXCEPT !.profit = Profit(od, price, 0)] ELSE od

\* updateProfitAndWallets up to its loop: the profits, and the liquidation.
UpdateProfits ==
  LET new == [o \in Ids |-> Marked(ods[o])]
      sum == Sum([o \in Ids |-> IF Open(o) THEN new[o].profit ELSE 0], Len(ods))
  IN /\ phase = "fill" /\ todo = {} /\ trig = 0
     /\ ods' = new
     /\ IF sum < 0 /\ - sum * 100 > 99 * Total
        THEN /\ ava' = 0 /\ frozens' = [k \in Times |-> 0]
             /\ upol' = 0 /\ used' = 0
             /\ paid' = - Deposit
             /\ phase' = "bomb" /\ todo' = {}
        ELSE /\ upol' = sum /\ used' = 0
             /\ phase' = "margin" /\ todo' = entered
             /\ UNCHANGED <<ava, frozens, paid>>
     /\ UNCHANGED <<price, now, trig>>

\* UpdateOds of one order: a losing one may be given its loss as margin on top.
UpdateMargin(o) ==
  LET od == ods[o]
      margin == (od.amt * price) \div Leverage
      loses == (price - od.avg) * od.dir < 0 /\ od.profit < 0
  IN /\ phase = "margin" /\ o \in todo
     /\ \E m \in {margin} \cup (IF loses THEN {margin - od.profit} ELSE {}) :
          SetMargin(od.key, m)
     /\ Done(o)
     /\ UNCHANGED <<ods, upol, paid, price, now, phase, trig>>

EndBar ==
  /\ phase = "margin" /\ todo = {}
  /\ phase' = "idle"
  /\ UNCHANGED <<ods, wallet, price, now, todo, trig>>

\* onLiquidation: a new deposit, or the end of the test.
OnLiquidation ==
  /\ phase = "bomb"
  /\ IF Charge THEN ava' = Deposit /\ paid' = 0 /\ phase' = "idle"
     ELSE phase' = "end" /\ UNCHANGED <<ava, paid>>
  /\ UNCHANGED <<ods, frozens, upol, used, price, now, todo, trig>>
----------------------------------------------------------------------------
(* CleanUp: every order is exited and filled without a bar, and what the     *)
(* callbacks opened meanwhile once more, with entries forbidden.             *)

ExitAll == [o \in Ids |-> [ods[o] EXCEPT !.exitTag = @ \/ Open(o)]]

PassOnce == "close2"
Pass == IF phase = "idle" THEN "close" ELSE "close2"

CleanUp ==
  /\ phase = "idle" \/ (phase = "close" /\ todo = {} /\ trig = 0)
  /\ ods' = ExitAll
  /\ todo' = {o \in openOds : phase = "close" \/ ~ ods[o].exitTag}
  /\ phase' = Pass
  /\ UNCHANGED <<wallet, price, now, trig>>

CleanUpEnd ==
  /\ phase = "close2" /\ todo = {} /\ trig = 0
  /\ phase' = "clean"
  /\ upol' = 0 /\ used' = 0
  /\ UNCHANGED <<ods, ava, frozens, paid, price, now, todo, trig>>
----------------------------------------------------------------------------
Init ==
  /\ ods = <<>>
  /\ ava = Deposit /\ frozens = [k \in Times |-> 0]
  /\ upol = 0 /\ used = 0 /\ paid = 0
  /\ price \in Prices
  /\ now = BarMS /\ phase = "idle" /\ todo = {} /\ trig = 0

Strategy ==
  \/ \E dir \in {1, -1}, stop \in BOOLEAN : EnterOrder(dir, stop)
  \/ \E o \in Ids : ExitOrder(o) \/ ExitPart(o)

FillPendingOrders == \E o \in Ids :
  \/ \E p \in Prices : FillEnter(o, p) \/ FillExit(o, p) \/ TriggerAll(o, p) \/ TriggerPart(o, p)
  \/ NoTrigger(o) \/ NotReached(o) \/ PassOver(o)

Next ==
  \/ Strategy
  \/ \E close \in Prices : StartBar(close)
  \/ FillPendingOrders
  \/ UpdateProfits
  \/ \E o \in Ids : UpdateMargin(o)
  \/ EndBar
  \/ OnLiquidation
  \/ CleanUp
  \/ CleanUpEnd

Spec == Init /\ [][Next]_vars
----------------------------------------------------------------------------
(* Properties *)

\* The wallet holds what was put in and what the exchange paid: no step of an entry,
\* an exit, a split or a margin update makes or loses money.
MoneyConserved == phase # "bomb" => Total = Deposit + paid

\* Frozen money belongs to an order that is entered and not yet exited: nothing stays
\* locked behind when orders close, one by one or in parts.
FrozenIsOwned ==
  \A k \in Times : frozens[k] # 0 => \E o \in entered : ods[o].key = k

\* Unrealized profit is used as margin once: SetMargin never hands out more of it
\* than there is, whatever the order of the orders and the failures on the way.
ProfitUsedOnce == used <= Max({0, upol})

\* An order that is fully exited keeps its result (its profit is what is reported).
ExitIsFinal ==
  [][\A o \in Ids : ~ Open(o) => ods'[o] = ods[o]]_vars

\* When the test is cleaned up no order is left open and all the money is available,
\* though callbacks open orders while the others are closed.
CleanUpClosesAll ==
  phase = "clean" => openOds = {} /\ ava = Deposit + paid

\* ConfirmOdExit counts on the profit of an order holding the fee the entry paid:
\* the profits of the exited orders and the fees of the entered ones add up to what
\* the exchange paid.
ProfitsAddUp ==
  phase \notin {"bomb", "end"} /\ ~ Charge =>
    Sum([o \in Ids |-> IF Open(o) THEN - ods[o].fee ELSE ods[o].profit], Len(ods)) = paid

\* makeLocalAfterEnter moves the clock so that no two orders share a wallet key.
KeysDiffer ==
  \A o, q \in openOds : o # q => ods[o].key # ods[q].key
----------------------------------------------------------------------------
(* Why they hold, with parts and without.                                    *)

\* The clock and the keys stay within Times: a bar has room for every order it makes.
KeysBounded ==
  /\ Len(ods) <= MaxOrders
  /\ now <= BarMS * (MaxBars + 1) + Len(ods)
  /\ \A o \in Ids : ods[o].key < BarMS * (MaxBars + 1) + Len(ods)

\* What an order holds in each of its states; one without amount has no profit or fee.
Fits(od) ==
  /\ od.amt = 0 => od.profit = 0 /\ od.fee = 0
  /\ od.status = "Init" => od.amt = 0
  /\ od.status = "FullEnter" => od.amt > 0
  /\ od.status = "FullExit" => od.exitTag
OrdersFit == \A o \in Ids : Fits(ods[o])

\* Triggers are looked at while a bar is filled, of an order just entered or one that
\* was closed without amount instead.
TriggerFits ==
  trig # 0 => /\ phase = "fill" /\ trig \in Ids
              /\ ods[trig].status = "FullEnter" \/ (ods[trig].status = "FullExit" /\ ods[trig].amt = 0)

\* The second pass of the clean-up has all that is open before it, and leaves nothing.
LastPass ==
  /\ phase = "close2" => \A o \in openOds : o \in todo /\ ods[o].exitTag
  /\ phase = "clean" => openOds = {}

OrdersInv == TypeOK /\ KeysBounded /\ OrdersFit /\ TriggerFits /\ LastPass /\ ProfitUsedOnce

(* And while orders are exited whole.                                        *)

\* No two orders ever made have one key, and the next has a later one.
KeysApart ==
  /\ \A o, q \in Ids : o # q => ods[o].key # ods[q].key
  /\ \A o \in Ids : ods[o].key < now

\* Margins are set of entered orders only.
MarginsEntered == phase = "margin" => todo \subseteq entered

\* A liquidation takes what is frozen as well.
BombTakesAll == phase = "bomb" => \A k \in Times : frozens[k] = 0

MoneyKept == Total = Deposit + paid

WalletInv == KeysApart /\ FrozenIsOwned /\ MarginsEntered /\ BombTakesAll /\ MoneyKept /\ ProfitsAddUp
=============================================================================
