-------------------------------- MODULE EnterReqs -------------------------------
(* What a strategy's request to open becomes (strat/base.go openOrder), and    *)
(* how the profit of the order is followed (drawDownExit).  One job; prices    *)
(* are small integers, a long order has dir 1 and a short one -1.              *)
EXTENDS Integers
CONSTANTS
  Price,      \* the price at the request
  Moves,      \* how far from it the market goes
  Slip        \* how far from its price an entry may fill
VARIABLES
  job,        \* the stop loss of the job, and whether it sends stop loss and take profit
  req,        \* the request, as it was accepted, or NoReq
  od          \* the order that followed: its dir, InitPrice, average, TPMaxs, stop, state, best price
vars == <<job, req, od>>

Dirs == {1, -1}
Quotes == Price - 1 .. Price + 1
NoJob == [sl |-> 0, exgSL |-> FALSE, exgTP |-> FALSE]
NoReq == [dir |-> 0, limit |-> 0, stop |-> 0, type |-> "none", enter |-> 0, sl |-> 0, tp |-> 0]
NoOd == [dir |-> 0, init |-> 0, avg |-> 0, max |-> 0, sl |-> 0, st |-> "none", best |-> 0]
Init ==
  /\ job \in [sl : {0} \cup Quotes, exgSL : BOOLEAN, exgTP : BOOLEAN]
  /\ req = NoReq /\ od = NoOd

\* a is worse than b for who buys (or sells, short): the order that names it waits.
Waits(a, b, dir) == (a - b) * dir < 0
IsLimit(type) == type \in {"limit", "maker"}
Tiny == 1 \* enterPrice * 0.001

(* A limit that would not wait is dropped; a stop the price has passed becomes *)
(* a limit.                                                                    *)
LimitOf(r) == IF IsLimit(r.type) /\ r.limit = 0 THEN Price ELSE r.limit
StopPassed(r) == Waits(r.stop, Price, r.dir)
Priced(r) ==
  IF r.stop > 0
  THEN [limit |-> IF StopPassed(r) THEN r.stop ELSE 0, stop |-> IF StopPassed(r) THEN 0 ELSE r.stop, enter |-> r.stop]
  ELSE IF LimitOf(r) > 0 /\ Waits(LimitOf(r), Price, r.dir)
  THEN [limit |-> LimitOf(r), stop |-> 0, enter |-> LimitOf(r)]
  ELSE [limit |-> 0, stop |-> 0, enter |-> Price]
\* The stop loss: by the request's distance, its price, or the job's.
AsGiven(p) == p
Positive(p) == IF p < 0 THEN Tiny ELSE p
StopLoss(r, enter) ==
  Positive(IF r.slVal > 0 THEN enter - r.slVal * r.dir ELSE IF r.sl # 0 THEN r.sl ELSE job.sl)
\* The take profit: the job's own is never used.
TakeProfit(r, enter) == Positive(IF r.tpVal > 0 THEN enter + r.tpVal * r.dir ELSE r.tp)
OneSide(p, enter, dir) == p > 0 /\ p >= enter
\* A stop loss must lie beyond the entry's price on the side that loses.
BadSide(p, enter, dir) == p > 0 /\ (p - enter) * dir >= 0
\* An order that only makes the market must wait.
Crosses(limit, type, dir) == type = "maker" /\ limit > 0 /\ Waits(Price, limit, dir)
Type(r, limit) == IF limit > 0 /\ r.type = "none" THEN "limit" ELSE r.type
Refused(r) ==
  LET enter == Priced(r).enter IN
  \/ LimitOf(r) > 0 /\ r.stop > 0
  \/ job.exgSL /\ BadSide(StopLoss(r, enter), enter, r.dir)
  \/ job.exgTP /\ TakeProfit(r, enter) > 0 /\ BadSide(TakeProfit(r, enter), enter, -r.dir)
  \/ Crosses(Priced(r).limit, r.type, r.dir)
Accepted(r) ==
  LET p == Priced(r) IN
  [dir |-> r.dir, limit |-> p.limit, stop |-> p.stop, type |-> Type(r, p.limit), enter |-> p.enter,
   sl |-> IF job.exgSL THEN StopLoss(r, p.enter) ELSE 0, tp |-> IF job.exgTP THEN TakeProfit(r, p.enter) ELSE 0]
Requests ==
  [dir : Dirs, limit : {0} \cup Quotes, stop : {0} \cup Quotes, type : {"none", "market", "limit", "maker"},
   slVal : {0, 1}, sl : {-1, 0, Price - 1, Price + 1}, tpVal : {0, 1}, tp : {-1, 0, Price - 1, Price + 1}]
OpenOrder(r) ==
  /\ req = NoReq /\ od = NoOd /\ ~Refused(r) /\ req' = Accepted(r) /\ UNCHANGED <<job, od>>
-----------------------------------------------------------------------------
\* enterOrder: InitPrice is the limit, or the price; the entry fills near it.
Enter ==
  /\ req # NoReq /\ od = NoOd
  /\ LET init == IF req.limit > 0 THEN req.limit ELSE Price IN
     \E avg \in init - Slip .. init + Slip :
       od' = [dir |-> req.dir, init |-> init, avg |-> avg, max |-> init, sl |-> 0, st |-> "open", best |-> avg]
  /\ job' = NoJob /\ req' = NoReq

\* CalcDrawDownExitRate, in percent, from the greatest profit in a thousandth of the price.
Swapped(chg) == IF chg > 25 THEN 50 ELSE IF chg > 7 THEN 25 ELSE 0
DrawDownExitRate(chg) ==
  IF chg > 100 THEN 15 ELSE IF chg > 40 THEN 17 ELSE IF chg > 25 THEN 25 ELSE IF chg > 15 THEN 37 ELSE IF chg > 7 THEN 50 ELSE 0
Abs(x) == IF x < 0 THEN -x ELSE x
Best(a, b, dir) == IF (a - b) * dir > 0 THEN a ELSE b
\* getDrawDownExitPrice, in a hundredth of the price; 0 if the profit is too small.
ExitPrice(o, max) ==
  LET val == Abs(max - o.avg)
      rate == DrawDownExitRate((val * 1000) \div o.avg) IN
  IF rate = 0 THEN 0 ELSE o.avg * 100 + val * (100 - rate) * o.dir
(* drawDownExit, on a bar from its extreme to its close: the order exits when  *)
(* the price has come back to its stop, or its stop loss is set there.         *)
LastBar(o, extreme) == extreme
MaxTp(o, extreme) == Best(o.max, extreme, o.dir)
Bar(extreme, close) ==
  LET max == MaxTp(od, extreme)
      stop == ExitPrice(od, max) IN
  /\ od.st = "open" /\ (extreme - close) * od.dir >= 0
  /\ od' = [od EXCEPT !.max = max, !.best = Best(@, extreme, od.dir),
                      !.sl = IF stop > 0 /\ (stop - close * 100) * od.dir < 0 THEN stop ELSE @,
                      !.st = IF stop > 0 /\ (stop - close * 100) * od.dir >= 0 THEN "drawDown" ELSE @]
  /\ UNCHANGED <<job, req>>
Market == Price - Moves .. Price + Moves
Next == (\E r \in Requests : OpenOrder(r)) \/ Enter \/ \E extreme, close \in Market : Bar(extreme, close)
Spec == Init /\ [][Next]_vars
-----------------------------------------------------------------------------
TypeOK ==
  /\ job \in [sl : Nat, exgSL : BOOLEAN, exgTP : BOOLEAN]
  /\ req.dir \in Dirs \cup {0} /\ {req.limit, req.stop, req.enter, req.sl, req.tp, od.sl} \subseteq Nat
  /\ od.st \in {"none", "open", "drawDown"} /\ od.dir \in Dirs \cup {0}

(* What is accepted makes sense: it waits at a price the market has not        *)
(* reached, or above it for a stop, not both, and its stop loss and take       *)
(* profit lie on either side of the price it enters at, for both directions.   *)
AcceptedIsSound ==
  req # NoReq =>
    /\ req.limit > 0 => Waits(req.limit, Price, req.dir) /\ req.enter = req.limit /\ req.stop = 0
    /\ req.stop > 0 => (req.stop - Price) * req.dir >= 0 /\ req.enter = req.stop
    /\ req.sl > 0 => (req.sl - req.enter) * req.dir < 0
    /\ req.tp > 0 => (req.tp - req.enter) * req.dir > 0
(* The stop that follows the profit never goes back, though the share of the   *)
(* profit it gives away depends on the profit (CalcDrawDownExitRate).          *)
RatchetStep == od.sl > 0 /\ od'.st = "open" => (od'.sl - od.sl) * od.dir >= 0
StopRatchets == [][RatchetStep]_vars
(* Only an order that was in profit, by more than is too small, exits for its  *)
(* drawdown, if its entry filled at its price (getMaxTp).                      *)
ExitsInProfit ==
  od.st = "drawDown" => (od.best - od.avg) * od.dir * 1000 >= 7 * od.avg
=============================================================================
