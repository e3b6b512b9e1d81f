------------------------------- MODULE BarSim -------------------------------
(***************************************************************************)
(* One order of a back test in one bar.  The simulated manager knows the   *)
(* open, high, low and close of the bar and assumes a path the price took  *)
(* between them; it computes where on the path an order fills and what is  *)
(* left of the bar after that, in which the stop loss may trigger.         *)
(*                                                                         *)
(* Prices are integers, multiples of ten, so that the factors 0.3 and 1.3  *)
(* of the code give integers.  A rate, a fraction of the bar, and a price  *)
(* computed from one are rationals <<numerator, denominator>>.             *)
(***************************************************************************)
EXTENDS Integers, Sequences, FiniteSets

CONSTANTS
  Prices,    \* the prices of bars and orders
  MinRates,  \* when in the bar the order was placed, as a rational
  Bears,     \* TRUE: falling bars too
  Late       \* TRUE: orders placed after the bar began are limit orders too

\* What the constants must be.
ConstantsFit ==
  /\ \A p \in Prices : p \in Nat /\ p > 0 /\ p % 10 = 0
  /\ \A r \in MinRates : r[1] \in Nat /\ r[2] \in Nat /\ r[1] < r[2]
  /\ {Bears, Late} \subseteq BOOLEAN

VARIABLES
  bar,   \* the bar
  od,    \* the order
  step,  \* "new" or "held"; "filled" or "none"; "cut"; "stopped" or "done"
  price, \* the price of the fill
  rate,  \* fillBarRate
  rest,  \* the bar cut at the fill; its prices are rationals
  exit   \* the price at which the stop loss was filled

vars == <<bar, od, step, price, rate, rest, exit>>
----------------------------------------------------------------------------
(* Rationals *)

Of(n) == <<n, 1>>
Leq(x, y) == x[1] * y[2] <= y[1] * x[2]
Eq(x, y) == Leq(x, y) /\ Leq(y, x)
Higher(x, y) == IF Leq(x, y) THEN y ELSE x
Lower(x, y) == IF Leq(x, y) THEN x ELSE y
Minus(x, y) == <<x[1] * y[2] - y[1] * x[2], x[2] * y[2]>>
Plus(x, y) == <<x[1] * y[2] + y[1] * x[2], x[2] * y[2]>>
Times(x, n) == <<x[1] * n, x[2]>>
Over(x, n) == <<x[1], x[2] * n>>
----------------------------------------------------------------------------
(* The path of a bar *)

Bars ==
  {b \in [o : Prices, h : Prices, l : Prices, c : Prices] :
     /\ b.l <= b.o /\ b.l <= b.c /\ b.o <= b.h /\ b.c <= b.h
     /\ Bears \/ b.o <= b.c}

Bull(b) == b.o <= b.c
\* The short move against the direction at the beginning.
Pa(b) == IF Bull(b) THEN (3 * (b.o - b.l)) \div 10 ELSE (3 * (b.h - b.o)) \div 10
\* The corners of the path, and the lengths of its four parts.
Corners(b) ==
  IF Bull(b) THEN <<b.o, b.o + Pa(b), b.l, b.h, b.c>>
  ELSE <<b.o, b.o - Pa(b), b.h, b.l, b.c>>
Lengths(b) ==
  IF Bull(b) THEN <<Pa(b), b.o + Pa(b) - b.l, b.h - b.l, (13 * (b.h - b.c)) \div 10>>
  ELSE <<Pa(b), b.h - b.o + Pa(b), b.h - b.l, (13 * (b.c - b.l)) \div 10>>
\* Where part n of the path ends; part 0 ends at the start.
End(b, n) ==
  LET f[i \in 0 .. 4] == IF i = 0 THEN 0 ELSE f[i - 1] + Lengths(b)[i] IN f[n]
totalLen(b) == End(b, 4)

\* The part a rate falls into, and the price there.
PartOf(b, r) ==
  CHOOSE n \in 1 .. 4 :
    /\ n = 4 \/ Leq(Times(r, totalLen(b)), Of(End(b, n)))
    /\ \A i \in 1 .. (n - 1) : ~ Leq(Times(r, totalLen(b)), Of(End(b, i)))
PathPrice(b, r) ==
  LET n == PartOf(b, r)
      from == Corners(b)[n]  to == Corners(b)[n + 1]
      pos == Minus(Times(r, totalLen(b)), Of(End(b, n - 1)))
  IN Plus(Of(from), Over(Times(pos, to - from), Lengths(b)[n]))

\* The high and the low of what is left, before the new open is looked at.  In part 3
\* of a falling bar the code changes highP, which is not read any more.
newHigh(b, n) == IF n = 4 THEN b.c ELSE b.h
newLowKept(b, n) == IF n = 4 THEN b.c ELSE b.l
newLowEarly(b, n) == IF n = 4 \/ (n >= 2 /\ Bull(b)) THEN b.c ELSE b.l
newLow(b, n) == IF n = 4 \/ (n = 3 /\ Bull(b)) THEN b.c ELSE b.l

\* simPriceByRate: the new open, high and low.
simPriceByRate(b, r) ==
  IF r[1] = 0 THEN [o |-> Of(b.o), h |-> Of(b.h), l |-> Of(b.l)]
  ELSE IF Leq(<<999, 1000>>, r) \/ totalLen(b) = 0
  THEN [o |-> Of(b.c), h |-> Of(b.h), l |-> Of(b.l)]
  ELSE LET n == PartOf(b, r)  p == PathPrice(b, r)
       IN [o |-> p, h |-> Higher(p, Of(newHigh(b, n))), l |-> Lower(p, Of(newLow(b, n)))]
simMarketPrice(b, r) == simPriceByRate(b, r).o
----------------------------------------------------------------------------
(* simMarketRate: where on the path a price is met, not before rate min *)

InBar(b, p) == b.l <= p /\ p <= b.h
\* The position of price p in part n; the last part is longer than its price range.
MetAtSigned(b, p, n) == End(b, n - 1) + p - Corners(b)[n]
MetAt(b, p, n) ==
  LET from == Corners(b)[n] IN End(b, n - 1) + (IF p >= from THEN p - from ELSE from - p)

\* The parts that are tried, in order; the last is taken unconditionally.
PartsOfTriggerWide(b, p) == IF p < b.o THEN <<1, 3, 4>> ELSE <<2, 3>>
PartsOfTrigger(b, p) ==
  IF Bull(b)
  THEN (IF p >= b.o /\ p <= b.o + Pa(b) THEN <<1>> ELSE IF p < b.o THEN <<2>> ELSE <<>>) \o <<3, 4>>
  ELSE IF p < b.o THEN (IF p >= b.o - Pa(b) THEN <<1>> ELSE <<>>) \o <<3, 4>> ELSE <<2, 3>>
PartsOfLimit(b, p, buy) ==
  CASE Bull(b) /\ buy -> <<2, 3>>
    [] Bull(b) /\ ~ buy -> <<3, 4>>
    [] ~ Bull(b) /\ buy -> (IF p >= b.o - Pa(b) THEN <<1>> ELSE <<>>) \o <<3, 4>>
    [] ~ Bull(b) /\ ~ buy -> <<2, 3>>

FirstFrom(b, p, parts, min) ==
  LET r(i) == <<MetAt(b, p, parts[i]), totalLen(b)>>
      n == CHOOSE i \in DOMAIN parts :
             /\ i = Len(parts) \/ Leq(min, r(i))
             /\ \A j \in 1 .. (i - 1) : ~ Leq(min, r(j))
  IN r(n)

PartsOf(b, p, buy, isTrigger) == IF isTrigger THEN PartsOfTrigger(b, p) ELSE PartsOfLimit(b, p, buy)
FirstUnchecked(b, p, parts, min) == FirstFrom(b, p, parts, min)
FirstInPath(b, p, parts, min) ==
  IF totalLen(b) = 0 THEN <<1, 2>> ELSE FirstFrom(b, p, parts, min)

simMarketRate(b, p, buy, isTrigger, min) ==
  IF (isTrigger /\ ~ InBar(b, p)) \/ (~ isTrigger /\ (IF buy THEN p >= b.o ELSE p <= b.o))
  THEN min
  ELSE FirstInPath(b, p, PartsOf(b, p, buy, isTrigger), min)
----------------------------------------------------------------------------
(* fillPendingOrders of one order, entries and exits alike *)

\* Entry orders have a kind, a side, a limit or trigger price, and a stop loss with
\* or without a limit of its own (0 for none).
Orders ==
  {o \in [kind : {"market", "limit", "trigger"}, buy : BOOLEAN, limit : Prices \cup {0},
          min : MinRates, stop : Prices, stopLimit : Prices \cup {0}] :
     /\ o.kind = "market" <=> o.limit = 0
     /\ o.kind # "market" /\ ~ Late => o.min[1] = 0}

LimitOnly(b, p, buy) == p
\* A limit better than the market fills at the open of the bar.
BetterOf(b, p, buy) == IF (IF buy THEN p > b.o ELSE p < b.o) THEN b.o ELSE p

Reached(b, p, buy) == IF buy THEN p >= b.l ELSE p <= b.h

FillMarket ==
  /\ step = "new" /\ od.kind = "market"
  /\ rate' = od.min
  /\ price' = simMarketPrice(bar, od.min)
  /\ step' = "filled"
  /\ UNCHANGED <<bar, od, rest, exit>>

FillLimit ==
  /\ step = "new" /\ od.kind = "limit" /\ Reached(bar, od.limit, od.buy)
  /\ price' = Of(BetterOf(bar, od.limit, od.buy))
  /\ rate' = simMarketRate(bar, od.limit, od.buy, FALSE, od.min)
  /\ step' = "filled"
  /\ UNCHANGED <<bar, od, rest, exit>>

\* od.Stop: the entry waits for its trigger price.
FillTrigger ==
  /\ step = "new" /\ od.kind = "trigger" /\ InBar(bar, od.limit)
  /\ price' = Of(od.limit)
  /\ rate' = simMarketRate(bar, od.limit, od.buy, TRUE, od.min)
  /\ step' = "filled"
  /\ UNCHANGED <<bar, od, rest, exit>>

NotFilled ==
  /\ step = "new"
  /\ \/ od.kind = "limit" /\ ~ Reached(bar, od.limit, od.buy)
     \/ od.kind = "trigger" /\ ~ InBar(bar, od.limit)
  /\ step' = "none"
  /\ UNCHANGED <<bar, od, price, rate, rest, exit>>

\* cutKlineFromRate.
Cut ==
  /\ step = "filled"
  /\ rest' = simPriceByRate(bar, rate)
  /\ step' = "cut"
  /\ UNCHANGED <<bar, od, price, rate, exit>>

\* tryFillTriggers in the rest of the bar.  The order is long if its entry buys.
Hit == IF od.buy THEN Leq(rest.l, Of(od.stop)) ELSE Leq(Of(od.stop), rest.h)

\* getExcPrice: the limit of the stop, 0 for the market, -1 for no exit.
getExcPrice ==
  IF od.stopLimit = 0 THEN 0
  ELSE IF IF od.buy THEN ~ Leq(Of(od.stopLimit), rest.h) ELSE ~ Leq(rest.l, Of(od.stopLimit))
  THEN -1
  ELSE IF IF od.buy THEN od.stopLimit >= od.stop ELSE od.stopLimit <= od.stop
  THEN od.stopLimit ELSE 0

\* An order entered in an earlier bar has the whole of this one; without a limit it is
\* filled where the path meets the trigger, or at once if the bar does not hold it.
TriggerInBar ==
  /\ step = "held" /\ Hit /\ getExcPrice >= 0
  /\ exit' = IF getExcPrice > 0 THEN Of(getExcPrice)
             ELSE simMarketPrice(bar, simMarketRate(bar, od.stop, ~ od.buy, TRUE, <<0, 1>>))
  /\ step' = "stopped"
  /\ UNCHANGED <<bar, od, price, rate, rest>>

\* An order entered just now has the rest of the bar; its market price there is not
\* computed.
TriggerInRest ==
  /\ step = "cut" /\ Hit /\ getExcPrice >= 0
  /\ exit' = Of(getExcPrice)
  /\ step' = "stopped"
  /\ UNCHANGED <<bar, od, price, rate, rest>>

NoTrigger ==
  /\ step \in {"held", "cut"} /\ (~ Hit \/ getExcPrice < 0)
  /\ step' = "done"
  /\ UNCHANGED <<bar, od, price, rate, rest, exit>>
----------------------------------------------------------------------------
Init ==
  /\ bar \in Bars /\ od \in Orders
  /\ step \in {"new", "held"}
  /\ step = "held" => od.kind = "market" /\ od.min[1] = 0
  /\ price = Of(0) /\ rate = Of(0) /\ exit = Of(0)
  /\ rest = [o |-> Of(bar.o), h |-> Of(bar.h), l |-> Of(bar.l)]

Next ==
  \/ FillMarket \/ FillLimit \/ FillTrigger \/ NotFilled
  \/ Cut
  \/ TriggerInBar \/ TriggerInRest \/ NoTrigger

Spec == Init /\ [][Next]_vars
----------------------------------------------------------------------------
(* Properties *)

Rational == Int \X (Nat \ {0})
TypeOK ==
  /\ ConstantsFit
  /\ bar \in Bars /\ od \in Orders
  /\ step \in {"new", "held", "filled", "none", "cut", "stopped", "done"}
  /\ price \in Rational /\ rate \in Rational /\ exit \in Rational
  /\ \A v \in {rest.o, rest.h, rest.l} : v \in Rational

WasFilled == step \in {"filled", "cut"}

\* Limit and trigger orders are filled inside the bar, a limit order at no worse price
\* than its limit, whatever the shape of the bar and the time of the order.  A market
\* order is filled on the path, which may leave the bar in its first part only.
FillIsFair ==
  WasFilled =>
    /\ IF od.kind = "market"
       THEN \E i, j \in 1 .. 5 : Leq(Of(Corners(bar)[i]), price) /\ Leq(price, Of(Corners(bar)[j]))
       ELSE Leq(Of(bar.l), price) /\ Leq(price, Of(bar.h))
    /\ od.kind = "limit" =>
         IF od.buy THEN Leq(price, Of(od.limit)) ELSE Leq(Of(od.limit), price)

\* simMarketRate and simPriceByRate agree on the path: at the rate where a price is
\* said to be met, the path has that price.
RateMeetsPrice ==
  WasFilled /\ od.kind # "market" /\ od.min[1] = 0 /\ rate[1] # 0
    => Eq(simMarketPrice(bar, rate), Of(od.limit))

\* What the path still does after the fill.
RestOfPath ==
  {PathPrice(bar, rate)} \cup {Of(Corners(bar)[i]) : i \in (PartOf(bar, rate) + 1) .. 5}
\* From rate 0.999 on, the code cuts nothing off the bar.
OnPath == step = "cut" /\ rate[1] > 0 /\ totalLen(bar) > 0 /\ ~ Leq(<<999, 1000>>, rate)

\* A stop the price still reaches after the entry is not missed: the cut bar holds all
\* of the rest of the path, or all of it that the whole bar held.
RestHoldsPath ==
  OnPath =>
    \A p \in RestOfPath :
      Leq(Of(bar.l), p) /\ Leq(p, Of(bar.h)) => Leq(rest.l, p) /\ Leq(p, rest.h)

\* A stop is not triggered by a price from before the entry: the cut bar holds no more
\* than the rest of the path.
RestIsPath ==
  OnPath =>
    /\ \E p \in RestOfPath : Leq(rest.h, p)
    /\ \E p \in RestOfPath : Leq(p, rest.l)

\* Rising bars keep to that: their low is cut off when the path has left it.
RisingRestIsPath == Bull(bar) => RestIsPath

\* A market stop of an order entered before fills at its trigger, or at the open of a
\* bar that leaves it behind.
StopAtTrigger ==
  step = "stopped" /\ price = Of(0) /\ od.stopLimit = 0 =>
    Eq(exit, IF bar.l <= od.stop /\ od.stop <= bar.h THEN Of(od.stop) ELSE Of(bar.o))

\* An order is filled between the begin and the end of the bar, however late in the bar
\* it was placed.
RateInBar == WasFilled => Leq(Of(0), rate) /\ Leq(rate, Of(1))
=============================================================================
