------------------------------ MODULE FacRoll ------------------------------
(* The rolling test of a factor that chooses pairs (opt/tools.go BtFactors):  *)
(* pairs are chosen by their orders of one period and earn what their orders   *)
(* gain in the next; orders that reach out of a period are cut at prices of    *)
(* its first and last bar (CutOrdersInRange).                                  *)
EXTENDS Integers, Sequences, FiniteSets, FiniteSetsExt, TLC
CONSTANTS
  Orders,    \* the orders.gob: sequences of [pair, enter, exit]; exit 0: never closed
  Bars,      \* of a pair: function from pairs to starts of its bars
  TF,
  MinBack, MaxBack, Interval
VARIABLES
  orders, bars,
  rangeStart, rangeEnd,
  phase,     \* "stats", "test", "end"
  chosen,    \* pairs
  stats,     \* what the factor was given: parts of orders, and the end of their period
  testOrders \* parts of orders: [od, from, to, start, end, whole]
vars == <<orders, bars, rangeStart, rangeEnd, phase, chosen, stats, testOrders>>

Ids == DOMAIN orders
Enter(i) == orders[i].enter
Exit(i) == orders[i].exit
StartMS == Min({Enter(i) : i \in Ids})
EndMS == Max({Exit(i) : i \in Ids})
Init ==
  /\ orders \in Orders /\ bars \in Bars
  /\ EndMS - StartMS >= MinBack + Interval
  /\ rangeStart = StartMS /\ rangeEnd = StartMS + MinBack
  /\ phase = "stats" /\ chosen = {} /\ stats = {} /\ testOrders = {}
-----------------------------------------------------------------------------
(* CutOrdersInRange *)

InRange(i, s, e) == Enter(i) < e /\ ~(Exit(i) > 0 /\ Exit(i) <= s)
IsWhole(i, s, e) == Enter(i) >= s /\ Exit(i) <= e
Align(t) == (t \div TF) * TF
\* GetOHLCV: bars that end by the end of the range.
BarsBefore(p, e) == {b \in bars[p] : b < Align(e)}
BarsIn(p, s, e) == {b \in BarsBefore(p, e) : b >= s}
\* Without bars in the range the orders of the pair stay as they are.
Cut(i, s, e) ==
  LET p == orders[i].pair
      openMS == Min(BarsIn(p, s, e))
      closeMS == Max(BarsBefore(p, e)) + TF
      cuts == ~IsWhole(i, s, e) /\ BarsIn(p, s, e) # {}
  IN [od |-> i, from |-> IF cuts /\ Enter(i) < openMS THEN openMS ELSE Enter(i),
      to |-> IF cuts /\ Exit(i) > closeMS THEN closeMS ELSE Exit(i), start |-> s, end |-> e,
      barred |-> BarsIn(p, s, e) # {}]
CutOrdersInRange(s, e) == {Cut(i, s, e) : i \in {x \in Ids : InRange(x, s, e)}}
-----------------------------------------------------------------------------
Rolls == 5 * rangeEnd + Interval < 5 * EndMS
\* facFunc is external: it may choose any pairs that had orders in the period.
Choose ==
  /\ phase = "stats" /\ Rolls
  /\ LET parts == CutOrdersInRange(rangeStart, rangeEnd) IN
       /\ stats' = stats \cup parts
       /\ chosen' \in SUBSET {orders[x.od].pair : x \in parts}
  /\ phase' = "test" /\ UNCHANGED <<orders, bars, rangeStart, rangeEnd, testOrders>>
Test ==
  /\ phase = "test" /\ phase' = "stats"
  /\ testOrders' = testOrders \cup {x \in CutOrdersInRange(rangeEnd, rangeEnd + Interval) : orders[x.od].pair \in chosen}
  /\ rangeEnd' = rangeEnd + Interval
  /\ rangeStart' = IF rangeEnd' - rangeStart > MaxBack THEN rangeEnd' - MaxBack ELSE rangeStart
  /\ UNCHANGED <<orders, bars, chosen, stats>>
Finish ==
  /\ phase = "stats" /\ ~Rolls /\ phase' = "end"
  /\ UNCHANGED <<orders, bars, rangeStart, rangeEnd, chosen, stats, testOrders>>
Next == Choose \/ Test \/ Finish
Spec == Init /\ [][Next]_vars /\ WF_vars(Next)
-----------------------------------------------------------------------------
TypeOK ==
  /\ phase \in {"stats", "test", "end"} /\ rangeStart <= rangeEnd
  /\ \A x \in testOrders : x.od \in Ids

\* Parts of closed orders in a range that has bars of their pair.
Cuttable(x) == x.barred /\ Exit(x.od) > 0
(* Pairs are chosen by nothing that happened after the period they are chosen  *)
(* by, where there are bars to cut by (CutOrdersInRange).                      *)
ChosenByThePast == \A x \in stats : Cuttable(x) => x.to <= x.end
(* What an order gains is counted once: the parts of it that several periods   *)
(* test do not overlap, and lie within the order and the period.               *)
PartsDisjoint ==
  /\ \A x, y \in testOrders : x.od = y.od /\ x.start < y.start /\ Cuttable(x) /\ Cuttable(y) => x.to <= y.from
  /\ \A x \in testOrders : Cuttable(x) =>
       x.from >= x.start /\ x.to <= x.end /\ x.from >= Enter(x.od) /\ x.to <= Exit(x.od)
(* Periods tested follow each other without a gap up to the end of the orders, *)
(* but for less than a fifth of a period.                                      *)
RollsToEnd == phase = "end" => 5 * (EndMS - rangeEnd) <= Interval
FacRollSound == ChosenByThePast /\ PartsDisjoint /\ RollsToEnd
=============================================================================
