------------------------------ MODULE ExgMatch ------------------------------
(* The orders of the exchange made into entered and closed orders of the bot   *)
(* again (opt/tools.go buildExgOrders), and compared with those of a back test *)
(* of the same time (CompareExgBTOrders).  One pair; prices and fees are left   *)
(* out.  An order that was downloaded twice is two records here.               *)
EXTENDS Integers, Sequences, FiniteSets, FiniteSetsExt, SequencesExt, TLC
CONSTANTS
  Records,   \* what may be downloaded: sequences of [id, bot, side, filled, at, done], by time
  Tests,     \* the back test: sequences of [short, enter, exit, filled]
  TF,        \* a bar
  AmtRate    \* how much amounts may differ, in hundredths
VARIABLES
  ods, bts, skips,  \* records, back test and -skip-unhit
  phase,     \* "pair", "rest", "match", "end"
  ids,       \* of orderMap, still to be paired
  temps,     \* orders left over: [rec, filled]
  lots,      \* jobMap: [ent, exit, short, amount, exitAmt, at, exitAt]; exit 0: none
  at,        \* back test orders compared
  rows       \* of the report: [tag, bt, lot]
input == <<ods, bts, skips>>
vars == <<input, phase, ids, temps, lots, at, rows>>

Init ==
  /\ ods \in Records /\ bts \in Tests /\ skips \in BOOLEAN
  /\ phase = "pair" /\ ids = {ods[i].id : i \in {j \in DOMAIN ods : ods[j].filled # 0}}
  /\ temps = {} /\ lots = <<>> /\ at = 0 /\ rows = <<>>
-----------------------------------------------------------------------------
(* buildExgOrders *)

Rest(r, filled) == [rec |-> r, filled |-> filled]
GroupOf(id) == SelectSeq([i \in DOMAIN ods |-> i], LAMBDA i : ods[i].id = id /\ ods[i].filled # 0)
Earlier(g) == IF ods[g[1]].at > ods[g[2]].at THEN <<g[2], g[1]>> ELSE g
Pairs(g) == Len(g) = 2 /\ ods[g[1]].side # ods[g[2]].side /\ ods[g[1]].bot
Lot(e, x, a, b) ==
  [ent |-> e, exit |-> x, short |-> ods[e].side = "sell", amount |-> a, exitAmt |-> b,
   at |-> ods[e].at, exitAt |-> ods[x].at]
\* The smaller amount is closed; more than a hundredth over is left for the others.
PairedLot(e, x) ==
  LET a == ods[e].filled
      b == ods[x].filled
  IN IF 100 * b > 101 * a THEN Lot(e, x, a, a) ELSE IF 100 * b < 99 * a THEN Lot(e, x, b, b) ELSE Lot(e, x, a, b)
Surplus(e, x) ==
  LET a == ods[e].filled
      b == ods[x].filled
  IN IF 100 * b > 101 * a THEN {Rest(x, b - a)} ELSE IF 100 * b < 99 * a THEN {Rest(e, a - b)} ELSE {}
PairUp ==
  /\ phase = "pair" /\ ids # {}
  /\ \E id \in ids :
       LET g == GroupOf(id) IN
         /\ ids' = ids \ {id}
         /\ IF Pairs(g)
            THEN /\ lots' = Append(lots, PairedLot(Earlier(g)[1], Earlier(g)[2]))
                 /\ temps' = temps \cup Surplus(Earlier(g)[1], Earlier(g)[2])
            ELSE temps' = temps \cup {Rest(i, ods[i].filled) : i \in Range(g)} /\ UNCHANGED lots
  /\ UNCHANGED <<input, phase, at, rows>>
Paired == phase = "pair" /\ ids = {} /\ phase' = "rest" /\ UNCHANGED <<input, ids, temps, lots, at, rows>>

(* handleExitOrders: open orders of the other side are closed, the first one   *)
(* first.  Once the amount is used up the rest of the list is not looked at,   *)
(* nor kept.                                                                   *)
Closed(lot, r, amount) == [lot EXCEPT !.exit = r, !.amount = amount, !.exitAmt = amount, !.exitAt = ods[r].done]
Close(init, r, acc, lot) ==
  IF acc.over THEN acc
  ELSE IF lot.exit # 0 \/ ods[lot.ent].side = ods[r].side THEN [acc EXCEPT !.list = Append(@, lot)]
  ELSE LET cut == 100 * acc.remain < 99 * lot.amount
           amount == IF cut THEN acc.remain ELSE lot.amount
           remain == acc.remain - amount
           kept == IF cut THEN <<[lot EXCEPT !.amount = @ - amount]>> ELSE <<>>
       IN [list |-> Append(acc.list, Closed(lot, r, amount)) \o kept,
           remain |-> remain, used |-> acc.used + amount, over |-> 100 * remain <= init]
HandleExitOrders(od, list) ==
  FoldLeft(LAMBDA acc, lot : Close(od.filled, od.rec, acc, lot),
           [list |-> <<>>, remain |-> od.filled, used |-> 0, over |-> FALSE], list)
Entered(od, amount) ==
  [ent |-> od.rec, exit |-> 0, short |-> ods[od.rec].side = "sell", amount |-> amount, exitAmt |-> 0,
   at |-> ods[od.rec].at, exitAt |-> 0]
First == {od \in temps : \A o \in temps : ods[od.rec].at <= ods[o.rec].at}
UseRest ==
  /\ phase = "rest" /\ temps # {}
  /\ \E od \in First :
       LET res == HandleExitOrders(od, lots)
           remain == od.filled - res.used
       IN /\ temps' = temps \ {od}
          /\ lots' = IF 100 * remain <= od.filled \/ ~ods[od.rec].bot THEN res.list
                     ELSE Append(res.list, Entered(od, remain))
  /\ UNCHANGED <<input, phase, ids, at, rows>>
Rested == phase = "rest" /\ temps = {} /\ phase' = "match" /\ UNCHANGED <<input, ids, temps, lots, at, rows>>
-----------------------------------------------------------------------------
(* CompareExgBTOrders *)

Abs(n) == IF n < 0 THEN -n ELSE n
Reported == {rows[i].lot : i \in DOMAIN rows}
Free == {i \in DOMAIN lots : i \notin Reported}
EntFixMS(bt) == (bt.enter \div TF) * TF
Matches(i, bt) ==
  /\ lots[i].short = bt.short /\ Abs(lots[i].at - EntFixMS(bt)) < TF
  /\ 100 * Abs(lots[i].amount - bt.filled) <= AmtRate * bt.filled
ExitDiff(i, bt) == Abs(lots[i].exitAt - bt.exit)
Nearest(bt) ==
  LET ms == {i \in Free : Matches(i, bt)} IN {i \in ms : \A j \in ms : ExitDiff(i, bt) <= ExitDiff(j, bt)}
OnTime(i, bt) == Abs(lots[i].at - bt.enter) < TF /\ ExitDiff(i, bt) < TF
Row(tag, b, i) == [tag |-> tag, bt |-> b, lot |-> i]
Compare ==
  /\ phase = "match" /\ at < Len(bts) /\ at' = at + 1
  /\ LET bt == bts[at + 1] IN
       IF skips /\ Free = {} THEN UNCHANGED rows
       ELSE IF Nearest(bt) = {} THEN rows' = Append(rows, Row("bt", at + 1, 0))
       ELSE \E i \in Nearest(bt) : rows' = Append(rows, Row(IF OnTime(i, bt) THEN "same" ELSE "wrong", at + 1, i))
  /\ UNCHANGED <<input, phase, ids, temps, lots>>
RestOfReport ==
  /\ phase = "match" /\ at = Len(bts) /\ phase' = "end"
  /\ rows' = rows \o SetToSeq({Row("exg", 0, i) : i \in Free})
  /\ UNCHANGED <<input, ids, temps, lots, at>>

Next == PairUp \/ Paired \/ UseRest \/ Rested \/ Compare \/ RestOfReport
Spec == Init /\ [][Next]_vars /\ WF_vars(Next)
-----------------------------------------------------------------------------
TypeOK ==
  /\ phase \in {"pair", "rest", "match", "end"} /\ at \in 0 .. Len(bts)
  /\ \A i \in DOMAIN lots : lots[i].ent \in DOMAIN ods /\ lots[i].exit \in DOMAIN ods \cup {0}

(* No record of the exchange is used for more than was filled, a hundredth     *)
(* aside, whether it entered, closed, or closed one order and entered another. *)
EnterOf(r) == FoldLeft(LAMBDA n, l : IF l.ent = r THEN n + l.amount ELSE n, 0, lots)
ExitOf(r) == FoldLeft(LAMBDA n, l : IF l.exit = r THEN n + l.exitAmt ELSE n, 0, lots)
FilledOnce == \A r \in DOMAIN ods : 99 * (EnterOf(r) + ExitOf(r)) <= 100 * ods[r].filled
(* An order is closed by one of the other side that came after it, and only    *)
(* orders the bot made enter.                                                  *)
LotsMakeSense ==
  \A i \in DOMAIN lots :
    /\ ods[lots[i].ent].bot /\ lots[i].amount > 0
    /\ lots[i].exit # 0 => ods[lots[i].exit].side # ods[lots[i].ent].side /\ lots[i].at <= lots[i].exitAt
(* In the report every order of the exchange is there once and none of the     *)
(* back test twice; no two orders it leaves without a partner match.           *)
ReportIsWhole ==
  /\ \A i, j \in DOMAIN rows : i # j => (rows[i].lot = 0 \/ rows[i].lot # rows[j].lot) /\ (rows[i].bt = 0 \/ rows[i].bt # rows[j].bt)
  /\ phase = "end" =>
       /\ DOMAIN lots \subseteq Reported
       /\ \A i, j \in DOMAIN rows : rows[i].tag = "bt" /\ rows[j].tag = "exg" => ~Matches(rows[j].lot, bts[rows[i].bt])
ExgMatchSound == FilledOnce /\ LotsMakeSense /\ ReportIsWhole
=============================================================================
