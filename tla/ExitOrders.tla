------------------------------- MODULE ExitOrders -------------------------------
(* A strategy closes some of what a pair holds (strat/base.go closeOrders,     *)
(* biz/odmgr.go ExitOpenOrders): the amount is spread over the open orders,    *)
(* and an order that is to exit in part is cut in two.  One pair, one side.    *)
EXTENDS Integers, Sequences, FiniteSets, FiniteSetsExt, SequencesExt
CONSTANTS
  Amounts,    \* the amounts of the orders, a sequence
  MaxOds,     \* orders there may be, with the parts
  MaxReqs     \* requests
VARIABLES
  od,         \* the orders: amt, filled, entered (Status), exiting, tp (take profit: part of what), old (CanClose), open
  reqs,       \* requests so far
  last        \* the request just handled and the orders before it
vars == <<od, reqs, last>>

NoTp == <<0, 1>>
NewOd(amt) == [amt |-> amt, filled |-> 0, entered |-> FALSE, exiting |-> FALSE, tp |-> NoTp, old |-> FALSE, open |-> TRUE]
NoReq == [x |-> 0, filledOnly |-> FALSE, unfillOnly |-> FALSE, tp |-> FALSE, force |-> FALSE, all |-> FALSE]
NoLast == [req |-> NoReq, od |-> <<>>]
Ids == DOMAIN od
Init == od = [i \in DOMAIN Amounts |-> NewOd(Amounts[i])] /\ reqs = 0 /\ last = NoLast

(* An entry fills, and ends when it is full or the rest of it is cancelled:    *)
(* only then the Status is FullEnter, a partial fill leaves it as it was.      *)
Fill(i) ==
  /\ od[i].open /\ ~od[i].exiting /\ ~od[i].entered
  /\ od' = [od EXCEPT ![i].filled = @ + 1, ![i].entered = od[i].filled + 1 = od[i].amt]
  /\ last' = NoLast /\ UNCHANGED reqs
EntryEnds(i) ==
  /\ od[i].open /\ ~od[i].exiting /\ ~od[i].entered /\ od[i].filled > 0
  /\ od' = [od EXCEPT ![i].entered = TRUE] /\ last' = NoLast /\ UNCHANGED reqs
\* The time frame passes (CanClose); an order that exits is done.
Ages ==
  /\ \E i \in Ids : ~od[i].old
  /\ od' = [i \in Ids |-> [od[i] EXCEPT !.old = TRUE]] /\ last' = NoLast /\ UNCHANGED reqs
FinishOrder(i) ==
  /\ od[i].open /\ od[i].exiting /\ od' = [od EXCEPT ![i].open = FALSE] /\ last' = NoLast /\ UNCHANGED reqs
-----------------------------------------------------------------------------
Least(a, b) == IF a < b THEN a ELSE b
CanClose(o) == o.old /\ ~o.exiting
\* ExitOpenOrders: the orders a request is about.
Matches(o, req) ==
  /\ o.open /\ ~o.exiting
  /\ req.unfillOnly => o.filled < o.amt
  /\ req.filledOnly => o.filled > 0
Matched(ods, req) == {i \in DOMAIN ods : Matches(ods[i], req)}

(* SortFunc: a limit that takes profit and filledOnly look at the amount       *)
(* filled first, the greatest before; then at the amount not filled. Orders    *)
(* that differ in the filled amount alone count as equal. With few orders it   *)
(* is an insertion sort, from the order of a map.                              *)
Unfilled(o) == o.amt - o.filled
Before(a, b, req) ==
  LET byFill == (req.tp \/ req.filledOnly) /\ a.filled # b.filled IN
  IF byFill THEN a.filled > b.filled ELSE Unfilled(a) > Unfilled(b)
Place(ods, req, s, i) ==
  CHOOSE k \in 0 .. Len(s) :
    /\ \A j \in k + 1 .. Len(s) : Before(ods[i], ods[s[j]], req)
    /\ k = 0 \/ ~Before(ods[i], ods[s[k]], req)
Sorted(ods, req, s) ==
  FoldLeft(LAMBDA acc, i : InsertAt(acc, Place(ods, req, acc, i) + 1, i), <<>>, s)

(* CutPart: what is filled goes to the part first; the part has the parent's   *)
(* triggers and Status, also when all of it is filled.                         *)
FillOf(o, amt) == Least(o.filled, amt)
Part(o, amt) == [o EXCEPT !.amt = amt, !.filled = FillOf(o, amt)]
Rest(o, amt) == [o EXCEPT !.amt = @ - amt, !.filled = @ - FillOf(o, amt)]
SetExit(o) == [o EXCEPT !.exiting = TRUE]
LeftStays(a, i, amt) ==
  IF amt >= a.od[i].amt THEN [a EXCEPT !.od[i] = SetExit(@)]
  ELSE [a EXCEPT !.od = Append([@ EXCEPT ![i] = Rest(a.od[i], amt)], SetExit(Part(a.od[i], amt)))]
\* exitOrder: the whole order, or a part of it that is cut off.
ExitOrder(a, i, amt) ==
  IF amt >= a.od[i].amt THEN [a EXCEPT !.od[i] = SetExit(@), !.left = @ - a.od[i].amt]
  ELSE [a EXCEPT !.od = Append([@ EXCEPT ![i] = Rest(a.od[i], amt)], SetExit(Part(a.od[i], amt))),
                 !.left = @ - amt]
\* A limit beyond the price becomes the take profit of an order whose Status is entered.
SetTakeProfit(a, i) ==
  LET o == a.od[i]
      amt == Least(a.left, o.amt) IN
  [a EXCEPT !.od[i].tp = <<amt, o.amt>>, !.left = @ - amt]
\* filledOnly: the filled part of an order that is partly entered, cut off first.
CutFilled(a, i) ==
  LET amt == Least(a.left, a.od[i].filled) IN
  [a EXCEPT !.od = Append([@ EXCEPT ![i] = Rest(a.od[i], amt)], Part(a.od[i], amt))]
\* When nothing is left to exit the take profits of the orders that follow are taken away.
DropTp(a, i) == [a EXCEPT !.od[i].tp = NoTp]
\* What is left of the amount is taken of order i.
TakeOf(a, i, req) ==
  IF req.tp /\ a.od[i].entered THEN SetTakeProfit(a, i) ELSE ExitOrder(a, i, Least(a.left, a.od[i].amt))
ExitOne(a, i, req) ==
  LET o == a.od[i] IN
  IF a.done THEN (IF req.tp THEN DropTp(a, i) ELSE a)
  ELSE IF ~req.force /\ ~CanClose(o) THEN a
  ELSE IF a.left = 0 THEN (IF req.tp THEN [DropTp(a, i) EXCEPT !.done = TRUE] ELSE [a EXCEPT !.done = TRUE])
  ELSE IF req.filledOnly /\ o.filled < o.amt THEN TakeOf(CutFilled(a, i), Len(a.od) + 1, req)
  ELSE TakeOf(a, i, req)
AllAmount(ods, S) == MapThenSumSet(LAMBDA i : ods[i].amt, S)
Asked(ods, req) == IF req.x = 0 THEN AllAmount(ods, Matched(ods, req)) ELSE req.x
ExitOpenOrders(req, s) ==
  FoldLeft(LAMBDA a, i : ExitOne(a, i, req), [od |-> od, left |-> Asked(od, req), done |-> FALSE], Sorted(od, req, s)).od

CloseOrders(req) ==
  /\ reqs < MaxReqs /\ reqs' = reqs + 1 /\ Matched(od, req) # {}
  /\ \E s \in SetToSeqs(Matched(od, req)) : od' = ExitOpenOrders(req, s)
  /\ Len(od') <= MaxOds
  /\ last' = [req |-> req, od |-> od]
(* setAllExitTrigger, with a rate of the position: the orders whose Status is  *)
(* entered take profit one after the other, the last of them in part.          *)
TriggerRate(left, size) == IF left >= size THEN <<1, 1>> ELSE <<left, size>>
TriggerOne(a, i) ==
  LET size == a.od[i].filled IN
  IF size = 0 THEN a
  ELSE IF a.left = 0 THEN [a EXCEPT !.od[i].tp = NoTp]
  ELSE [a EXCEPT !.od[i].tp = TriggerRate(a.left, size), !.left = IF @ >= size THEN @ - size ELSE 0]
Entered(ods) == {i \in DOMAIN ods : ods[i].open /\ ods[i].entered}
Position(ods) == MapThenSumSet(LAMBDA i : ods[i].filled, Entered(ods))
SetAllTakeProfit(pos) ==
  /\ reqs < MaxReqs /\ reqs' = reqs + 1 /\ pos \in 1 .. Position(od) - 1
  /\ \E s \in SetToSeqs(Entered(od)) : od' = FoldLeft(TriggerOne, [od |-> od, left |-> pos], s).od
  /\ last' = [req |-> [NoReq EXCEPT !.x = pos, !.all = TRUE], od |-> od]
Requests ==
  {r \in [x : 0 .. 3, filledOnly : BOOLEAN, unfillOnly : BOOLEAN, tp : BOOLEAN, force : BOOLEAN, all : {FALSE}] : ~(r.filledOnly /\ r.unfillOnly)}
Next ==
  \/ Ages \/ (\E i \in Ids : Fill(i) \/ EntryEnds(i) \/ FinishOrder(i))
  \/ (\E req \in Requests : CloseOrders(req)) \/ \E pos \in 1 .. 3 : SetAllTakeProfit(pos)
Spec == Init /\ [][Next]_vars
-----------------------------------------------------------------------------
TypeOK ==
  /\ od \in Seq([amt : Nat \ {0}, filled : Nat, entered : BOOLEAN, exiting : BOOLEAN, tp : Nat \X (Nat \ {0}), old : BOOLEAN, open : BOOLEAN])
  /\ \A i \in Ids : od[i].filled <= od[i].amt
  /\ reqs \in 0 .. MaxReqs

Handled == last.od # <<>> /\ ~last.req.all
(* Cutting orders loses nothing: amounts and fills add up to what they were.   *)
AddsUp(ods, f(_)) == MapThenSumSet(LAMBDA i : f(ods[i]), DOMAIN ods)
CutsAddUp ==
  Handled => /\ AddsUp(od, LAMBDA o : o.amt) = AddsUp(last.od, LAMBDA o : o.amt)
             /\ AddsUp(od, LAMBDA o : o.filled) = AddsUp(last.od, LAMBDA o : o.filled)
(* A request ends as much as it asks for, of the orders it may end: their      *)
(* whole amounts, or with filledOnly what has filled.                          *)
Exiting(ods) == AllAmount(ods, {i \in DOMAIN ods : ods[i].open /\ ods[i].exiting})
MayEnd(req) == {i \in Matched(last.od, req) : req.force \/ CanClose(last.od[i])}
CanEnd(req) ==
  MapThenSumSet(LAMBDA i : IF req.filledOnly THEN last.od[i].filled ELSE last.od[i].amt, MayEnd(req))
EndsWhatIsAsked ==
  Handled /\ ~last.req.tp =>
    Exiting(od) - Exiting(last.od) = Least(Asked(last.od, last.req), CanEnd(last.req))
(* After a take profit for an amount the orders that were asked, all of which  *)
(* may close, take profit for that amount together, save what exits at once;   *)
(* with filledOnly, if none is cut: the rest of an order that is cut keeps the *)
(* take profit it had.                                                         *)
NoneCut(req) == req.filledOnly => \A i \in Matched(last.od, req) : last.od[i].filled = last.od[i].amt
TpAmount(o) == IF o.open /\ ~o.exiting THEN o.tp[1] ELSE 0
TakesProfitAsAsked ==
  Handled /\ last.req.tp /\ MayEnd(last.req) = Matched(last.od, last.req) /\ NoneCut(last.req) =>
    MapThenSumSet(LAMBDA i : TpAmount(od[i]), Matched(last.od, last.req) \cup (DOMAIN od \ DOMAIN last.od))
      + Exiting(od) - Exiting(last.od) = Least(Asked(last.od, last.req), CanEnd(last.req))
(* A trigger for a part of the position is set for that part, over all orders. *)
TriggerOf(o) == (o.tp[1] * o.filled) \div o.tp[2]
TriggersAddUp ==
  last.req.all => MapThenSumSet(LAMBDA i : TriggerOf(od[i]), Entered(od)) = last.req.x
=============================================================================
