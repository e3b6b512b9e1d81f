----------------------------- MODULE LiveRecovery ---------------------------
(* A live bot starts again (biz/odmgr_live.go): SyncExgOrders brings the open *)
(* orders of the database in line with the exchange's orders and positions,   *)
(* and SyncLocalOrders does so at intervals. One account, the long side of    *)
(* one pair; the steps of a running bot are those of LiveOrder in short.      *)
EXTENDS Naturals, Sequences, FiniteSets, FiniteSetsExt, SequencesExt
CONSTANTS
  Amount,    \* the amounts of the bot's orders, a sequence
  MaxLoc,    \* local orders there may be, with parts and those taken over
  TakeOver,  \* a strategy takes over positions of others (take_over_strat)
  MaxUser,   \* what the user does at the exchange by hand
  Cancels,   \* the user cancels orders of the bot, too
  MaxOrders  \* orders at the exchange, all together
VARIABLES
  now, ex,   \* the exchange: its clock, its orders by id
  loc,       \* local orders, as they are in the database
  sent,      \* orders the exchange has, whose answer is not saved
  phase,
  open, since, todo, snap, \* open orders and positions fetched; lastOrderMS; orders to restore
  users, heard, kept
vars == <<now, ex, loc, sent, phase, open, since, todo, snap, users, heard, kept>>

Ids == 1 .. MaxLoc
Own == DOMAIN Amount
NoSub == [id |-> 0, st |-> "none", amt |-> 0, filled |-> 0, at |-> 0]
NewSub(amt) == [id |-> 0, st |-> "init", amt |-> amt, filled |-> 0, at |-> now]
None == [st |-> "none", enter |-> NoSub, exit |-> NoSub]
Hold(od) == od.enter.filled - od.exit.filled
IsOpen(od) == od.st \in {"init", "fullEnter"}
Opens(l) == {o \in Ids : IsOpen(l[o])}
HoldAll(l) == MapThenSumSet(LAMBDA o : Hold(l[o]), Opens(l))
FilledOf(dir) == MapThenSumSet(LAMBDA i : ex[i].filled, {i \in DOMAIN ex : ex[i].dir = dir})
Pos == FilledOf("open") - FilledOf("close")
Running == phase \in {"up", "live"}
Listening == Running \/ phase = "sync"

Init ==
  /\ now = 0 /\ ex = <<>> /\ loc = [o \in Ids |-> None] /\ sent = {} /\ phase = "up"
  /\ open = <<>> /\ since = 0 /\ todo = {} /\ snap = 0
  /\ users = 0 /\ heard = {} /\ kept = loc

\* SetExit, LocalExit.
SetExit(od) == IF od.exit.st = "none" THEN NewSub(od.enter.filled) ELSE od.exit
LocalExit(od) ==
  [od EXCEPT !.st = "fullExit", !.enter.st = "closed",
             !.exit = [SetExit(od) EXCEPT !.st = "closed", !.filled = od.enter.filled]]

(* updateOdByExgRes: the answer to a call, unless it is older than what is    *)
(* known of the order.                                                        *)
Older(sub, r) == sub.at > r.at
Applied(sub, i, r) ==
  IF Older(sub, r) THEN [sub EXCEPT !.id = i]
  ELSE [sub EXCEPT !.id = i, !.at = r.at, !.amt = IF @ = 0 THEN r.amt ELSE @,
                   !.filled = IF r.filled > 0 THEN r.filled ELSE @,
                   !.st = IF r.done THEN "closed" ELSE IF r.filled > 0 THEN "part" ELSE @]
Side(od, isEnter) == IF isEnter THEN od.enter ELSE od.exit
UpdateOdByExgRes(od, isEnter, i, r) ==
  LET new == IF isEnter THEN [od EXCEPT !.enter = Applied(@, i, r)] ELSE [od EXCEPT !.exit = Applied(@, i, r)] IN
  IF Older(Side(od, isEnter), r) \/ ~r.done THEN new
  ELSE [new EXCEPT !.st = IF (r.filled = 0) = isEnter THEN "fullExit" ELSE "fullEnter"]
-----------------------------------------------------------------------------
(* The bot runs: the entry is saved, sent, and its answer saved.              *)
Quiet == UNCHANGED <<open, since, todo, snap, phase, users, heard, kept>>
EnterOrder(o) ==
  /\ phase = "up" /\ loc[o] = None /\ \A x \in 1 .. o - 1 : loc[x] # None
  /\ loc' = [loc EXCEPT ![o] = [None EXCEPT !.st = "init", !.enter = NewSub(Amount[o])]]
  /\ UNCHANGED <<now, ex, sent>> /\ Quiet
AskExit(o) ==
  /\ Running /\ IsOpen(loc[o]) /\ loc[o].exit.st = "none" /\ loc[o].enter.id # 0
  /\ loc' = [loc EXCEPT ![o].exit = NewSub(loc[o].enter.filled)]
  /\ UNCHANGED <<now, ex, sent>> /\ Quiet
Ordered(dir, amt, filled) ==
  /\ Len(ex) < MaxOrders
  /\ now' = now + 1
  /\ ex' = Append(ex, [dir |-> dir, amt |-> amt, filled |-> filled, done |-> amt = filled, ts |-> now + 1, at |-> now + 1])
CreateOrder(o, isEnter) ==
  LET sub == Side(loc[o], isEnter) IN
  /\ Running /\ IsOpen(loc[o]) /\ sent = {} /\ sub.st = "init" /\ sub.id = 0
  /\ isEnter => loc[o].exit.st = "none"
  /\ ~isEnter => loc[o].enter.st = "closed"
  /\ Ordered(IF isEnter THEN "open" ELSE "close", IF sub.amt = 0 THEN loc[o].enter.filled ELSE sub.amt, 0)
  /\ sent' = {[od |-> o, isEnter |-> isEnter, id |-> Len(ex) + 1]}
  /\ UNCHANGED loc /\ Quiet
SaveAnswer ==
  \E s \in sent :
    /\ sent' = sent \ {s}
    /\ loc' = [loc EXCEPT ![s.od] = UpdateOdByExgRes(@, s.isEnter, s.id, ex[s.id])]
    /\ UNCHANGED <<now, ex>> /\ Quiet

(* tryExitPendingEnter: an entry that is still open is cancelled; one without *)
(* a fill ends the order.                                                     *)
NotEntered(od) == [od EXCEPT !.st = "fullExit", !.enter.st = "closed", !.exit = [SetExit(od) EXCEPT !.st = "closed"]]
Cancelled(od) ==
  LET i == od.enter.id
      filled == IF i = 0 THEN od.enter.filled ELSE ex[i].filled
      new == [od EXCEPT !.enter.st = "closed", !.enter.filled = filled, !.enter.at = IF i = 0 THEN @ ELSE now + 1] IN
  IF filled = 0 THEN NotEntered(new) ELSE [new EXCEPT !.st = "fullEnter"]
CancelAtExchange(i) ==
  IF i = 0 \/ ex[i].done THEN UNCHANGED <<ex, now>>
  ELSE now' = now + 1 /\ ex' = [ex EXCEPT ![i].done = TRUE, ![i].at = now + 1]
TryExitPendingEnter(o) ==
  /\ Running /\ IsOpen(loc[o]) /\ sent = {} /\ loc[o].exit.st = "init" /\ loc[o].enter.st # "closed"
  /\ CancelAtExchange(loc[o].enter.id) /\ loc' = [loc EXCEPT ![o] = Cancelled(@)]
  /\ UNCHANGED sent /\ Quiet

(* Orders fill at the exchange; a running bot hears of it at once.            *)
Traded(sub, i, filled) ==
  [sub EXCEPT !.filled = filled, !.at = now + 1, !.st = IF filled = ex[i].amt THEN "closed" ELSE "part"]
UpdateByMyTrade(od, i, filled) ==
  LET done == filled = ex[i].amt IN
  IF od.enter.id = i /\ od.enter.st # "closed"
  THEN [od EXCEPT !.enter = Traded(@, i, filled), !.st = IF done THEN "fullEnter" ELSE @]
  ELSE IF od.exit.id = i /\ od.exit.st # "closed"
  THEN [od EXCEPT !.exit = Traded(@, i, filled), !.st = IF done THEN "fullExit" ELSE @]
  ELSE od
Fill(i) ==
  /\ ~ex[i].done /\ \A s \in sent : s.id # i
  /\ ex[i].dir = "close" => Pos > 0
  /\ now' = now + 1
  /\ LET filled == ex[i].filled + 1 IN
     /\ ex' = [ex EXCEPT ![i].filled = filled, ![i].done = filled = ex[i].amt, ![i].at = now + 1]
     /\ loc' = IF Listening THEN [o \in Ids |-> IF IsOpen(loc[o]) THEN UpdateByMyTrade(loc[o], i, filled) ELSE loc[o]]
               ELSE loc
  /\ UNCHANGED sent /\ Quiet

(* The user trades by hand, or cancels an order of the bot.                   *)
UserDoes == users < MaxUser /\ phase # "up" /\ users' = users + 1
            /\ UNCHANGED <<loc, sent, phase, open, since, todo, snap, kept>>
\* The trade of another's order is kept apart by a bot that runs (handleMyTrade).
IsHeard == heard' = IF Listening THEN heard \cup {Len(ex) + 1} ELSE heard
UserOpens == Ordered("open", 1, 1) /\ IsHeard /\ UserDoes
UserCloses == Pos > 0 /\ Ordered("close", 1, 1) /\ IsHeard /\ UserDoes
UserCancels == Cancels /\ (\E i \in DOMAIN ex : ~ex[i].done /\ CancelAtExchange(i)) /\ heard' = heard /\ UserDoes
-----------------------------------------------------------------------------
(* The bot stops and starts again.                                            *)
Crash ==
  /\ phase = "up" /\ phase' = "down" /\ sent' = {} /\ kept' = loc
  /\ UNCHANGED <<now, ex, loc, open, since, todo, snap, users, heard>>

Newest(S) == FoldSet(LAMBDA x, y : IF x > y THEN x ELSE y, 0, S)
\* SyncExgOrders: the open orders of the exchange and of the database; the latest time of these.
LastOrderMS ==
  Newest(UNION {{loc[o].enter.at, loc[o].exit.at} : o \in {x \in Opens(loc) : loc[x].enter.id # 0}})
SyncExgOrders ==
  /\ phase = "down" /\ phase' = "restore"
  /\ open' = [i \in {j \in DOMAIN ex : ~ex[j].done} |-> ex[i]] /\ since' = LastOrderMS /\ todo' = Opens(loc)
  /\ UNCHANGED <<now, ex, loc, sent, snap, users, heard, kept>>

(* restoreInOutOrder: an entry that was not sent is dropped, an order that    *)
(* was sent gets its state at the exchange, an exit that was not is repeated. *)
AtExchange(i) == IF i \in DOMAIN open THEN open[i] ELSE ex[i]
Restored(od) ==
  LET isEnter == od.exit.st = "none"
      sub == Side(od, isEnter) IN
  IF isEnter /\ sub.id = 0 /\ sub.st = "init" THEN LocalExit(od)
  ELSE IF sub.id # 0 /\ sub.st # "closed" THEN UpdateOdByExgRes(od, isEnter, sub.id, AtExchange(sub.id))
  ELSE IF isEnter THEN od
  ELSE LET new == IF od.enter.st = "closed" THEN od ELSE Cancelled(od) IN
       IF sub.st = "closed" THEN [new EXCEPT !.st = "fullExit"] ELSE new
CancelsEnter(od) == od.exit.st # "none" /\ (od.exit.id = 0 \/ od.exit.st = "closed") /\ od.enter.st # "closed"
RestoreInOutOrder(o) ==
  /\ phase = "restore" /\ o \in todo /\ todo' = todo \ {o}
  /\ loc' = [loc EXCEPT ![o] = Restored(@)]
  /\ CancelAtExchange(IF CancelsEnter(loc[o]) THEN loc[o].enter.id ELSE 0)
  /\ UNCHANGED <<sent, phase, open, since, snap, users, heard, kept>>
FetchPositions ==
  /\ phase = "restore" /\ todo = {} /\ phase' = "history" /\ snap' = Pos
  /\ UNCHANGED <<now, ex, loc, sent, open, since, todo, users, heard, kept>>
-----------------------------------------------------------------------------
(* syncPairOrders: the exchange's orders since then are applied to the open   *)
(* ones, as if others had made them; those left without a position are closed.*)
Free(l) == CHOOSE o \in Ids : l[o] = None /\ \A x \in Ids : l[x] = None => o <= x
HasFree(l) == \E o \in Ids : l[o] = None
\* createInOutOd
TakenOver(amt, i, at) ==
  [st |-> "fullEnter", exit |-> NoSub, enter |-> [id |-> i, st |-> "closed", amt |-> amt, filled |-> amt, at |-> at]]
Added(acc, od) ==
  IF HasFree(acc.l) THEN [acc EXCEPT !.l = [@ EXCEPT ![Free(acc.l)] = od], !.cur = Append(@, Free(acc.l))] ELSE acc

SmallerAmount(sub, amt) == [sub EXCEPT !.amt = @ - amt]
\* ExOrder.CutPart: what is left of a sub-order after a part of amt is cut off.
Without(sub, amt) ==
  LET left == IF sub.filled <= amt THEN 0 ELSE sub.filled - amt IN
  [sub EXCEPT !.amt = @ - amt, !.filled = left, !.st = IF left >= sub.amt - amt THEN "closed" ELSE @]
Least(a, b) == IF a < b THEN a ELSE b
\* CutPart: the rest keeps its exit order for what it still has to exit.
Rest(od, amt) ==
  LET enter == Without(od.enter, amt) IN
  [od EXCEPT !.enter = enter,
             !.exit = IF @.amt > enter.amt THEN Without(@, @.amt - enter.amt) ELSE @]
(* tryFillExit: an order takes what it can of the amount sold, and a part of  *)
(* it is closed when that is less than it holds.                              *)
TryFillExit(acc, o, h) ==
  LET od == acc.l[o]
      ava == IF od.exit.amt > 0 THEN od.exit.amt - od.exit.filled ELSE od.enter.filled
      amt == Least(ava, acc.amt)
      cut == (od.exit.amt > 0 /\ ava < od.exit.amt) \/ acc.amt < ava IN
  IF od.enter.filled = 0 THEN [acc EXCEPT !.l = [@ EXCEPT ![o] = LocalExit(od)]]
  ELSE IF cut THEN [acc EXCEPT !.amt = @ - amt, !.l = [@ EXCEPT ![o] = Rest(od, amt)]]
  ELSE [acc EXCEPT !.amt = @ - amt,
                   !.l = [@ EXCEPT ![o] = [od EXCEPT !.st = "fullExit", !.exit =
                            [id |-> h, st |-> "closed", filled |-> amt, at |-> ex[h].at,
                             amt |-> IF od.exit.st = "none" THEN od.enter.amt ELSE @.amt]]]]
EnteredBefore(od, h) == od.enter.at <= ex[h].at
ApplyClose(acc, h) ==
  FoldLeft(LAMBDA a, o : IF a.amt > 0 /\ EnteredBefore(a.l[o], h) THEN TryFillExit(a, o, h) ELSE a,
           [acc EXCEPT !.amt = ex[h].filled], acc.cur)
ApplyHisOrder(acc, h) ==
  IF ex[h].dir = "open"
  THEN IF TakeOver THEN Added(acc, TakenOver(ex[h].filled, h, ex[h].at)) ELSE acc
  ELSE LET a == ApplyClose(acc, h) IN
       IF TakeOver /\ a.amt > 0 THEN Added(a, TakenOver(a.amt, h, ex[h].at)) ELSE a

\* Each order compared with the whole of the position.
MatchEach(acc, o) ==
  IF Hold(acc.l[o]) > 0 /\ acc.amt = 0 THEN [acc EXCEPT !.l = [@ EXCEPT ![o] = LocalExit(acc.l[o])]] ELSE acc
\* An order keeps its place if any of the position is left for it.
Match(acc, o) ==
  LET od == acc.l[o] IN
  IF Hold(od) = 0
  THEN IF od.st = "init" /\ od.enter.id = 0 THEN [acc EXCEPT !.l = [@ EXCEPT ![o] = LocalExit(od)]] ELSE acc
  ELSE IF Hold(od) < 0
  THEN [acc EXCEPT !.l = [@ EXCEPT ![o] = IF IsOpen(od) THEN LocalExit(od) ELSE od]]
  ELSE [acc EXCEPT !.amt = IF @ < Hold(od) THEN 0 ELSE @ - Hold(od),
                   !.l = IF acc.amt = 0 THEN [@ EXCEPT ![o] = LocalExit(od)] ELSE @]
History == SetToSortSeq({i \in DOMAIN ex : ex[i].done /\ ex[i].ts >= since}, LAMBDA i, j : ex[i].ts < ex[j].ts)
\* createOdFromPos: what no order holds becomes an order of its own.
LeaveRest(acc) == acc
TakeRest(acc) == IF TakeOver /\ acc.amt > 0 THEN Added(acc, TakenOver(acc.amt, 0, now)) ELSE acc
Synced(cur) ==
  LET acc == [l |-> loc, cur |-> cur, amt |-> 0]
      his == IF cur = <<>> THEN acc ELSE FoldLeft(ApplyHisOrder, acc, History)
      fit == FoldLeft(Match, [his EXCEPT !.amt = snap], his.cur) IN
  TakeRest(fit).l
SyncPairOrders ==
  /\ phase = "history" /\ phase' = "live"
  /\ \E cur \in SetToSeqs(Opens(loc)) : loc' = Synced(cur)
  /\ snap' = 0 /\ since' = 0 /\ open' = <<>> /\ kept' = [o \in Ids |-> None]
  /\ UNCHANGED <<now, ex, sent, todo, users, heard>>
-----------------------------------------------------------------------------
(* TrialUnMatchesForever, seconds later: another's order closes open orders   *)
(* (bnbExitByMyOrder). What opens a position is not followed, with a strategy *)
(* that takes over either: makeInOutOd asks for the wrong outcome of          *)
(* GetTakeOverTF.                                                             *)
TrialUnMatches(i) ==
  /\ phase # "up" /\ Listening /\ i \in heard /\ sent = {} /\ heard' = heard \ {i}
  /\ \E cur \in SetToSeqs(Opens(loc)) :
       loc' = IF ex[i].dir = "open" THEN loc
              ELSE FoldLeft(LAMBDA a, o : IF a.amt > 0 THEN TryFillExit(a, o, i) ELSE a,
                            [l |-> loc, cur |-> cur, amt |-> ex[i].filled], cur).l
  /\ UNCHANGED <<now, ex, sent, phase, open, since, todo, snap, users, kept>>
-----------------------------------------------------------------------------
(* SyncLocalOrders, every minute: orders beyond the position are closed, the  *)
(* largest first, unless one was entered within the last twenty seconds;      *)
(* the positions come within that time.                                       *)
FetchPositionsAgain ==
  /\ phase = "live" /\ phase' = "sync" /\ snap' = Pos /\ since' = now /\ kept' = loc
  /\ UNCHANGED <<now, ex, loc, sent, open, todo, users, heard>>
Settled == \A o \in Opens(loc) : loc[o].enter.at <= since
AnyTime == TRUE
MayClose == Settled
CloseExtra(acc, o) ==
  LET od == acc.l[o] IN
  IF acc.amt = 0 \/ Hold(od) = 0 THEN acc
  ELSE IF Hold(od) > acc.amt THEN [acc EXCEPT !.amt = 0, !.l = [@ EXCEPT ![o] = Rest(od, acc.amt)]]
  ELSE [acc EXCEPT !.amt = @ - Hold(od), !.l = [@ EXCEPT ![o] = LocalExit(od)]]
BySize == SetToSortSeq(Opens(loc), LAMBDA a, b : Hold(loc[a]) > Hold(loc[b]) \/ (Hold(loc[a]) = Hold(loc[b]) /\ a < b))
SyncLocalOrders ==
  /\ phase = "sync" /\ phase' = "live"
  /\ loc' = IF MayClose /\ HoldAll(loc) > snap
            THEN FoldLeft(CloseExtra, [l |-> loc, amt |-> HoldAll(loc) - snap], BySize).l ELSE loc
  /\ snap' = 0 /\ since' = 0 /\ kept' = [o \in Ids |-> None]
  /\ UNCHANGED <<now, ex, sent, open, todo, users, heard>>
-----------------------------------------------------------------------------
BotSteps == (\E o \in Own : EnterOrder(o)) \/ (\E o \in Ids : AskExit(o) \/ TryExitPendingEnter(o))
            \/ (\E o \in Ids, isEnter \in BOOLEAN : CreateOrder(o, isEnter)) \/ SaveAnswer
Others == (\E i \in DOMAIN ex : Fill(i)) \/ UserOpens \/ UserCloses \/ UserCancels
Restart == (\E i \in heard : TrialUnMatches(i)) \/ Crash \/ SyncExgOrders \/ (\E o \in Ids : RestoreInOutOrder(o)) \/ FetchPositions \/ SyncPairOrders
Next == BotSteps \/ Others \/ Restart \/ FetchPositionsAgain \/ SyncLocalOrders
Spec == Init /\ [][Next]_vars
-----------------------------------------------------------------------------
Subs == [id : Nat, st : {"none", "init", "part", "closed"}, amt : Nat, filled : Nat, at : Nat]
TypeOK ==
  /\ now \in Nat /\ phase \in {"up", "down", "restore", "history", "live", "sync"}
  /\ loc \in [Ids -> [st : {"none", "init", "fullEnter", "fullExit"}, enter : Subs, exit : Subs]]
  /\ \A o \in Ids : loc[o].enter.id <= Len(ex) /\ loc[o].exit.id <= Len(ex) /\ loc[o].enter.filled <= loc[o].enter.amt
  /\ \A i \in DOMAIN ex : ex[i].filled <= ex[i].amt /\ ex[i].at <= now
  /\ todo \subseteq Ids /\ snap \in Nat /\ Cardinality(sent) <= 1

Restarted == phase = "history" /\ phase' = "live"
(* After a restart only one open order may hold more than is left of the      *)
(* position for it: none is kept that has no position at all.                 *)
BackedStep ==
  Restarted /\ HoldAll(loc') > 0 =>
    \E o \in Ids : Hold(loc'[o]) > 0 /\ HoldAll([loc' EXCEPT ![o] = None]) < snap
(* With a strategy that takes over positions, the open orders hold all of the *)
(* position the exchange reported, if no order is to exit in part (such an    *)
(* order is closed with what it has left) and there is room for orders.       *)
InPart(od) == od.exit.amt \notin {0, od.enter.filled}
TrackedStep ==
  Restarted /\ TakeOver /\ HasFree(loc') /\ (\A o \in Ids : ~InPart(loc[o])) => HoldAll(loc') >= snap
(* SyncLocalOrders closes no order while all were backed by the positions it  *)
(* asked for, though orders fill between that call and its answer's use.      *)
SpareStep == phase = "sync" /\ phase' = "live" /\ HoldAll(kept) <= snap => UNCHANGED loc
=============================================================================
