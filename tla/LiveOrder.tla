----------------------------- MODULE LiveOrder -----------------------------
(***************************************************************************)
(* The life of the orders of one live account on one contract pair: the    *)
(* strategy goroutine that opens, edits and exits orders, the goroutine    *)
(* that consumes the order queue, the goroutine that applies the trades    *)
(* the exchange pushes, and the exchange itself (external).                *)
(*                                                                         *)
(* An InOutOrder has an Enter and an Exit sub-order and a stop loss.  A    *)
(* handler holds the lock of its order while it talks to the exchange, so  *)
(* each exchange call is a step of its own: the exchange, the strategy and *)
(* the other handler move between the call and the use of its answer.      *)
(* Money is counted in lots; Amount lots are asked for by every entry.     *)
(***************************************************************************)
EXTENDS Integers, Sequences, FiniteSets, FiniteSetsExt

CONSTANTS
  Orders,      \* ids of the InOutOrders the strategy may open
  Stops,       \* those of them that carry a stop loss
  Amount,      \* lots an entry asks for
  MaxEdits,    \* bound: edits of the stop loss of one order
  QueueCap,    \* capacity of the order queue (1000 in the code)
  InOrder,     \* TRUE: trades arrive in the order the exchange sent them
  Duplicates,  \* TRUE: a trade may arrive more than once
  Errors,      \* TRUE: a call to the exchange may fail
  Expires      \* TRUE: the exchange may cancel a resting order by itself

ASSUME ConstantsAssumption ==
  /\ Orders # {} /\ Stops \subseteq Orders
  /\ Amount \in Nat \ {0}
  /\ MaxEdits \in Nat
  /\ QueueCap \in Nat \ {0}
  /\ {InOrder, Duplicates, Errors, Expires} \subseteq BOOLEAN

Threads == {"queue", "trade"}

VARIABLES
  ord,         \* the InOutOrder of each id, as the process holds it
  db,          \* the same record as the database holds it
  exitReq,     \* orders the strategy found exitable and is about to exit
  queue,       \* LiveOrderMgr.queue
  run,         \* what each handler goroutine is doing, on which order
  doneKeys,    \* exchange orders known to be completed
  exgIdMap,    \* exchange orders mapped to their InOutOrder
  doneTrades,  \* trades already applied, by their id
  exo,         \* the exchange: its orders, in the order they were created
  net,         \* trades sent by the exchange and not yet received
  clock        \* the exchange's time, one tick per event

local == <<ord, db, exitReq, queue, run, doneKeys, exgIdMap, doneTrades>>
exchange == <<exo, net, clock>>
vars == <<ord, db, exitReq, queue, run, doneKeys, exgIdMap, doneTrades, exo, net, clock>>
----------------------------------------------------------------------------
(* Data *)

\* ExOrder: st "None" is a nil pointer, oid 0 an empty OrderID.
SubOrder == [st : {"None", "Init", "PartOK", "Closed"}, oid : Nat,
             filled : 0 .. Amount, amt : 0 .. Amount, upd : Nat]
NoSub == [st |-> "None", oid |-> 0, filled |-> 0, amt |-> 0, upd |-> 0]
NewSub(amt, now) == [st |-> "Init", oid |-> 0, filled |-> 0, amt |-> amt, upd |-> now]

\* TriggerState of the stop loss: old is "Old equals the wanted trigger"; edits
\* only counts towards MaxEdits.
StopState == [old : BOOLEAN, oid : Nat, edits : 0 .. MaxEdits]

InOutOrder == [status : {"None", "Init", "FullEnter", "FullExit"}, exitTag : BOOLEAN,
               enter : SubOrder, exit : SubOrder, stop : StopState]
NoOrder == [status |-> "None", exitTag |-> FALSE, enter |-> NoSub, exit |-> NoSub,
            stop |-> [old |-> FALSE, oid |-> 0, edits |-> 0]]

\* What the exchange says of one of its orders, in a response or a trade.
\* "live" is any state that is not done; the last three are error codes.
Report == [ex : Nat, filled : 0 .. Amount, at : Nat,
           st : {"live", "filled", "canceled", "err", "reduceOnly", "immediate"}]
Failed(code) == [ex |-> 0, filled |-> 0, at |-> 0, st |-> code]
IsOrderDone(r) == r.st \in {"filled", "canceled"}

ExgOrder == [od : Orders, kind : {"enter", "exit", "stop"}, amt : 0 .. Amount,
             filled : 0 .. Amount, st : {"live", "filled", "canceled"}]

OdQItem == [od : Orders, act : {"Enter", "Exit", "StopLoss"}]

\* The process's own time: it runs with the exchange's, and a trade is handled in
\* the millisecond it happened in only when the process's clock is behind.
Now == {clock, clock + 1}

Idle == [at |-> "idle", od |-> CHOOSE o \in Orders : TRUE, res |-> Failed("err")]
Work == [at : {"idle", "wait", "entered", "canceled", "exit", "exited",
               "stop", "stopped", "cleanup", "save"},
         od : Orders, res : Report]

TypeOK ==
  /\ ord \in [Orders -> InOutOrder]
  /\ db \in [Orders -> InOutOrder]
  /\ exitReq \in SUBSET Orders
  /\ queue \in Seq(OdQItem)
  /\ run \in [Threads -> Work]
  /\ doneKeys \in SUBSET Nat
  /\ exgIdMap \in SUBSET Nat
  /\ doneTrades \in SUBSET Nat
  /\ exo \in Seq(ExgOrder)
  /\ net \in SUBSET Report
  /\ clock \in Nat

openOds == {o \in Orders : db[o].status \in {"Init", "FullEnter"}}

DirtyEnterOnly(o) == ord[o].enter # db[o].enter
IsDirty(o) == ord[o] # db[o]
----------------------------------------------------------------------------
(* What the methods of an order do to it *)

SetExit(od, now) ==
  [od EXCEPT !.exitTag = TRUE,
             !.exit = IF @.st = "None" THEN NewSub(od.enter.filled, now) ELSE @]

\* Force the order closed here, as if what was entered had been exited.
LocalExit(od, now) ==
  LET set == SetExit(od, now) IN
  [set EXCEPT !.status = "FullExit", !.enter.st = "Closed",
              !.exit.st = "Closed", !.exit.filled = od.enter.filled]

\* The part of updateOdByExgRes that writes the sub-order.
Answered(sub, r) ==
  IF sub.upd > r.at THEN [sub EXCEPT !.oid = r.ex]
  ELSE [sub EXCEPT !.oid = r.ex, !.upd = r.at,
                   !.filled = IF r.filled > 0 THEN r.filled ELSE @,
                   !.st = IF IsOrderDone(r) THEN "Closed"
                          ELSE IF r.filled > 0 THEN "PartOK" ELSE @]

\* updateOdByExgRes for the entry and for the exit.
EnterAnswered(od, r) ==
  [od EXCEPT !.enter = Answered(@, r),
             !.status = IF od.enter.upd > r.at \/ ~ IsOrderDone(r) THEN @
                        ELSE IF r.filled = 0 THEN "FullExit" ELSE "FullEnter"]
ExitAnswered(od, r) ==
  [od EXCEPT !.exit = Answered(@, r),
             !.status = IF od.exit.upd > r.at \/ ~ IsOrderDone(r) THEN @
                        ELSE IF r.filled = 0 THEN "FullEnter" ELSE "FullExit"]

\* The part of updateByMyTrade that writes the sub-order; a trade older than
\* what was applied, and a trade of a closed sub-order, are skipped.
SkippedIfClosed(sub, t) == sub.st = "Closed"
Skipped(sub, t) == t.at < sub.upd \/ sub.st = "Closed"

\* The filled amount of a trade is cumulative.
TradedSum(sub, t) ==
  [sub EXCEPT !.upd = t.at, !.filled = @ + t.filled,
              !.st = IF t.st = "live" THEN "PartOK" ELSE "Closed"]
Traded(sub, t) ==
  IF t.st = "canceled" THEN [sub EXCEPT !.upd = t.at, !.st = "Closed"]
  ELSE [sub EXCEPT !.upd = t.at, !.filled = t.filled,
                   !.st = IF t.st = "filled" THEN "Closed" ELSE "PartOK"]

EnterTraded(od, t) ==
  IF Skipped(od.enter, t) THEN od
  ELSE [od EXCEPT !.enter = Traded(@, t),
                  !.status = CASE t.st = "filled" -> "FullEnter"
                               [] t.st = "canceled" ->
                                    IF od.enter.filled = 0 THEN "FullExit" ELSE "FullEnter"
                               [] OTHER -> @]
ExitTradedByAnyFill(od, t) ==
  IF Skipped(od.exit, t) THEN od
  ELSE [od EXCEPT !.exit = Traded(@, t), !.status = "FullExit"]
ExitTraded(od, t) ==
  IF Skipped(od.exit, t) THEN od
  ELSE [od EXCEPT !.exit = Traded(@, t),
                  !.status = IF t.st = "filled" THEN "FullExit" ELSE @]

\* A trade of the stop order fills the exit sub-order, made here if need be; a
\* trade that belongs to no known sub-order changes nothing.
ByMyTrade(od, kind, t, now) ==
  IF kind = "enter" THEN EnterTraded(od, t)
  ELSE IF od.exit.st # "None" THEN ExitTraded(od, t)
  ELSE IF od.stop.oid = t.ex THEN ExitTraded(SetExit(od, now), t)
  ELSE od

\* The stop order's id is forgotten once it closed the order.
StopForgotten(od, t) == IF od.status = "FullExit" THEN [od EXCEPT !.stop.oid = 0] ELSE od
StopSpent(od, t) ==
  IF od.status = "FullExit" /\ od.stop.oid = t.ex THEN [od EXCEPT !.stop.oid = 0] ELSE od
----------------------------------------------------------------------------
(* The exchange *)

\* Lots of the position that are held now.
Held == MapThenSumSet(LAMBDA x : IF exo[x].kind = "enter" THEN exo[x].filled
                                 ELSE - exo[x].filled, DOMAIN exo)

ReportOf(x, e) == [ex |-> x, filled |-> e.filled, at |-> clock + 1, st |-> e.st]

\* CreateOrder: accepted with some lots filled at once, or refused.  The answer
\* waits in run[g].res for the handler's next step.
CreateOrder(g, o, kind, amt, next) ==
  \/ \E f \in 0 .. amt :
       LET e == [od |-> o, kind |-> kind, amt |-> amt, filled |-> f,
                 st |-> IF f = amt THEN "filled" ELSE "live"]
           r == ReportOf(Len(exo) + 1, e)
       IN /\ kind = "stop" => f = 0
          /\ kind = "exit" => f <= Held
          /\ exo' = Append(exo, e)
          /\ clock' = clock + 1
          /\ net' = IF f > 0 THEN net \cup {r} ELSE net
          /\ run' = [run EXCEPT ![g] = [at |-> next, od |-> o, res |-> r]]
  \/ \E code \in {"err", "reduceOnly", "immediate"} :
       /\ code = "err" => Errors
       /\ code = "reduceOnly" => kind = "exit" /\ amt > Held
       /\ code = "immediate" => kind = "stop"
       /\ run' = [run EXCEPT ![g] = [at |-> next, od |-> o, res |-> Failed(code)]]
       /\ UNCHANGED exchange

\* A resting stop order is cancelled without a trade being reported; a stop
\* order that has begun to fill is a market order and cannot be cancelled.
Cancellable(x) ==
  x # 0 /\ exo[x].st = "live" /\ (exo[x].kind = "stop" => exo[x].filled = 0)
StopCancelled(x) ==
  \/ /\ Cancellable(x)
     /\ exo' = [exo EXCEPT ![x].st = "canceled"]
  \/ /\ Errors \/ ~ Cancellable(x)
     /\ UNCHANGED exo

\* CancelOrder of an entry: the answer and the trade both say what was filled.
CancelEnter(g, o, x) ==
  \/ LET e == [exo[x] EXCEPT !.st = "canceled"]
         r == ReportOf(x, e)
     IN /\ Cancellable(x)
        /\ exo' = [exo EXCEPT ![x] = e]
        /\ clock' = clock + 1
        /\ net' = net \cup {r}
        /\ run' = [run EXCEPT ![g] = [at |-> "canceled", od |-> o, res |-> r]]
  \/ /\ Errors \/ ~ Cancellable(x)
     /\ run' = [run EXCEPT ![g] = [at |-> "canceled", od |-> o, res |-> Failed("err")]]
     /\ UNCHANGED exchange

Happens(x, e) ==
  /\ exo' = [exo EXCEPT ![x] = e]
  /\ clock' = clock + 1
  /\ net' = net \cup {ReportOf(x, e)}
  /\ UNCHANGED local

\* One lot of a resting order is filled; an exit needs a position to close.
Fill(x) ==
  LET e == [exo[x] EXCEPT !.filled = @ + 1,
                          !.st = IF exo[x].filled + 1 = exo[x].amt THEN "filled" ELSE @]
  IN /\ exo[x].st = "live"
     /\ exo[x].kind # "enter" => Held > 0
     /\ Happens(x, e)

\* The exchange cancels a resting order by itself.
Expire(x) ==
  /\ Expires
  /\ exo[x].st = "live" /\ exo[x].kind # "stop"
  /\ Happens(x, [exo[x] EXCEPT !.st = "canceled"])
----------------------------------------------------------------------------
(* The strategy goroutine: it does not take the lock of the order *)

\* enterOrder: a new order is saved and queued.
EnterOrder(o) ==
  /\ ord[o].status = "None"
  /\ Len(queue) < QueueCap
  /\ ord' = [ord EXCEPT ![o] = [NoOrder EXCEPT !.status = "Init",
                                               !.enter = NewSub(Amount, clock)]]
  /\ db' = [db EXCEPT ![o] = ord'[o]]
  /\ queue' = Append(queue, [od |-> o, act |-> "Enter"])
  /\ UNCHANGED <<exitReq, run, doneKeys, exgIdMap, doneTrades, exchange>>

\* ExitOrder up to its early returns ...
AnyOpen(o) == o \in openOds
Exitable(o) == o \in openOds /\ ~ ord[o].exitTag
ExitOrder(o) ==
  /\ Exitable(o)
  /\ exitReq' = exitReq \cup {o}
  /\ UNCHANGED <<ord, db, queue, run, doneKeys, exgIdMap, doneTrades, exchange>>

\* ... and the rest of it: SetExit, Save, and afterExit, which queues it.
PostOrderExit(o) ==
  /\ o \in exitReq
  /\ Len(queue) < QueueCap
  /\ exitReq' = exitReq \ {o}
  /\ \E now \in Now : ord' = [ord EXCEPT ![o] = SetExit(@, now)]
  /\ db' = [db EXCEPT ![o] = ord'[o]]
  /\ queue' = Append(queue, [od |-> o, act |-> "Exit"])
  /\ UNCHANGED <<run, doneKeys, exgIdMap, doneTrades, exchange>>

\* SetStopLoss with another price: the listener queues the edit.
SetStopLoss(o) ==
  /\ o \in Stops /\ o \in openOds
  /\ ord[o].status = "FullEnter" /\ ord[o].stop.old
  /\ ord[o].stop.edits < MaxEdits
  /\ Len(queue) < QueueCap
  /\ ord' = [ord EXCEPT ![o].stop.old = FALSE, ![o].stop.edits = @ + 1]
  /\ queue' = Append(queue, [od |-> o, act |-> "StopLoss"])
  /\ UNCHANGED <<db, exitReq, run, doneKeys, exgIdMap, doneTrades, exchange>>
----------------------------------------------------------------------------
(* Steps the two handlers share.  Save writes the order to the database; the *)
(* Save of a closed order also drops its lock from the table of locks, so a  *)
(* handler that comes later does not wait for the one that closed it.        *)

Holds(g, o) == run[g].od = o /\ run[g].at \notin {"idle", "wait"}
NoLock(o) == TRUE
LockFree(o) == db[o].status = "FullExit" \/ \A g \in Threads : ~ Holds(g, o)

\* finishOrder: remember the exchange ids as done, and Save.
FinishedEarly(od) == doneKeys \cup ({od.enter.oid, od.exit.oid} \ {0})
Finished(od) ==
  doneKeys \cup (IF od.status = "FullExit" THEN {od.enter.oid, od.exit.oid} \ {0} ELSE {})
\* ord[o] becomes od, saved at once when it is now closed.
Become(o, od) ==
  /\ ord' = [ord EXCEPT ![o] = od]
  /\ db' = IF od.status = "FullExit" THEN [db EXCEPT ![o] = od] ELSE db

Go(g, step) == run' = [run EXCEPT ![g].at = step]

\* What submitExgOrder does with the answer to the entry order.
EnterSubmitted(g) ==
  LET o == run[g].od
      r == run[g].res
  IN /\ run[g].at = "entered"
     /\ IF r.st = "err"
        THEN /\ Become(o, LocalExit(ord[o], clock))
             /\ Go(g, "save")
             /\ UNCHANGED <<doneKeys, exgIdMap>>
        ELSE LET od == EnterAnswered(ord[o], r) IN
             /\ Become(o, od)
             /\ doneKeys' = Finished(od)
             /\ exgIdMap' = exgIdMap \cup {r.ex}
             /\ Go(g, IF od.status = "FullEnter" THEN "stop" ELSE "save")
     /\ UNCHANGED <<exitReq, queue, doneTrades, exchange>>

\* tryExitPendingEnter after its call (an error also stands for no call made).
EnterCancelled(g) ==
  LET o == run[g].od
      r == run[g].res
      done == r.st = "canceled"
      od == IF done THEN EnterAnswered(ord[o], r) ELSE ord[o]
      closed == [SetExit([od EXCEPT !.enter.st = "Closed"], clock)
                   EXCEPT !.status = "FullExit", !.exit.st = "Closed"]
      last == IF od.enter.filled = 0 THEN closed ELSE [od EXCEPT !.enter.st = "Closed"]
  IN /\ run[g].at = "canceled"
     /\ Become(o, last)
     /\ doneKeys' = Finished(last)
     /\ exgIdMap' = IF done THEN exgIdMap \cup {r.ex} ELSE exgIdMap
     /\ Go(g, IF od.enter.filled = 0 THEN "cleanup" ELSE "exit")
     /\ UNCHANGED <<exitReq, queue, doneTrades, exchange>>

\* execOrderExit once the entry is closed: submit the exit, unless the order is
\* closed or nothing was entered.
SubmitExit(g) ==
  LET o == run[g].od
      amt == IF ord[o].exit.amt = 0 THEN ord[o].enter.filled ELSE ord[o].exit.amt
      od == [ord[o] EXCEPT !.exit.amt = amt,
                           !.status = IF amt = 0 THEN "FullExit" ELSE @]
  IN /\ run[g].at = "exit"
     /\ IF ord[o].status = "FullExit"
        THEN Go(g, "save") /\ UNCHANGED <<ord, db, doneKeys, exchange>>
        ELSE /\ Become(o, od)
             /\ doneKeys' = Finished(od)
             /\ IF amt = 0 THEN Go(g, "cleanup") /\ UNCHANGED exchange
                ELSE CreateOrder(g, o, "exit", amt, "exited")
     /\ UNCHANGED <<exitReq, queue, exgIdMap, doneTrades>>

\* What submitExgOrder does with the answer to the exit order.
ExitSubmitted(g) ==
  LET o == run[g].od
      r == run[g].res
      od == CASE r.st = "err" -> ord[o]
              [] r.st = "reduceOnly" -> LocalExit(ord[o], clock)
              [] OTHER -> ExitAnswered(ord[o], r)
      replaced == {ord[o].exit.oid} \ {0, r.ex}
  IN /\ run[g].at = "exited"
     /\ Become(o, od)
     /\ IF r.ex = 0 THEN UNCHANGED <<doneKeys, exgIdMap>>
        ELSE /\ doneKeys' = Finished(od) \cup replaced
             /\ exgIdMap' = exgIdMap \cup {r.ex}
     /\ Go(g, IF r.st = "err" THEN "save" ELSE "cleanup")
     /\ UNCHANGED <<exitReq, queue, doneTrades, exchange>>

\* editTriggerOd of the stop loss, up to its call.
EditTrigger(g) ==
  LET o == run[g].od IN
  /\ run[g].at = "stop"
  /\ IF o \notin Stops \/ ord[o].status = "FullExit" \/ ord[o].stop.old
     THEN Go(g, "save") /\ UNCHANGED <<ord, exchange>>
     ELSE /\ ord' = [ord EXCEPT ![o].stop.old = TRUE]
          /\ CreateOrder(g, o, "stop", ord[o].enter.amt, "stopped")
  /\ UNCHANGED <<db, exitReq, queue, doneKeys, exgIdMap, doneTrades>>

\* The rest of editTriggerOd: a stop that would trigger at once becomes an exit
\* at market; the stop order it replaces is cancelled.
TriggerPut(g) ==
  LET o == run[g].od
      r == run[g].res
      prev == ord[o].stop.oid
  IN /\ run[g].at = "stopped"
     /\ CASE r.st = "immediate" ->
               /\ \E now \in Now : ord' = [ord EXCEPT ![o] = SetExit(@, now)]
               /\ Go(g, "exit")
               /\ UNCHANGED exo
          [] r.st = "err" -> Go(g, "save") /\ UNCHANGED <<ord, exo>>
          [] OTHER ->
               /\ ord' = [ord EXCEPT ![o].stop.oid = r.ex]
               /\ StopCancelled(prev)
               /\ Go(g, "save")
     /\ UNCHANGED <<db, exitReq, queue, doneKeys, exgIdMap, doneTrades, net, clock>>

\* cancelTriggerOds
CancelTriggerOds(g) ==
  LET o == run[g].od IN
  /\ run[g].at = "cleanup"
  /\ StopCancelled(ord[o].stop.oid)
  /\ ord' = [ord EXCEPT ![o].stop.oid = 0]
  /\ Go(g, "save")
  /\ UNCHANGED <<db, exitReq, queue, doneKeys, exgIdMap, doneTrades, net, clock>>

\* The handler saves what is dirty and unlocks.
SaveUnlock(g) ==
  LET o == run[g].od IN
  /\ run[g].at = "save"
  /\ db' = IF IsDirty(o) THEN [db EXCEPT ![o] = ord[o]] ELSE db
  /\ run' = [run EXCEPT ![g] = Idle]
  /\ UNCHANGED <<ord, exitReq, queue, doneKeys, exgIdMap, doneTrades, exchange>>
----------------------------------------------------------------------------
(* The goroutine that consumes the order queue *)

\* tryExitPendingEnter returns at once when the entry is closed.
EnterFilledOrClosed(o) == ord[o].enter.st \in {"PartOK", "Closed"}
EnterClosed(o) == ord[o].enter.st = "Closed"

\* handleOrderQueue up to its first call to the exchange.
HandleOrderQueue ==
  LET g == "queue"
      o == Head(queue).od
      act == Head(queue).act
      to(step) == run' = [run EXCEPT ![g].at = step, ![g].od = o] /\ UNCHANGED exchange
  IN /\ run[g].at = "idle"
     /\ queue # <<>>
     /\ LockFree(o)
     /\ queue' = Tail(queue)
     /\ CASE act = "Enter" ->
               IF ord[o].exitTag THEN to("save")
               ELSE CreateOrder(g, o, "enter", ord[o].enter.amt, "entered")
          [] act = "Exit" ->
               IF EnterClosed(o) THEN to("exit")
               ELSE CancelEnter(g, o, ord[o].enter.oid)
          [] act = "StopLoss" -> to("stop")
     /\ UNCHANGED <<ord, db, exitReq, doneKeys, exgIdMap, doneTrades>>

(* The goroutine that applies the trades the exchange pushes *)

\* handleMyTrade up to the lock: a trade that was applied, or whose order is
\* done or not known, is dropped.
HandleMyTrade(t) ==
  LET g == "trade"
      o == exo[t.ex].od
      known == t.ex \in exgIdMap \/ o \in openOds
  IN /\ run[g].at = "idle"
     /\ InOrder => \A u \in net : t.at <= u.at
     /\ \/ net' = net \ {t}
        \/ Duplicates /\ net' = net
     /\ run' = IF t.at \in doneTrades \/ t.ex \in doneKeys \/ ~ known THEN run
               ELSE [run EXCEPT ![g] = [at |-> "wait", od |-> o, res |-> t]]
     /\ UNCHANGED <<ord, db, exitReq, queue, doneKeys, exgIdMap, doneTrades, exo, clock>>

\* The rest of it, once the order is locked.
UpdateByMyTrade == \E now \in Now :
  LET g == "trade"
      o == run[g].od
      t == run[g].res
      od == ByMyTrade(ord[o], exo[t.ex].kind, t, now)
      closes == od.status = "FullExit" /\ od # ord[o]
      last == IF closes THEN StopSpent(od, t) ELSE od
  IN /\ run[g].at = "wait"
     /\ LockFree(o)
     /\ doneTrades' = doneTrades \cup {t.at}
     /\ ord' = [ord EXCEPT ![o] = last]
     /\ db' = IF closes THEN [db EXCEPT ![o] = last] ELSE db
     /\ doneKeys' = IF closes THEN Finished(last) ELSE doneKeys
     /\ Go(g, IF closes THEN "cleanup"
              ELSE IF last.status = "FullEnter" /\ last # db[o] THEN "stop" ELSE "save")
     /\ UNCHANGED <<exitReq, queue, exgIdMap, exchange>>
----------------------------------------------------------------------------
Init ==
  /\ ord = [o \in Orders |-> NoOrder]
  /\ db = [o \in Orders |-> NoOrder]
  /\ exitReq = {}
  /\ queue = <<>>
  /\ run = [g \in Threads |-> Idle]
  /\ doneKeys = {} /\ exgIdMap = {} /\ doneTrades = {}
  /\ exo = <<>> /\ net = {} /\ clock = 0

Strategy == \E o \in Orders :
  EnterOrder(o) \/ ExitOrder(o) \/ PostOrderExit(o) \/ SetStopLoss(o)
Handler(g) ==
  \/ EnterSubmitted(g) \/ EnterCancelled(g) \/ SubmitExit(g) \/ ExitSubmitted(g)
  \/ EditTrigger(g) \/ TriggerPut(g) \/ CancelTriggerOds(g) \/ SaveUnlock(g)
Exchange == \E x \in DOMAIN exo : Fill(x) \/ Expire(x)

Next ==
  \/ Strategy
  \/ HandleOrderQueue
  \/ \E t \in net : HandleMyTrade(t)
  \/ UpdateByMyTrade
  \/ \E g \in Threads : Handler(g)
  \/ Exchange

Spec == Init /\ [][Next]_vars

\* The two handler goroutines run forever; the strategy's goroutine finishes what
\* it began; the exchange fills the exits it accepted.
Fairness ==
  /\ WF_vars(HandleOrderQueue)
  /\ WF_vars(\E t \in net : HandleMyTrade(t))
  /\ WF_vars(UpdateByMyTrade)
  /\ \A g \in Threads : WF_vars(Handler(g))
  /\ \A o \in Orders : WF_vars(PostOrderExit(o))
  /\ WF_vars(\E x \in DOMAIN exo : exo[x].kind = "exit" /\ Fill(x))
FairSpec == Spec /\ Fairness
----------------------------------------------------------------------------
(* Properties *)

ExgOrdersOf(o, kind) == {x \in DOMAIN exo : exo[x].od = o /\ exo[x].kind = kind}

\* Nothing is under way for the order: no handler, request or trade in flight.
Calm(o) ==
  /\ \A g \in Threads : run[g].at = "idle" \/ run[g].od # o
  /\ \A i \in DOMAIN queue : queue[i].od # o
  /\ o \notin exitReq
  /\ \A t \in net : exo[t.ex].od # o

\* An order that is fully exited is never open again, whatever answer or trade
\* comes late (updateOdByExgRes and updateByMyTrade write the status freely).
FullExitIsFinal ==
  [][\A o \in Orders : ord[o].status = "FullExit" => ord'[o].status = "FullExit"]_vars

(* Why it is final, as an inductive invariant.  A status is written only while   *)
(* the order is locked or its entry is already closed; the lock of an order is    *)
(* dropped only when the saved order is fully exited.                             *)

Opened(o) == ord[o].status # "None"
Entered(o) == ord[o].status \in {"FullEnter", "FullExit"}
EntryClosed(o) == ord[o].enter.st = "Closed"
Working(g) == run[g].at \notin {"idle", "wait"}
Untouched(o) == ord[o].status = "Init" /\ ord[o].enter.st = "Init"

\* Every id of an exchange order that is kept somewhere names an exchange order.
IdsNameOrders ==
  /\ \A x \in DOMAIN exo : exo[x].st = "live" => exo[x].filled < exo[x].amt
  /\ \A t \in net : t.ex \in DOMAIN exo
  /\ \A g \in Threads : run[g].res.ex \in 0 .. Len(exo)
  /\ \A o \in Orders : ord[o].enter.oid \in 0 .. Len(exo)
  /\ run["trade"].at = "wait" =>
       /\ run["trade"].res.ex \in DOMAIN exo
       /\ exo[run["trade"].res.ex].od = run["trade"].od

\* Only opened orders are worked on.
OnlyOpened ==
  /\ \A x \in DOMAIN exo : Opened(exo[x].od)
  /\ \A i \in DOMAIN queue : Opened(queue[i].od)
  /\ \A g \in Threads : Working(g) => Opened(run[g].od)
  /\ \A o \in Orders : o \in exitReq \/ db[o].status # "None" => Opened(o)

\* An order whose entry is still queued is untouched: whatever else is queued for it
\* comes later, no handler works on it, and the exchange has not heard of it.
EnterOnce ==
  \A i \in DOMAIN queue : queue[i].act = "Enter" =>
    /\ \A j \in DOMAIN queue : queue[j].od = queue[i].od => i <= j
    /\ Untouched(queue[i].od)
    /\ \A g \in Threads : ~ Holds(g, queue[i].od)
    /\ \A x \in DOMAIN exo : exo[x].od # queue[i].od

\* Nothing but an entry happens to an order before its entry is closed.
EntryClosedFirst ==
  /\ \A o \in Orders : Entered(o) => EntryClosed(o)
  /\ \A x \in DOMAIN exo : exo[x].kind # "enter" => EntryClosed(exo[x].od)
  /\ \A g \in Threads : run[g].at \in {"exit", "exited"} => EntryClosed(run[g].od)
  /\ \A g \in Threads : run[g].at \in {"stop", "stopped"} => Entered(run[g].od)
  /\ \A i \in DOMAIN queue : queue[i].act = "StopLoss" => Entered(queue[i].od)

\* Two handlers share an order only when it is fully exited, and then neither is at
\* a step that could write another status.
LockedUntilClosed ==
  /\ \A o \in Orders : db[o].status = "FullExit" => ord[o].status = "FullExit"
  /\ \A o \in Orders : (\A g \in Threads : Holds(g, o)) => db[o].status = "FullExit"
  /\ \A g \in Threads : run[g].at = "entered" => Untouched(run[g].od)
  /\ \A g \in Threads :
       run[g].at \in {"canceled", "exited"} => ord[run[g].od].status # "FullExit"

IInv ==
  /\ TypeOK /\ IdsNameOrders /\ OnlyOpened
  /\ EnterOnce /\ EntryClosedFirst /\ LockedUntilClosed

(* Why the entered amount never goes back, as an invariant that is inductive with *)
(* IInv: reports of one exchange order agree with their stamps, whoever still has *)
(* them, and an order's own stamp is not behind what it counted.                  *)

\* The reports that may still be used: trades on their way and answers of calls.
Heard == net \cup {run[g].res : g \in Threads}
EntryOf(x, o) == x \in DOMAIN exo /\ exo[x].kind = "enter" /\ exo[x].od = o

\* What e counts as entered is at the exchange, and in every report e would accept.
NotAhead(o, e) ==
  /\ (\A x \in DOMAIN exo : ~ EntryOf(x, o)) => e.filled = 0
  /\ \A x \in DOMAIN exo : EntryOf(x, o) =>
       /\ e.filled <= exo[x].filled
       /\ \A r \in Heard : r.ex = x /\ e.upd <= r.at => e.filled <= r.filled

ReportsAgree ==
  /\ \A r \in Heard : r.at <= clock /\ (r.ex # 0 => r.filled <= exo[r.ex].filled)
  /\ \A r, s \in Heard : r.ex # 0 /\ r.ex = s.ex /\ r.at <= s.at => r.filled <= s.filled
EntriesKnown ==
  /\ \A x, y \in DOMAIN exo :
       exo[x].kind = "enter" /\ exo[y].kind = "enter" /\ exo[x].od = exo[y].od => x = y
  /\ \A o \in Orders : ord[o].enter.oid # 0 => EntryOf(ord[o].enter.oid, o)
  /\ \A g \in Threads : run[g].at \in {"entered", "canceled"} =>
       run[g].res.st = "err" \/ EntryOf(run[g].res.ex, run[g].od)
FillsInv ==
  /\ ReportsAgree /\ EntriesKnown
  /\ \A o \in Orders : NotAhead(o, ord[o].enter)

\* The entered amount never goes back, though trades arrive in any order and more
\* than once and race the answer to the order (updateByMyTrade's timestamp guard).
EnteredNeverShrinks ==
  [][\A o \in Orders : ord[o].enter.filled <= ord'[o].enter.filled]_vars

\* The entry, and without stop losses the exit, of an order is sent to the
\* exchange at most once (execOrderEnter and submitExgOrder do not look whether
\* it was sent before).
SubmittedOnce ==
  \A o \in Orders : /\ Cardinality(ExgOrdersOf(o, "enter")) <= 1
                    /\ Cardinality(ExgOrdersOf(o, "exit")) <= 1

\* While no exit was asked for, a calm order knows every lot the exchange filled:
\* no trade is dropped for good by the doneKeys, openOds and timestamp filters of
\* handleMyTrade.
FillsKnown ==
  \A o \in Orders :
    Calm(o) /\ ~ ord[o].exitTag /\ ord[o].enter.oid # 0 =>
      ord[o].enter.filled = exo[ord[o].enter.oid].filled

\* Whenever no handler holds the order, the database holds what memory holds, but
\* for a stop loss edit that is queued: each path of the handlers ends in a Save.
SavedWhenFree ==
  \A o \in Orders :
    (\A g \in Threads : ~ Holds(g, o)) =>
      db[o] \in {ord[o], [ord[o] EXCEPT !.stop.old = TRUE, !.stop.edits = db[o].stop.edits]}

\* A calm order that is fully exited left no live entry or exit at the exchange
\* (tryExitPendingEnter cancels the entry before the exit is sent).
ClosedLeavesNoOrder ==
  \A o \in Orders : Calm(o) /\ ord[o].status = "FullExit" =>
    \A x \in ExgOrdersOf(o, "enter") \cup ExgOrdersOf(o, "exit") : exo[x].st # "live"

\* A calm order that is fully exited left no untouched stop order behind, also
\* when the stop loss was moved meanwhile (editTriggerOd and cancelTriggerOds).
ClosedLeavesNoStop ==
  \A o \in Orders : Calm(o) /\ ord[o].status = "FullExit" =>
    \A x \in ExgOrdersOf(o, "stop") : exo[x].st # "live" \/ exo[x].filled > 0

\* An exit that was sent for all that was entered leaves no position when the
\* order is fully exited.
ClosedLeavesNoPosition ==
  (\A o \in Orders : /\ Calm(o)
                     /\ ord[o].status = "FullExit"
                     /\ ord[o].exit.oid # 0
                     /\ ord[o].exit.amt = exo[ord[o].enter.oid].filled)
    => Held = 0

\* An exit that was asked for is completed (no stop loss, no failing call).
ExitCompletes ==
  \A o \in Orders : ord[o].exitTag ~> ord[o].status = "FullExit"

\* ExitOrder says that an exit, once there, means that all is exited: an order
\* fully exited by an exit order has exited what it entered.
ExitIsFull ==
  \A o \in Orders : Calm(o) /\ ord[o].status = "FullExit" /\ ord[o].exit.oid # 0 =>
    ord[o].exit.filled >= ord[o].enter.filled

\* updateByMyTrade says that a stop loss fill closes the order: once a calm order's
\* stop order is filled and its trades are in, the order is fully exited.
StopFillCloses ==
  \A o \in Orders : Calm(o) /\ ord[o].stop.oid # 0 =>
    (exo[ord[o].stop.oid].st = "filled" => ord[o].status = "FullExit")

(* Why an exit is sent once and a closed order leaves nothing behind, as          *)
(* invariants that are inductive with IInv and FillsInv.                          *)

IsAt(g, o, steps) == run[g].od = o /\ run[g].at \in steps
IsExit(x, o) == exo[x].kind = "exit" /\ exo[x].od = o
IsStop(x, o) == exo[x].kind = "stop" /\ exo[x].od = o
\* A stop order nobody has touched.
Resting(x, o) == IsStop(x, o) /\ exo[x].st = "live" /\ exo[x].filled = 0
Asks(i, o) == queue[i].act = "Exit" /\ queue[i].od = o

\* The exit of an order without a stop loss is still to be sent in one place only: by
\* the strategy, in the queue or by the goroutine of the queue, and it is not sent yet.
ExitOnce(o) ==
  /\ \A x, y \in DOMAIN exo : IsExit(x, o) /\ IsExit(y, o) => x = y
  /\ \A x \in DOMAIN exo : ~ IsStop(x, o)
  /\ ~ IsAt("trade", o, {"canceled", "exit", "exited", "stopped"}) /\ ~ IsAt("queue", o, {"stopped"})
  /\ \/ ~ ord[o].exitTag \/ o \in exitReq \/ IsAt("queue", o, {"canceled", "exit"})
     \/ \E i \in DOMAIN queue : Asks(i, o)
     => \A x \in DOMAIN exo : ~ IsExit(x, o)
  /\ ~ ord[o].exitTag \/ o \in exitReq =>
       ~ IsAt("queue", o, {"canceled", "exit"}) /\ \A i \in DOMAIN queue : ~ Asks(i, o)
  /\ \A i \in DOMAIN queue : Asks(i, o) =>
       ~ IsAt("queue", o, {"canceled", "exit"}) /\ \A j \in DOMAIN queue : Asks(j, o) => i = j
ExitsInv == \A o \in Orders \ Stops : ExitOnce(o)

\* A report says what the exchange did, and no call is answered with an error.
ReportsTell ==
  /\ \A r \in Heard : r.ex # 0 =>
       r.st \in {"live", "filled", "canceled"} /\ (r.st # "live" => exo[r.ex].st # "live")
  /\ \A t \in net : exo[t.ex].kind = "stop" => exo[t.ex].filled # 0
  /\ run["trade"].at = "wait" /\ exo[run["trade"].res.ex].kind = "stop" =>
       exo[run["trade"].res.ex].filled # 0
NoCallFails == \A g \in Threads : run[g].at \in {"entered", "exited", "stopped"} => run[g].res.st # "err"

\* The entry is the one the order knows or a handler is about to note, and once closed
\* here it is not live there; so is the exit of a closed order without a stop loss; and
\* so is a resting stop order, which is cancelled before a closed order is let go.
Settled(o) ==
  /\ EntryClosed(o) => \A x \in DOMAIN exo : EntryOf(x, o) => exo[x].st # "live"
  /\ \A g \in Threads : IsAt(g, o, {"canceled"}) =>
       \A x \in DOMAIN exo : exo[x].od = o => exo[x].kind = "enter" /\ exo[x].st # "live"
  /\ \A x \in DOMAIN exo : EntryOf(x, o) =>
       ord[o].enter.oid = x \/ \E g \in Threads : IsAt(g, o, {"entered"}) /\ run[g].res.ex = x
  /\ o \notin Stops /\ ord[o].status = "FullExit" =>
       \A x \in DOMAIN exo : IsExit(x, o) => exo[x].st # "live"
  /\ o \notin Stops => \A g \in Threads : IsAt(g, o, {"exited"}) =>
       \A x \in DOMAIN exo : IsExit(x, o) => x = run[g].res.ex
  /\ \A x \in DOMAIN exo : Resting(x, o) =>
       ord[o].stop.oid = x \/ \E g \in Threads : IsAt(g, o, {"stopped"}) /\ run[g].res.ex = x
  /\ ord[o].status = "FullExit" /\ (\E x \in DOMAIN exo : Resting(x, o)) =>
       \E g \in Threads : IsAt(g, o, {"cleanup"})
  /\ \A g \in Threads : IsAt(g, o, {"stopped"}) => ord[o].status # "FullExit"
SettledInv == ReportsTell /\ NoCallFails /\ \A o \in Orders : Settled(o)

(* Why every fill is known, as an invariant that is inductive with IInv and FillsInv *)
(* as long as the exchange cancels nothing by itself.                                *)

\* The trades of an order that are on their way or wait for its lock.
Coming(o) == net \cup {r \in {run["trade"].res} : IsAt("trade", o, {"wait"})}

\* An order is fully exited, its entry canceled or done, or an exit handled only after
\* an exit was asked for.
TagFirst(o) ==
  ~ ord[o].exitTag =>
    /\ ord[o].status # "FullExit" /\ ord[o].exit.st = "None"
    /\ \A i \in DOMAIN queue : ~ Asks(i, o)
    /\ \A g \in Threads : ~ IsAt(g, o, {"canceled", "exit", "exited"})
    /\ \A x \in DOMAIN exo : EntryOf(x, o) => exo[x].st # "canceled" /\ x \notin doneKeys

\* Until then each lot that was filled is counted, or a trade that counts it is coming
\* and will not be taken for an old one.
Counted(o) ==
  ~ ord[o].exitTag => \A x \in DOMAIN exo : EntryOf(x, o) =>
    /\ \/ ord[o].enter.filled = exo[x].filled
       \/ \E r \in Coming(o) : r.ex = x /\ r.filled = exo[x].filled /\ r.at > ord[o].enter.upd
    /\ EntryClosed(o) => ord[o].enter.filled = exo[x].filled /\ exo[x].st = "filled"

\* A stamp is given once, and a report is taken for a repetition only when its order
\* knows a later one.
StampsFit ==
  /\ doneTrades \subseteq 0 .. clock /\ doneKeys \subseteq DOMAIN exo
  /\ \A r, s \in Heard : r.ex # 0 /\ s.ex # 0 /\ r.at = s.at => r.ex = s.ex
  /\ \A r \in Heard : r.ex # 0 =>
       /\ r.st \in {"live", "filled", "canceled"}
       /\ r.st # "live" => exo[r.ex].st = r.st /\ exo[r.ex].filled = r.filled
       /\ exo[r.ex].kind = "enter" /\ r.at \in doneTrades =>
            r.at <= ord[exo[r.ex].od].enter.upd \/ EntryClosed(exo[r.ex].od)

\* What an order knows of the exchange is its own.
OwnIds(o) ==
  /\ Opened(o) => db[o].status # "None" /\ ord[o].enter.amt = Amount
  /\ ord[o].enter.upd <= clock
  /\ ord[o].exit.oid # 0 => ord[o].exit.oid \in DOMAIN exo /\ exo[ord[o].exit.oid].od = o
  /\ ord[o].stop.oid # 0 => ord[o].stop.oid \in DOMAIN exo /\ IsStop(ord[o].stop.oid, o)
  /\ \A g \in Threads : IsAt(g, o, {"exited"}) /\ run[g].res.ex # 0 => exo[run[g].res.ex].od = o
  /\ \A g \in Threads : IsAt(g, o, {"stopped"}) /\ run[g].res.ex # 0 => IsStop(run[g].res.ex, o)
  /\ \A x \in DOMAIN exo : EntryOf(x, o) /\ exo[x].st = "filled" => exo[x].filled # 0

CountedInv == StampsFit /\ \A o \in Orders : OwnIds(o) /\ TagFirst(o) /\ Counted(o)
============================================================================
