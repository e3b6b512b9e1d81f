-------------------------- MODULE LiveOrderProofs --------------------------
(* Theorems about LiveOrder, for every value of its constants. *)
EXTENDS LiveOrder, FiniteSetTheorems, TLAPS

LEMMA IdleType == Idle \in Work
<1>1. (CHOOSE o \in Orders : TRUE) \in Orders
  BY ConstantsAssumption
<1>2. Failed("err") \in Report
  BY ConstantsAssumption DEF Failed, Report
<1> QED
  BY <1>1, <1>2 DEF Idle, Work

LEMMA FailedType ==
  ASSUME NEW code \in {"err", "reduceOnly", "immediate"}
  PROVE  Failed(code) \in Report
BY ConstantsAssumption DEF Failed, Report

LEMMA NoOrderType == NoOrder \in InOutOrder
BY ConstantsAssumption DEF NoOrder, NoSub, InOutOrder, SubOrder, StopState

LEMMA NewSubType ==
  ASSUME NEW amt \in 0 .. Amount, NEW now \in Nat
  PROVE  NewSub(amt, now) \in SubOrder
BY ConstantsAssumption DEF NewSub, SubOrder

LEMMA SetExitType ==
  ASSUME NEW od \in InOutOrder, NEW now \in Nat
  PROVE  SetExit(od, now) \in InOutOrder
<1>1. od.enter.filled \in 0 .. Amount
  BY DEF InOutOrder, SubOrder
<1>2. NewSub(od.enter.filled, now) \in SubOrder
  BY <1>1, NewSubType
<1> QED
  BY <1>2 DEF SetExit, InOutOrder

LEMMA LocalExitType ==
  ASSUME NEW od \in InOutOrder, NEW now \in Nat
  PROVE  LocalExit(od, now) \in InOutOrder
<1> DEFINE set == SetExit(od, now)
<1>1. set \in InOutOrder
  BY SetExitType
<1>2. od.enter.filled \in 0 .. Amount
  BY DEF InOutOrder, SubOrder
<1>3. ASSUME NEW s \in InOutOrder, NEW f \in 0 .. Amount
      PROVE  [s EXCEPT !.status = "FullExit", !.enter.st = "Closed",
                       !.exit.st = "Closed", !.exit.filled = f] \in InOutOrder
  <2>1. [s.enter EXCEPT !.st = "Closed"] \in SubOrder
    BY DEF InOutOrder, SubOrder
  <2>2. [[s.exit EXCEPT !.st = "Closed"] EXCEPT !.filled = f] \in SubOrder
    BY DEF InOutOrder, SubOrder
  <2> QED
    BY <2>1, <2>2 DEF InOutOrder
<1> HIDE DEF set
<1>4. [set EXCEPT !.status = "FullExit", !.enter.st = "Closed",
                  !.exit.st = "Closed", !.exit.filled = od.enter.filled] \in InOutOrder
  BY <1>1, <1>2, <1>3
<1> QED
  BY <1>4 DEF LocalExit, set

LEMMA AnsweredType ==
  ASSUME NEW sub \in SubOrder, NEW r \in Report
  PROVE  Answered(sub, r) \in SubOrder
BY DEF Answered, SubOrder, Report, IsOrderDone

LEMMA EnterAnsweredType ==
  ASSUME NEW od \in InOutOrder, NEW r \in Report
  PROVE  EnterAnswered(od, r) \in InOutOrder
BY AnsweredType DEF EnterAnswered, InOutOrder

LEMMA ExitAnsweredType ==
  ASSUME NEW od \in InOutOrder, NEW r \in Report
  PROVE  ExitAnswered(od, r) \in InOutOrder
BY AnsweredType DEF ExitAnswered, InOutOrder

LEMMA TradedType ==
  ASSUME NEW sub \in SubOrder, NEW t \in Report
  PROVE  Traded(sub, t) \in SubOrder
BY DEF Traded, SubOrder, Report

LEMMA EnterTradedType ==
  ASSUME NEW od \in InOutOrder, NEW t \in Report
  PROVE  EnterTraded(od, t) \in InOutOrder
BY TradedType DEF EnterTraded, InOutOrder

LEMMA ExitTradedType ==
  ASSUME NEW od \in InOutOrder, NEW t \in Report
  PROVE  ExitTraded(od, t) \in InOutOrder
BY TradedType DEF ExitTraded, InOutOrder

LEMMA ByMyTradeType ==
  ASSUME NEW od \in InOutOrder, NEW kind, NEW t \in Report, NEW now \in Nat
  PROVE  ByMyTrade(od, kind, t, now) \in InOutOrder
BY EnterTradedType, ExitTradedType, SetExitType DEF ByMyTrade

(* What the operators do to the status of an order and to its entry. *)

LEMMA SetExitKeeps ==
  ASSUME NEW od \in InOutOrder, NEW now \in Nat
  PROVE  /\ SetExit(od, now).status = od.status
         /\ SetExit(od, now).enter = od.enter
BY DEF SetExit, InOutOrder

LEMMA LocalExitCloses ==
  ASSUME NEW od \in InOutOrder, NEW now \in Nat
  PROVE  /\ LocalExit(od, now).status = "FullExit"
         /\ LocalExit(od, now).enter.st = "Closed"
         /\ LocalExit(od, now).enter.oid = od.enter.oid
<1>1. SetExit(od, now) \in InOutOrder /\ SetExit(od, now).enter = od.enter
  BY SetExitType, SetExitKeeps
<1>2. ASSUME NEW s \in InOutOrder, NEW f
      PROVE  LET t == [s EXCEPT !.status = "FullExit", !.enter.st = "Closed",
                                !.exit.st = "Closed", !.exit.filled = f]
             IN t.status = "FullExit" /\ t.enter.st = "Closed" /\ t.enter.oid = s.enter.oid
  BY DEF InOutOrder, SubOrder
<1> QED
  BY <1>1, <1>2 DEF LocalExit

LEMMA EnterAnsweredEffect ==
  ASSUME NEW od \in InOutOrder, NEW r \in Report
  PROVE  LET new == EnterAnswered(od, r) IN
         /\ new.enter.oid = r.ex
         /\ \/ new.status = od.status
            \/ new.status \in {"FullEnter", "FullExit"} /\ new.enter.st = "Closed"
BY DEF EnterAnswered, Answered, IsOrderDone, InOutOrder, SubOrder

LEMMA ExitAnsweredEffect ==
  ASSUME NEW od \in InOutOrder, NEW r \in Report
  PROVE  LET new == ExitAnswered(od, r) IN
         /\ new.enter = od.enter
         /\ new.status \in {od.status, "FullEnter", "FullExit"}
BY DEF ExitAnswered, InOutOrder

LEMMA EnterTradedEffect ==
  ASSUME NEW od \in InOutOrder, NEW t \in Report
  PROVE  LET new == EnterTraded(od, t) IN
         /\ new.enter.oid = od.enter.oid
         /\ \/ new = od
            \/ od.enter.st # "Closed" /\ new.status = od.status
            \/ od.enter.st # "Closed" /\ new.enter.st = "Closed"
                 /\ new.status \in {"FullEnter", "FullExit"}
BY DEF EnterTraded, Traded, Skipped, InOutOrder, SubOrder, Report

LEMMA ByMyTradeEffect ==
  ASSUME NEW od \in InOutOrder, NEW t \in Report, NEW kind, NEW now \in Nat
  PROVE  LET new == ByMyTrade(od, kind, t, now) IN
         /\ new.enter.oid = od.enter.oid
         /\ kind = "enter" => new = EnterTraded(od, t)
         /\ kind # "enter" => new.enter = od.enter /\ new.status \in {od.status, "FullExit"}
<1>1. ASSUME NEW d \in InOutOrder
      PROVE  /\ ExitTraded(d, t).enter = d.enter
             /\ ExitTraded(d, t).status \in {d.status, "FullExit"}
  BY DEF ExitTraded, InOutOrder
<1> QED
  BY <1>1, SetExitType, SetExitKeeps, EnterTradedEffect DEF ByMyTrade

(* What a call to the exchange may change. *)

Sane ==
  /\ exo \in Seq(ExgOrder) /\ net \in SUBSET Report /\ clock \in Nat
  /\ \A x \in DOMAIN exo : exo[x].st = "live" => exo[x].filled < exo[x].amt
  /\ \A t \in net : t.ex \in DOMAIN exo

\* Orders stay at the exchange; a new one is of order o and of one of the kinds.
Grown(kinds, o) ==
  /\ Len(exo) <= Len(exo')
  /\ \A x \in DOMAIN exo : exo'[x].od = exo[x].od /\ exo'[x].kind = exo[x].kind
  /\ \A x \in DOMAIN exo' : x \in DOMAIN exo \/ (exo'[x].od = o /\ exo'[x].kind \in kinds)

Steps == {"idle", "wait", "entered", "canceled", "exit", "exited",
          "stop", "stopped", "cleanup", "save"}

\* Handler g goes to that step on order o, with an answer that names an order.
Goes(g, step, o) ==
  \E w \in Work : /\ run' = [run EXCEPT ![g] = w]
                  /\ w.at = step /\ w.od = o /\ w.res.ex \in 0 .. Len(exo')

LEMMA GoesIntro ==
  ASSUME NEW g \in Threads, NEW step \in Steps, NEW o \in Orders, NEW r \in Report,
         r.ex \in 0 .. Len(exo'),
         run' = [run EXCEPT ![g] = [at |-> step, od |-> o, res |-> r]]
  PROVE  Goes(g, step, o)
<1> DEFINE w == [at |-> step, od |-> o, res |-> r]
<1>1. w \in Work /\ w.at = step /\ w.od = o /\ w.res = r
  BY DEF Work, Steps
<1>2. run' = [run EXCEPT ![g] = w]
  OBVIOUS
<1> HIDE DEF w
<1> QED
  BY <1>1, <1>2 DEF Goes

LEMMA ReportOfType ==
  ASSUME clock \in Nat, NEW x \in Nat, NEW e \in ExgOrder
  PROVE  ReportOf(x, e) \in Report /\ ReportOf(x, e).ex = x
BY ConstantsAssumption DEF ReportOf, Report, ExgOrder

LEMMA ReplacedOrder ==
  ASSUME Sane, NEW x \in DOMAIN exo, NEW e \in ExgOrder,
         e.st = "live" => e.filled < e.amt,
         e.od = exo[x].od, e.kind = exo[x].kind,
         exo' = [exo EXCEPT ![x] = e], clock' = clock + 1,
         net' = net \cup {ReportOf(x, e)}
  PROVE  Sane' /\ Grown({}, e.od) /\ Len(exo') = Len(exo)
<1>1. exo' \in Seq(ExgOrder) /\ Len(exo') = Len(exo) /\ DOMAIN exo' = DOMAIN exo
  BY DEF Sane
<1>2. x \in Nat
  BY DEF Sane
<1>3. net' \in SUBSET Report /\ \A t \in net' : t.ex \in DOMAIN exo'
  BY <1>1, <1>2, ReportOfType DEF Sane
<1> QED
  BY <1>1, <1>3 DEF Sane, Grown

LEMMA CreateOrderEffect ==
  ASSUME Sane, NEW g \in Threads, NEW o \in Orders, NEW kind \in {"enter", "exit", "stop"},
         NEW amt \in 0 .. Amount, NEW next \in Steps, CreateOrder(g, o, kind, amt, next)
  PROVE  Sane' /\ Grown({kind}, o) /\ Goes(g, next, o)
<1> DEFINE E(f) == [od |-> o, kind |-> kind, amt |-> amt, filled |-> f,
                    st |-> IF f = amt THEN "filled" ELSE "live"]
           R(f) == ReportOf(Len(exo) + 1, E(f))
<1>1. CASE \E f \in 0 .. amt :
             /\ exo' = Append(exo, E(f))
             /\ clock' = clock + 1
             /\ net' = IF f > 0 THEN net \cup {R(f)} ELSE net
             /\ run' = [run EXCEPT ![g] = [at |-> next, od |-> o, res |-> R(f)]]
  <2>1. PICK f \in 0 .. amt :
             /\ exo' = Append(exo, E(f))
             /\ clock' = clock + 1
             /\ net' = IF f > 0 THEN net \cup {R(f)} ELSE net
             /\ run' = [run EXCEPT ![g] = [at |-> next, od |-> o, res |-> R(f)]]
    BY <1>1
  <2>2. E(f) \in ExgOrder /\ (E(f).st = "live" => E(f).filled < E(f).amt)
    BY ConstantsAssumption DEF ExgOrder
  <2>3. E(f).od = o /\ E(f).kind = kind
    OBVIOUS
  <2> HIDE DEF E
  <2>4. R(f) \in Report /\ R(f).ex = Len(exo) + 1
    BY <2>2, ReportOfType DEF Sane
  <2> HIDE DEF R
  <2>5. /\ exo' \in Seq(ExgOrder) /\ Len(exo') = Len(exo) + 1
        /\ \A x \in DOMAIN exo : exo'[x] = exo[x]
        /\ DOMAIN exo' = DOMAIN exo \cup {Len(exo) + 1}
        /\ exo'[Len(exo) + 1] = E(f)
    BY <2>1, <2>2 DEF Sane
  <2>6. Sane'
    <3>1. net' \in SUBSET Report /\ \A t \in net' : t.ex \in DOMAIN exo'
      BY <2>1, <2>4, <2>5 DEF Sane
    <3> QED
      BY <3>1, <2>1, <2>2, <2>5 DEF Sane
  <2>7. Grown({kind}, o)
    BY <2>3, <2>5 DEF Grown, Sane
  <2>8. R(f) \in Report /\ R(f).ex \in 0 .. Len(exo')
    BY <2>4, <2>5, <2>6 DEF Sane
  <2> QED
    BY <2>1, <2>6, <2>7, <2>8, GoesIntro
<1>2. CASE \E code \in {"err", "reduceOnly", "immediate"} :
             /\ run' = [run EXCEPT ![g] = [at |-> next, od |-> o, res |-> Failed(code)]]
             /\ UNCHANGED exchange
  <2>1. PICK code \in {"err", "reduceOnly", "immediate"} :
             /\ run' = [run EXCEPT ![g] = [at |-> next, od |-> o, res |-> Failed(code)]]
             /\ UNCHANGED exchange
    BY <1>2
  <2>2. Failed(code) \in Report /\ Failed(code).ex = 0
    BY FailedType DEF Failed
  <2>3. Sane' /\ Grown({kind}, o)
    BY <2>1 DEF Sane, Grown, exchange
  <2>4. Failed(code) \in Report /\ Failed(code).ex \in 0 .. Len(exo')
    BY <2>2, <2>3 DEF Sane
  <2> QED
    BY <2>1, <2>3, <2>4, GoesIntro
<1> QED
  BY <1>1, <1>2 DEF CreateOrder

LEMMA StopCancelledEffect ==
  ASSUME Sane, NEW x \in Nat, StopCancelled(x), UNCHANGED <<net, clock>>
  PROVE  Sane' /\ Grown({}, 0) /\ Len(exo') = Len(exo)
<1> DEFINE e == [exo[x] EXCEPT !.st = "canceled"]
<1>1. CASE x \in DOMAIN exo /\ exo' = [exo EXCEPT ![x] = e]
  <2>0. exo[x] \in ExgOrder
    BY <1>1 DEF Sane
  <2>1. e \in ExgOrder /\ e.st = "canceled" /\ e.od = exo[x].od /\ e.kind = exo[x].kind
    BY <2>0 DEF ExgOrder
  <2> HIDE DEF e
  <2>2. /\ exo' \in Seq(ExgOrder) /\ Len(exo') = Len(exo) /\ DOMAIN exo' = DOMAIN exo
        /\ \A y \in DOMAIN exo : y # x => exo'[y] = exo[y]
        /\ exo'[x] = e
    BY <1>1, <2>1 DEF Sane
  <2> QED
    BY <2>1, <2>2 DEF Sane, Grown
<1>2. CASE exo' = exo
  BY <1>2 DEF Sane, Grown
<1>3. exo' = exo \/ exo' = [exo EXCEPT ![x] = e]
  BY DEF StopCancelled
<1>4. x \notin DOMAIN exo => [exo EXCEPT ![x] = e] = exo
  BY DEF Sane
<1> QED
  BY <1>1, <1>2, <1>3, <1>4

LEMMA CancelEnterEffect ==
  ASSUME Sane, NEW g \in Threads, NEW o \in Orders, NEW x \in 0 .. Len(exo),
         CancelEnter(g, o, x)
  PROVE  Sane' /\ Grown({}, o) /\ Len(exo') = Len(exo) /\ Goes(g, "canceled", o)
<1> DEFINE e == [exo[x] EXCEPT !.st = "canceled"]
           r == ReportOf(x, e)
<1>1. CASE /\ Cancellable(x)
           /\ exo' = [exo EXCEPT ![x] = e]
           /\ clock' = clock + 1
           /\ net' = net \cup {r}
           /\ run' = [run EXCEPT ![g] = [at |-> "canceled", od |-> o, res |-> r]]
  <2>0. x # 0
    BY <1>1 DEF Cancellable
  <2>1. x \in DOMAIN exo /\ exo[x] \in ExgOrder
    BY <2>0 DEF Sane
  <2>2. e \in ExgOrder /\ e.od = exo[x].od /\ e.kind = exo[x].kind /\ e.st = "canceled"
    BY <2>1 DEF ExgOrder
  <2> HIDE DEF e
  <2>3. Sane' /\ Grown({}, e.od) /\ Len(exo') = Len(exo)
    BY <1>1, <2>1, <2>2, ReplacedOrder
  <2>4. r \in Report /\ r.ex = x
    BY <2>2, ReportOfType DEF Sane
  <2>5. Grown({}, o)
    BY <2>3 DEF Grown
  <2>6. r \in Report /\ r.ex \in 0 .. Len(exo)
    BY <2>4
  <2> HIDE DEF r
  <2> QED
    BY <1>1, <2>3, <2>5, <2>6, GoesIntro DEF Steps
<1>2. CASE /\ run' = [run EXCEPT ![g] = [at |-> "canceled", od |-> o, res |-> Failed("err")]]
           /\ UNCHANGED exchange
  <2>1. Failed("err") \in Report /\ Failed("err").ex = 0
    BY FailedType DEF Failed
  <2>2. Sane' /\ Grown({}, o)
    BY <1>2 DEF Sane, Grown, exchange
  <2>3. Failed("err").ex \in 0 .. Len(exo) /\ exo' = exo
    BY <1>2, <2>1 DEF Sane, exchange
  <2> QED
    BY <1>2, <2>1, <2>2, <2>3, GoesIntro DEF Steps
<1> QED
  BY <1>1, <1>2 DEF CancelEnter

(* No step takes an order back. *)

\* The predicates of an order, of the next state.
NowOpened(p) == ord'[p].status # "None"
NowEntryClosed(p) == ord'[p].enter.st = "Closed"
NowEntered(p) == ord'[p].status \in {"FullEnter", "FullExit"}
NowUntouched(p) == ord'[p].status = "Init" /\ ord'[p].enter.st = "Init"
NowHolds(h, p) == run'[h].od = p /\ run'[h].at \notin {"idle", "wait"}

Forward ==
  \A o \in Orders :
    /\ Opened(o) => NowOpened(o)
    /\ Entered(o) => NowEntered(o)
    /\ ord[o].status = "FullExit" => ord'[o].status = "FullExit"

LEMMA IInvSane == IInv => Sane
BY DEF IInv, TypeOK, IdsNameOrders, Sane

LEMMA OrdersNamed ==
  ASSUME TypeOK
  PROVE  /\ \A x \in DOMAIN exo : exo[x] \in ExgOrder /\ exo[x].od \in Orders
         /\ \A i \in DOMAIN queue : queue[i] \in OdQItem /\ queue[i].od \in Orders
         /\ \A g \in Threads : run[g] \in Work /\ run[g].od \in Orders
<1>1. exo \in Seq(ExgOrder) /\ queue \in Seq(OdQItem) /\ run \in [Threads -> Work]
  BY DEF TypeOK
<1>2. \A x \in DOMAIN exo : exo[x] \in ExgOrder
  BY <1>1
<1>3. \A i \in DOMAIN queue : queue[i] \in OdQItem
  BY <1>1
<1> QED
  BY <1>1, <1>2, <1>3 DEF ExgOrder, OdQItem, Work

\* Another handler that holds the order is at no step that could tell.
LEMMA SharedOnlyWhenClosed ==
  ASSUME IInv, NEW g \in Threads, NEW h \in Threads, g # h, NEW o \in Orders,
         Holds(g, o) \/ LockFree(o), Holds(h, o)
  PROVE  /\ db[o].status = "FullExit" /\ ord[o].status = "FullExit"
         /\ run[h].at \notin {"entered", "canceled", "exited"}
<1>1. db[o].status = "FullExit"
  BY DEF IInv, LockedUntilClosed, LockFree, Threads
<1>2. ord[o].status = "FullExit"
  BY <1>1 DEF IInv, LockedUntilClosed
<1> QED
  BY <1>1, <1>2 DEF IInv, LockedUntilClosed, Untouched, NowUntouched, Holds, NowHolds

\* A step of handler g on order o, which becomes od, keeps the invariant.
LEMMA HandlerStep ==
  ASSUME IInv, NEW g \in Threads, NEW o \in Orders, NEW od \in InOutOrder, NEW w \in Work,
         NEW kinds,
         \* the order, before and after
         Opened(o), \A i \in DOMAIN queue : queue[i].act = "Enter" => queue[i].od # o,
         Holds(g, o) \/ LockFree(o),
         od.status # "None", EntryClosed(o) => od.enter.st = "Closed",
         Entered(o) => od.status \in {"FullEnter", "FullExit"},
         ord[o].status = "FullExit" => od.status = "FullExit",
         od.status \in {"FullEnter", "FullExit"} => od.enter.st = "Closed",
         \* where the handler goes
         w.od = o \/ w.at = "idle", w.at \notin {"wait", "entered"},
         w.at \in {"exit", "exited"} => od.enter.st = "Closed",
         w.at \in {"stop", "stopped"} => od.status \in {"FullEnter", "FullExit"},
         w.at \in {"canceled", "exited"} => od.status # "FullExit",
         \* the exchange
         Sane', Grown(kinds, o), kinds = {} \/ ("enter" \notin kinds /\ od.enter.st = "Closed"),
         w.res.ex \in 0 .. Len(exo'), od.enter.oid \in 0 .. Len(exo'),
         \* the step
         ord' = [ord EXCEPT ![o] = od], db' = db \/ db' = [db EXCEPT ![o] = od],
         run' = [run EXCEPT ![g] = w], UNCHANGED <<queue, exitReq>>,
         doneKeys' \in SUBSET Nat, exgIdMap' \in SUBSET Nat, doneTrades' \in SUBSET Nat
  PROVE  IInv' /\ Forward
<1>0. queue' = queue /\ exitReq' = exitReq
  OBVIOUS
<1>1. TypeOK'
  BY DEF IInv, TypeOK, Sane
<1>2. /\ ord'[o] = od /\ \A p \in Orders \ {o} : ord'[p] = ord[p]
      /\ db'[o] \in {db[o], od} /\ \A p \in Orders \ {o} : db'[p] = db[p]
      /\ run'[g] = w /\ \A h \in Threads \ {g} : run'[h] = run[h]
  BY DEF IInv, TypeOK
<1>3. Forward
  BY <1>2 DEF Forward, Opened, NowOpened, EntryClosed, NowEntryClosed, Entered, NowEntered
<1>4. /\ \A x \in DOMAIN exo : exo'[x].od = exo[x].od /\ exo'[x].kind = exo[x].kind
      /\ \A x \in DOMAIN exo' \ DOMAIN exo :
           exo'[x].od = o /\ exo'[x].kind # "enter" /\ od.enter.st = "Closed"
      /\ DOMAIN exo \subseteq DOMAIN exo'
      /\ 0 .. Len(exo) \subseteq 0 .. Len(exo')
  BY <1>1, IInvSane DEF Grown, TypeOK, Sane
<1>5. IdsNameOrders'
  <2>1. \A h \in Threads : run'[h].res.ex \in 0 .. Len(exo')
    BY <1>2, <1>4 DEF IInv, IdsNameOrders
  <2>2. \A p \in Orders : ord'[p].enter.oid \in 0 .. Len(exo')
    BY <1>2, <1>4 DEF IInv, IdsNameOrders
  <2>3. run'["trade"].at = "wait" =>
          /\ run'["trade"].res.ex \in DOMAIN exo'
          /\ exo'[run'["trade"].res.ex].od = run'["trade"].od
    BY <1>2, <1>4 DEF IInv, IdsNameOrders, Threads
  <2> QED
    BY <2>1, <2>2, <2>3 DEF IdsNameOrders, Sane
<1>6. OnlyOpened'
  <2>0. NowOpened(o) /\ \A p \in Orders : Opened(p) => NowOpened(p)
    BY <1>3 DEF Forward
  <2>1. \A x \in DOMAIN exo' : NowOpened(exo'[x].od)
    <3> SUFFICES ASSUME NEW x \in DOMAIN exo' PROVE NowOpened(exo'[x].od)
      OBVIOUS
    <3>1. CASE x \in DOMAIN exo
      <4>1. exo'[x].od = exo[x].od /\ exo[x].od \in Orders
        BY <3>1, <1>4, OrdersNamed DEF IInv
      <4> QED
        BY <3>1, <4>1, <2>0 DEF IInv, OnlyOpened, Opened, NowOpened
    <3>2. CASE x \notin DOMAIN exo
      BY <3>2, <1>4, <2>0 DEF Opened, NowOpened
    <3> QED
      BY <3>1, <3>2
  <2>2. \A i \in DOMAIN queue : NowOpened(queue[i].od)
    <3> SUFFICES ASSUME NEW i \in DOMAIN queue PROVE NowOpened(queue[i].od)
      OBVIOUS
    <3>1. queue[i].od \in Orders
      BY OrdersNamed DEF IInv
    <3> QED
      BY <3>1, <2>0 DEF IInv, OnlyOpened, Opened, NowOpened
  <2>3. \A h \in Threads : run'[h].at \notin {"idle", "wait"} => NowOpened(run'[h].od)
    <3> SUFFICES ASSUME NEW h \in Threads, run'[h].at \notin {"idle", "wait"} PROVE NowOpened(run'[h].od)
      OBVIOUS
    <3>1. CASE h = g
      BY <3>1, <1>2, <2>0 DEF Working, Opened, NowOpened
    <3>2. CASE h # g
      <4>1. run'[h] = run[h] /\ run[h].od \in Orders
        BY <3>2, <1>2, OrdersNamed DEF IInv
      <4> QED
        BY <4>1, <2>0 DEF IInv, OnlyOpened, Opened, NowOpened, Working
    <3> QED
      BY <3>1, <3>2
  <2>4. \A p \in Orders : p \in exitReq' \/ db'[p].status # "None" => NowOpened(p)
    BY <1>2, <2>0 DEF IInv, OnlyOpened
  <2> QED
    BY <1>0, <2>1, <2>2, <2>3, <2>4 DEF OnlyOpened, Opened, NowOpened, Working
<1>7. EnterOnce'
  <2> SUFFICES ASSUME NEW i \in DOMAIN queue, queue[i].act = "Enter"
               PROVE  /\ \A j \in DOMAIN queue : queue[j].od = queue[i].od => i <= j
                      /\ NowUntouched(queue[i].od)
                      /\ \A h \in Threads : ~ NowHolds(h, queue[i].od)
                      /\ \A x \in DOMAIN exo' : exo'[x].od # queue[i].od
    BY <1>0 DEF EnterOnce, Untouched, NowUntouched, Holds, NowHolds
  <2>1. queue[i].od \in Orders /\ queue[i].od # o
    BY OrdersNamed DEF IInv
  <2>2. NowUntouched(queue[i].od)
    BY <2>1, <1>2 DEF IInv, EnterOnce, Untouched, NowUntouched
  <2>3. \A h \in Threads : ~ NowHolds(h, queue[i].od)
    BY <2>1, <1>2 DEF IInv, EnterOnce, Holds, NowHolds
  <2>4. \A x \in DOMAIN exo' : exo'[x].od # queue[i].od
    BY <2>1, <1>4 DEF IInv, EnterOnce
  <2> QED
    BY <2>2, <2>3, <2>4 DEF IInv, EnterOnce
<1>8. EntryClosedFirst'
  <2>0. \A p \in Orders : (EntryClosed(p) => NowEntryClosed(p)) /\ (Entered(p) => NowEntered(p))
    BY <1>2 DEF EntryClosed, NowEntryClosed, Entered, NowEntered
  <2>1. \A p \in Orders : NowEntered(p) => NowEntryClosed(p)
    BY <1>2 DEF IInv, EntryClosedFirst, Entered, NowEntered, EntryClosed, NowEntryClosed
  <2>2. \A x \in DOMAIN exo' : exo'[x].kind # "enter" => NowEntryClosed(exo'[x].od)
    <3> SUFFICES ASSUME NEW x \in DOMAIN exo', exo'[x].kind # "enter"
                 PROVE NowEntryClosed(exo'[x].od)
      OBVIOUS
    <3>1. CASE x \in DOMAIN exo
      <4>1. exo'[x].od = exo[x].od /\ exo'[x].kind = exo[x].kind /\ exo[x].od \in Orders
        BY <3>1, <1>4, OrdersNamed DEF IInv
      <4> QED
        BY <3>1, <4>1, <2>0 DEF IInv, EntryClosedFirst, EntryClosed, NowEntryClosed
    <3>2. CASE x \notin DOMAIN exo
      BY <3>2, <1>4, <1>2 DEF EntryClosed, NowEntryClosed
    <3> QED
      BY <3>1, <3>2
  <2>3. \A h \in Threads : run'[h].at \in {"exit", "exited"} => NowEntryClosed(run'[h].od)
    <3> SUFFICES ASSUME NEW h \in Threads, run'[h].at \in {"exit", "exited"}
                 PROVE  NowEntryClosed(run'[h].od)
      OBVIOUS
    <3>1. CASE h = g
      BY <3>1, <1>2 DEF EntryClosed, NowEntryClosed
    <3>2. CASE h # g
      <4>1. run'[h] = run[h] /\ run[h].od \in Orders
        BY <3>2, <1>2, OrdersNamed DEF IInv
      <4> QED
        BY <4>1, <2>0 DEF IInv, EntryClosedFirst, EntryClosed, NowEntryClosed
    <3> QED
      BY <3>1, <3>2
  <2>4. \A h \in Threads : run'[h].at \in {"stop", "stopped"} => NowEntered(run'[h].od)
    <3> SUFFICES ASSUME NEW h \in Threads, run'[h].at \in {"stop", "stopped"}
                 PROVE  NowEntered(run'[h].od)
      OBVIOUS
    <3>1. CASE h = g
      BY <3>1, <1>2 DEF Entered, NowEntered
    <3>2. CASE h # g
      <4>1. run'[h] = run[h] /\ run[h].od \in Orders
        BY <3>2, <1>2, OrdersNamed DEF IInv
      <4> QED
        BY <4>1, <2>0 DEF IInv, EntryClosedFirst, Entered, NowEntered
    <3> QED
      BY <3>1, <3>2
  <2>5. \A i \in DOMAIN queue : queue[i].act = "StopLoss" => NowEntered(queue[i].od)
    <3> SUFFICES ASSUME NEW i \in DOMAIN queue, queue[i].act = "StopLoss"
                 PROVE  NowEntered(queue[i].od)
      OBVIOUS
    <3>1. queue[i].od \in Orders
      BY OrdersNamed DEF IInv
    <3> QED
      BY <3>1, <2>0 DEF IInv, EntryClosedFirst, Entered, NowEntered
  <2> QED
    BY <2>1, <2>2, <2>3, <2>4, <2>5 DEF EntryClosedFirst, Entered, NowEntered, EntryClosed, NowEntryClosed
<1>9. LockedUntilClosed'
  <2>1. \A p \in Orders : db'[p].status = "FullExit" => ord'[p].status = "FullExit"
    BY <1>2 DEF IInv, LockedUntilClosed
  <2>2. \A p \in Orders : (\A h \in Threads : NowHolds(h, p)) => db'[p].status = "FullExit"
    <3> SUFFICES ASSUME NEW p \in Orders, \A h \in Threads : NowHolds(h, p)
                 PROVE  db'[p].status = "FullExit"
      OBVIOUS
    <3>1. p = o
      BY <1>2 DEF Holds, NowHolds
    <3>2. PICK h \in Threads : h # g
      BY DEF Threads
    <3>3. Holds(h, o)
      BY <3>1, <3>2, <1>2 DEF Holds, NowHolds
    <3> QED
      BY <3>1, <3>2, <3>3, <1>2, SharedOnlyWhenClosed
  <2>3. ASSUME NEW h \in Threads, h # g, run[h].at \in {"entered", "canceled", "exited"}
        PROVE  run[h].od \in Orders \ {o}
    <3>1. run[h].od \in Orders
      BY OrdersNamed DEF IInv
    <3>2. run[h].od # o
      <4> SUFFICES ASSUME run[h].od = o PROVE FALSE
        OBVIOUS
      <4>1. Holds(h, o)
        BY <2>3 DEF Holds, NowHolds
      <4> QED
        BY <2>3, <4>1, SharedOnlyWhenClosed
    <3> QED
      BY <3>1, <3>2
  <2>4. \A h \in Threads : run'[h].at = "entered" => NowUntouched(run'[h].od)
    BY <1>2, <2>3 DEF IInv, LockedUntilClosed, Untouched, NowUntouched
  <2>5. \A h \in Threads :
          run'[h].at \in {"canceled", "exited"} => ord'[run'[h].od].status # "FullExit"
    BY <1>2, <2>3 DEF IInv, LockedUntilClosed
  <2> QED
    BY <2>1, <2>2, <2>4, <2>5 DEF LockedUntilClosed, Holds, NowHolds, Untouched, NowUntouched
<1> QED
  BY <1>1, <1>3, <1>5, <1>6, <1>7, <1>8, <1>9 DEF IInv

(* The steps of a handler, one lemma per action. *)

LEMMA HandlerHolds ==
  ASSUME IInv, NEW g \in Threads, run[g].at \notin {"idle", "wait"}
  PROVE  /\ run[g] \in Work /\ run[g].od \in Orders /\ run[g].res \in Report
         /\ Holds(g, run[g].od) /\ Opened(run[g].od)
         /\ \A i \in DOMAIN queue : queue[i].act = "Enter" => queue[i].od # run[g].od
         /\ ord[run[g].od] \in InOutOrder /\ ord[run[g].od].stop.oid \in Nat
         /\ run[g].res.ex \in 0 .. Len(exo) /\ ord[run[g].od].enter.oid \in 0 .. Len(exo)
<1>1. TypeOK
  BY DEF IInv
<1>2. run[g] \in Work /\ run[g].od \in Orders /\ run[g].res \in Report
  BY <1>1, OrdersNamed DEF Work
<1>3. ord[run[g].od] \in InOutOrder
  BY <1>1, <1>2 DEF TypeOK
<1>4. ord[run[g].od].stop.oid \in Nat
  BY <1>3 DEF InOutOrder, StopState
<1>5. Holds(g, run[g].od)
  BY DEF Holds
<1>6. \A i \in DOMAIN queue : queue[i].act = "Enter" => queue[i].od # run[g].od
  BY <1>5 DEF IInv, EnterOnce
<1> QED
  BY <1>2, <1>3, <1>4, <1>5, <1>6 DEF IInv, OnlyOpened, IdsNameOrders, Working

LEMMA GoStep ==
  ASSUME TypeOK, NEW g \in Threads, NEW step \in Steps, Go(g, step),
         run[g].res.ex \in 0 .. Len(exo')
  PROVE  Goes(g, step, run[g].od)
<1> DEFINE w == [run[g] EXCEPT !.at = step]
<1>1. run[g] \in Work
  BY DEF TypeOK
<1>2. w \in Work /\ w.at = step /\ w.od = run[g].od /\ w.res = run[g].res
  BY <1>1 DEF Work, Steps
<1>3. run' = [run EXCEPT ![g] = w]
  BY DEF Go
<1> QED
  BY <1>2, <1>3 DEF Goes

LEMMA ExchangeIdle ==
  ASSUME Sane, UNCHANGED exchange, NEW o
  PROVE  Sane' /\ Grown({}, o) /\ exo' = exo
BY DEF Sane, Grown, exchange

LEMMA BecomeStep ==
  ASSUME NEW o \in Orders, NEW od, Become(o, od)
  PROVE  ord' = [ord EXCEPT ![o] = od] /\ (db' = db \/ db' = [db EXCEPT ![o] = od])
BY DEF Become

LEMMA FinishedType ==
  ASSUME TypeOK, NEW od \in InOutOrder
  PROVE  Finished(od) \in SUBSET Nat
BY DEF TypeOK, Finished, InOutOrder, SubOrder

LEMMA OrderKept ==
  ASSUME TypeOK, NEW o \in Orders, UNCHANGED ord
  PROVE  ord' = [ord EXCEPT ![o] = ord[o]]
BY DEF TypeOK

\* What an order that is handled already is, so that staying it keeps the invariant.
LEMMA StaysFit ==
  ASSUME IInv, NEW o \in Orders
  PROVE  ord[o].status \in {"FullEnter", "FullExit"} => ord[o].enter.st = "Closed"
BY DEF IInv, EntryClosedFirst, Entered, EntryClosed

LEMMA SaveUnlockStep ==
  ASSUME IInv, NEW g \in Threads, SaveUnlock(g)
  PROVE  IInv' /\ Forward
<1> DEFINE o == run[g].od
<1>1. run[g].at = "save" /\ run' = [run EXCEPT ![g] = Idle] /\ UNCHANGED <<ord, exitReq, queue,
        doneKeys, exgIdMap, doneTrades, exchange>> /\ (db' = db \/ db' = [db EXCEPT ![o] = ord[o]])
  BY DEF SaveUnlock
<1>2. TypeOK /\ Sane /\ o \in Orders /\ Holds(g, o) /\ Opened(o) /\ ord[o] \in InOutOrder
      /\ (\A i \in DOMAIN queue : queue[i].act = "Enter" => queue[i].od # o)
      /\ ord[o].enter.oid \in 0 .. Len(exo)
  BY <1>1, HandlerHolds, IInvSane DEF IInv
<1>3. Sane' /\ Grown({}, o) /\ exo' = exo
  BY <1>1, <1>2, ExchangeIdle
<1>4. Idle \in Work /\ Idle.at = "idle" /\ Idle.res.ex \in 0 .. Len(exo')
  BY <1>2, <1>3, IdleType DEF Idle, Failed, Sane
<1>5. ord' = [ord EXCEPT ![o] = ord[o]]
  BY <1>1, <1>2, OrderKept
<1>6. doneKeys' \in SUBSET Nat /\ exgIdMap' \in SUBSET Nat /\ doneTrades' \in SUBSET Nat
  BY <1>1, <1>2 DEF TypeOK
<1>7. UNCHANGED <<queue, exitReq>>
  BY <1>1
<1>8. ord[o].status # "None" /\ (EntryClosed(o) => ord[o].enter.st = "Closed")
      /\ (Entered(o) => ord[o].status \in {"FullEnter", "FullExit"})
  BY <1>2 DEF Opened, EntryClosed, Entered
<1> HIDE DEF o
<1> QED
  BY <1>1, <1>2, <1>3, <1>4, <1>5, <1>6, <1>7, <1>8, StaysFit, HandlerStep

\* The order o may become od.
Fits(o, od) ==
  /\ od.status # "None"
  /\ EntryClosed(o) => od.enter.st = "Closed"
  /\ Entered(o) => od.status \in {"FullEnter", "FullExit"}
  /\ ord[o].status = "FullExit" => od.status = "FullExit"
  /\ od.status \in {"FullEnter", "FullExit"} => od.enter.st = "Closed"
  /\ od.enter.oid \in 0 .. Len(exo')

\* Only the fields that the invariant does not look at may differ.
LEMMA SameFits ==
  ASSUME IInv, NEW o \in Orders, NEW od, Opened(o), Len(exo) <= Len(exo'), Sane, Sane',
         od.status = ord[o].status, od.enter = ord[o].enter
  PROVE  Fits(o, od)
<1>1. ord[o].enter.oid \in 0 .. Len(exo) /\ Len(exo) \in Nat /\ Len(exo') \in Nat
  BY DEF IInv, IdsNameOrders, Sane
<1>2. ord[o].status \in {"FullEnter", "FullExit"} => ord[o].enter.st = "Closed"
  BY StaysFit
<1> QED
  BY <1>1, <1>2 DEF Fits, Opened, EntryClosed, Entered

\* A handler at work does a step on its order.
LEMMA HandlerGoes ==
  ASSUME IInv, NEW g \in Threads, NEW od \in InOutOrder, NEW kinds,
         NEW step \in Steps \ {"idle", "wait", "entered"},
         run[g].at \notin {"idle", "wait"}, Fits(run[g].od, od),
         step \in {"exit", "exited"} => od.enter.st = "Closed",
         step \in {"stop", "stopped"} => od.status \in {"FullEnter", "FullExit"},
         step \in {"canceled", "exited"} => od.status # "FullExit",
         Sane', Grown(kinds, run[g].od),
         kinds = {} \/ ("enter" \notin kinds /\ od.enter.st = "Closed"),
         ord' = [ord EXCEPT ![run[g].od] = od],
         db' = db \/ db' = [db EXCEPT ![run[g].od] = od],
         Goes(g, step, run[g].od), UNCHANGED <<queue, exitReq>>,
         doneKeys' \in SUBSET Nat, exgIdMap' \in SUBSET Nat, doneTrades' \in SUBSET Nat
  PROVE  IInv' /\ Forward
<1> DEFINE o == run[g].od
<1>1. o \in Orders /\ Holds(g, o) /\ Opened(o)
      /\ (\A i \in DOMAIN queue : queue[i].act = "Enter" => queue[i].od # o)
  BY HandlerHolds
<1>2. PICK w \in Work : /\ run' = [run EXCEPT ![g] = w]
                        /\ w.at = step /\ w.od = o /\ w.res.ex \in 0 .. Len(exo')
  BY DEF Goes
<1> HIDE DEF o
<1>3. ord' = [ord EXCEPT ![o] = od] /\ (db' = db \/ db' = [db EXCEPT ![o] = od])
      /\ Fits(o, od) /\ Grown(kinds, o)
  BY DEF o
<1>4. UNCHANGED <<queue, exitReq>>
  OBVIOUS
<1>5. /\ w.od = o \/ w.at = "idle"
      /\ w.at \notin {"wait", "entered"}
      /\ w.at \in {"exit", "exited"} => od.enter.st = "Closed"
      /\ w.at \in {"stop", "stopped"} => od.status \in {"FullEnter", "FullExit"}
      /\ w.at \in {"canceled", "exited"} => od.status # "FullExit"
  BY <1>2
<1>6. /\ od.status # "None"
      /\ EntryClosed(o) => od.enter.st = "Closed"
      /\ Entered(o) => od.status \in {"FullEnter", "FullExit"}
      /\ ord[o].status = "FullExit" => od.status = "FullExit"
      /\ od.status \in {"FullEnter", "FullExit"} => od.enter.st = "Closed"
      /\ od.enter.oid \in 0 .. Len(exo')
  BY <1>3 DEF Fits
<1>7. kinds = {} \/ ("enter" \notin kinds /\ od.enter.st = "Closed")
  OBVIOUS
<1> QED
  BY <1>1, <1>2, <1>3, <1>4, <1>5, <1>6, <1>7, HandlerStep

LEMMA CancelTriggerOdsStep ==
  ASSUME IInv, NEW g \in Threads, CancelTriggerOds(g)
  PROVE  IInv' /\ Forward
<1> DEFINE o == run[g].od
           od == [ord[o] EXCEPT !.stop.oid = 0]
<1>1. run[g].at = "cleanup" /\ StopCancelled(ord[o].stop.oid)
      /\ ord' = [ord EXCEPT ![o].stop.oid = 0] /\ Go(g, "save")
      /\ UNCHANGED <<db, exitReq, queue, doneKeys, exgIdMap, doneTrades, net, clock>>
  BY DEF CancelTriggerOds
<1>2. TypeOK /\ Sane /\ o \in Orders /\ Opened(o) /\ ord[o] \in InOutOrder
      /\ ord[o].stop.oid \in Nat /\ run[g].res.ex \in 0 .. Len(exo)
  BY <1>1, HandlerHolds, IInvSane DEF IInv
<1>3. Sane' /\ Grown({}, 0) /\ Len(exo') = Len(exo)
  BY <1>1, <1>2, StopCancelledEffect
<1>4. od \in InOutOrder /\ od.status = ord[o].status /\ od.enter = ord[o].enter
  BY <1>2 DEF InOutOrder, StopState
<1>5. ord' = [ord EXCEPT ![o] = od]
  BY <1>1, <1>2 DEF TypeOK
<1> HIDE DEF od
<1>6. Fits(o, od)
  BY <1>2, <1>3, <1>4, SameFits DEF Grown
<1>7. Goes(g, "save", o)
  BY <1>1, <1>2, <1>3, GoStep DEF Steps
<1>8. doneKeys' \in SUBSET Nat /\ exgIdMap' \in SUBSET Nat /\ doneTrades' \in SUBSET Nat
      /\ db' = db /\ UNCHANGED <<queue, exitReq>>
  BY <1>1, <1>2 DEF TypeOK
<1>9. Grown({}, o)
  BY <1>3 DEF Grown
<1> QED
  BY <1>1, <1>3, <1>4, <1>5, <1>6, <1>7, <1>8, <1>9, HandlerGoes DEF Steps

LEMMA ExitSubmittedStep ==
  ASSUME IInv, NEW g \in Threads, ExitSubmitted(g)
  PROVE  IInv' /\ Forward
<1> DEFINE o == run[g].od
           r == run[g].res
           od == CASE r.st = "err" -> ord[o]
                   [] r.st = "reduceOnly" -> LocalExit(ord[o], clock)
                   [] OTHER -> ExitAnswered(ord[o], r)
           replaced == {ord[o].exit.oid} \ {0, r.ex}
           step == IF r.st = "err" THEN "save" ELSE "cleanup"
<1>1. /\ run[g].at = "exited" /\ Become(o, od) /\ Go(g, step)
      /\ \/ UNCHANGED <<doneKeys, exgIdMap>>
         \/ doneKeys' = Finished(od) \cup replaced /\ exgIdMap' = exgIdMap \cup {r.ex}
      /\ UNCHANGED <<exitReq, queue, doneTrades, exchange>>
  BY DEF ExitSubmitted
<1>2. TypeOK /\ Sane /\ o \in Orders /\ Opened(o) /\ ord[o] \in InOutOrder
      /\ r \in Report /\ r.ex \in 0 .. Len(exo) /\ ord[o].enter.oid \in 0 .. Len(exo)
      /\ clock \in Nat
  BY <1>1, HandlerHolds, IInvSane DEF IInv, Sane
<1>3. Sane' /\ Grown({}, o) /\ exo' = exo
  BY <1>1, <1>2, ExchangeIdle
<1>4. EntryClosed(o) /\ ord[o].status # "FullExit"
  BY <1>1, SMTT(40) DEF IInv, EntryClosedFirst, LockedUntilClosed
<1>5. /\ od \in InOutOrder /\ od.enter.st = "Closed" /\ od.enter.oid = ord[o].enter.oid
      /\ od.status \in {ord[o].status, "FullEnter", "FullExit"}
  <2>1. CASE r.st = "err"
    BY <2>1, <1>2, <1>4 DEF EntryClosed
  <2>2. CASE r.st = "reduceOnly"
    BY <2>2, <1>2, LocalExitType, LocalExitCloses
  <2>3. CASE r.st \notin {"err", "reduceOnly"}
    BY <2>3, <1>2, <1>4, ExitAnsweredType, ExitAnsweredEffect DEF EntryClosed
  <2> QED
    BY <2>1, <2>2, <2>3
<1> HIDE DEF od
<1>6. Fits(o, od)
  BY <1>2, <1>3, <1>4, <1>5 DEF Fits, Opened, Entered, EntryClosed
<1>7. step \in Steps /\ Goes(g, step, o)
  BY <1>1, <1>2, <1>3, GoStep DEF Steps
<1>8. ord' = [ord EXCEPT ![o] = od] /\ (db' = db \/ db' = [db EXCEPT ![o] = od])
  BY <1>1, <1>2, BecomeStep
<1>9. doneKeys' \in SUBSET Nat /\ exgIdMap' \in SUBSET Nat /\ doneTrades' \in SUBSET Nat
      /\ UNCHANGED <<queue, exitReq>>
  <2>1. ord[o].exit.oid \in Nat /\ r.ex \in Nat
    BY <1>2 DEF InOutOrder, SubOrder, Report
  <2> QED
    BY <2>1, <1>1, <1>2, <1>5, FinishedType DEF TypeOK
<1> QED
  BY <1>1, <1>3, <1>5, <1>6, <1>7, <1>8, <1>9, HandlerGoes

LEMMA EnterSubmittedStep ==
  ASSUME IInv, NEW g \in Threads, EnterSubmitted(g)
  PROVE  IInv' /\ Forward
<1> DEFINE o == run[g].od
           r == run[g].res
           od == IF r.st = "err" THEN LocalExit(ord[o], clock) ELSE EnterAnswered(ord[o], r)
           step == IF r.st # "err" /\ od.status = "FullEnter" THEN "stop" ELSE "save"
<1>1. /\ run[g].at = "entered" /\ Become(o, od) /\ Go(g, step)
      /\ doneKeys' \in {doneKeys, Finished(od)}
      /\ exgIdMap' \in {exgIdMap, exgIdMap \cup {r.ex}}
      /\ UNCHANGED <<exitReq, queue, doneTrades, exchange>>
  BY DEF EnterSubmitted
<1>2. TypeOK /\ Sane /\ o \in Orders /\ Opened(o) /\ ord[o] \in InOutOrder
      /\ r \in Report /\ r.ex \in 0 .. Len(exo) /\ ord[o].enter.oid \in 0 .. Len(exo)
      /\ clock \in Nat
  BY <1>1, HandlerHolds, IInvSane DEF IInv, Sane
<1>3. Sane' /\ Grown({}, o) /\ exo' = exo
  BY <1>1, <1>2, ExchangeIdle
<1>4. Untouched(o)
  BY <1>1 DEF IInv, LockedUntilClosed
<1>5. /\ od \in InOutOrder /\ od.enter.oid \in 0 .. Len(exo)
      /\ od.status = "Init" \/ (od.status \in {"FullEnter", "FullExit"} /\ od.enter.st = "Closed")
  <2>1. CASE r.st = "err"
    BY <2>1, <1>2, LocalExitType, LocalExitCloses
  <2>2. CASE r.st # "err"
    BY <2>2, <1>2, <1>4, EnterAnsweredType, EnterAnsweredEffect DEF Untouched
  <2> QED
    BY <2>1, <2>2
<1> HIDE DEF od
<1>6. Fits(o, od)
  BY <1>3, <1>4, <1>5 DEF Fits, Untouched, Entered, EntryClosed
<1>7. step \in {"stop", "save"} /\ Goes(g, step, o) /\ (step = "stop" => od.status = "FullEnter")
  BY <1>1, <1>2, <1>3, GoStep DEF Steps
<1>8. ord' = [ord EXCEPT ![o] = od] /\ (db' = db \/ db' = [db EXCEPT ![o] = od])
  BY <1>1, <1>2, BecomeStep
<1>9. doneKeys' \in SUBSET Nat /\ exgIdMap' \in SUBSET Nat /\ doneTrades' \in SUBSET Nat
      /\ UNCHANGED <<queue, exitReq>>
  <2>1. r.ex \in Nat
    BY <1>2 DEF Report
  <2> QED
    BY <2>1, <1>1, <1>2, <1>5, FinishedType DEF TypeOK
<1> HIDE DEF step
<1> QED
  BY <1>1, <1>3, <1>5, <1>6, <1>7, <1>8, <1>9, HandlerGoes DEF Steps

LEMMA EnterCancelledStep ==
  ASSUME IInv, NEW g \in Threads, EnterCancelled(g)
  PROVE  IInv' /\ Forward
<1> DEFINE o == run[g].od
           r == run[g].res
           done == r.st = "canceled"
           od == IF done THEN EnterAnswered(ord[o], r) ELSE ord[o]
           shut == [od EXCEPT !.enter.st = "Closed"]
           set == SetExit(shut, clock)
           closed == [set EXCEPT !.status = "FullExit", !.exit.st = "Closed"]
           last == IF od.enter.filled = 0 THEN closed ELSE shut
           step == IF od.enter.filled = 0 THEN "cleanup" ELSE "exit"
<1>1. /\ run[g].at = "canceled" /\ Become(o, last) /\ Go(g, step)
      /\ doneKeys' = Finished(last)
      /\ exgIdMap' \in {exgIdMap, exgIdMap \cup {r.ex}}
      /\ UNCHANGED <<exitReq, queue, doneTrades, exchange>>
  BY ZenonT(40) DEF EnterCancelled
<1>2. TypeOK /\ Sane /\ o \in Orders /\ Opened(o) /\ ord[o] \in InOutOrder
      /\ r \in Report /\ r.ex \in 0 .. Len(exo) /\ ord[o].enter.oid \in 0 .. Len(exo)
      /\ clock \in Nat
  BY <1>1, HandlerHolds, IInvSane, ZenonT(40) DEF IInv, Sane
<1>3. Sane' /\ Grown({}, o) /\ exo' = exo
  BY <1>1, <1>2, ExchangeIdle, ZenonT(40)
<1>4. ord[o].status # "FullExit"
  BY <1>1, ZenonT(40) DEF IInv, LockedUntilClosed
<1>5. /\ od \in InOutOrder /\ od.enter.oid \in 0 .. Len(exo)
      /\ od.status \in {ord[o].status, "FullEnter", "FullExit"}
  BY <1>2, EnterAnsweredType, EnterAnsweredEffect
<1> HIDE DEF od
<1>6. /\ shut \in InOutOrder /\ shut.enter.oid = od.enter.oid
      /\ shut.enter.st = "Closed" /\ shut.status = od.status
  <2>1. [od.enter EXCEPT !.st = "Closed"] \in SubOrder /\ od.enter \in SubOrder
    BY <1>5 DEF InOutOrder, SubOrder
  <2>2. [od.enter EXCEPT !.st = "Closed"].oid = od.enter.oid
        /\ [od.enter EXCEPT !.st = "Closed"].st = "Closed"
    BY <2>1 DEF SubOrder
  <2>3. shut = [od EXCEPT !.enter = [od.enter EXCEPT !.st = "Closed"]]
    BY <1>5 DEF InOutOrder
  <2> QED
    BY <1>5, <2>1, <2>2, <2>3 DEF InOutOrder
<1> HIDE DEF shut
<1>7. set \in InOutOrder /\ set.enter = shut.enter
  BY <1>2, <1>6, SetExitType, SetExitKeeps
<1> HIDE DEF set
<1>8. closed \in InOutOrder /\ closed.enter = set.enter /\ closed.status = "FullExit"
  <2>1. [set.exit EXCEPT !.st = "Closed"] \in SubOrder
    BY <1>7 DEF InOutOrder, SubOrder
  <2> QED
    BY <1>7, <2>1 DEF InOutOrder
<1> HIDE DEF closed
<1>9. /\ last \in InOutOrder /\ last.enter.oid \in 0 .. Len(exo) /\ last.enter.st = "Closed"
      /\ last.status \in {ord[o].status, "FullEnter", "FullExit"}
  BY <1>5, <1>6, <1>7, <1>8
<1> HIDE DEF last
<1>10. Fits(o, last)
  BY <1>2, <1>3, <1>4, <1>9 DEF Fits, Opened, Entered, EntryClosed
<1>11. step \in {"cleanup", "exit"} /\ Goes(g, step, o)
  BY <1>1, <1>2, <1>3, GoStep DEF Steps
<1>12. ord' = [ord EXCEPT ![o] = last] /\ (db' = db \/ db' = [db EXCEPT ![o] = last])
  BY <1>1, <1>2, BecomeStep
<1>13. doneKeys' \in SUBSET Nat /\ exgIdMap' \in SUBSET Nat /\ doneTrades' \in SUBSET Nat
       /\ UNCHANGED <<queue, exitReq>>
  <2>1. r.ex \in Nat
    BY <1>2 DEF Report
  <2> QED
    BY <2>1, <1>1, <1>2, <1>9, FinishedType DEF TypeOK
<1> HIDE DEF step
<1> QED
  BY <1>1, <1>3, <1>9, <1>10, <1>11, <1>12, <1>13, HandlerGoes, ZenonT(40) DEF Steps

LEMMA SubmitExitStep ==
  ASSUME IInv, NEW g \in Threads, SubmitExit(g)
  PROVE  IInv' /\ Forward
<1> DEFINE o == run[g].od
           amt == IF ord[o].exit.amt = 0 THEN ord[o].enter.filled ELSE ord[o].exit.amt
           od == [ord[o] EXCEPT !.exit.amt = amt, !.status = IF amt = 0 THEN "FullExit" ELSE @]
<1>1. run[g].at = "exit" /\ UNCHANGED <<exitReq, queue, exgIdMap, doneTrades>>
  BY DEF SubmitExit
<1>2. TypeOK /\ Sane /\ o \in Orders /\ Opened(o) /\ ord[o] \in InOutOrder
      /\ run[g].res.ex \in 0 .. Len(exo) /\ ord[o].enter.oid \in 0 .. Len(exo)
  BY <1>1, HandlerHolds, IInvSane DEF IInv
<1>3. EntryClosed(o)
  BY <1>1 DEF IInv, EntryClosedFirst
<1>4. exgIdMap' \in SUBSET Nat /\ doneTrades' \in SUBSET Nat /\ UNCHANGED <<queue, exitReq>>
  BY <1>1, <1>2 DEF TypeOK
<1>5. CASE ord[o].status = "FullExit"
  <2>1. Go(g, "save") /\ UNCHANGED <<ord, db, doneKeys, exchange>>
    BY <1>5 DEF SubmitExit
  <2>2. Sane' /\ Grown({}, o) /\ exo' = exo
    BY <2>1, <1>2, ExchangeIdle
  <2>3. Goes(g, "save", o)
    BY <2>1, <2>2, <1>2, GoStep DEF Steps
  <2>4. Fits(o, ord[o])
    BY <1>2, <2>2, SameFits, SMTT(40) DEF Sane
  <2>5. ord' = [ord EXCEPT ![o] = ord[o]] /\ db' = db /\ doneKeys' \in SUBSET Nat
    BY <2>1, <1>2, OrderKept DEF TypeOK
  <2> QED
    BY <1>1, <1>2, <1>4, <2>2, <2>3, <2>4, <2>5, HandlerGoes DEF Steps
<1>6. CASE ord[o].status # "FullExit"
  <2>1. /\ Become(o, od) /\ doneKeys' = Finished(od)
        /\ IF amt = 0 THEN Go(g, "cleanup") /\ UNCHANGED exchange
           ELSE CreateOrder(g, o, "exit", amt, "exited")
    BY <1>6, ZenonT(40) DEF SubmitExit
  <2>2. amt \in 0 .. Amount
    BY <1>2 DEF InOutOrder, SubOrder
  <2>3. /\ od \in InOutOrder /\ od.enter = ord[o].enter
        /\ od.status = IF amt = 0 THEN "FullExit" ELSE ord[o].status
    <3>1. [ord[o].exit EXCEPT !.amt = amt] \in SubOrder
      BY <1>2, <2>2 DEF InOutOrder, SubOrder
    <3> HIDE DEF amt
    <3> QED
      BY <1>2, <3>1 DEF InOutOrder
  <2> HIDE DEF amt, od
  <2>4. ord' = [ord EXCEPT ![o] = od] /\ (db' = db \/ db' = [db EXCEPT ![o] = od])
        /\ doneKeys' \in SUBSET Nat
    BY <2>1, <2>3, <1>2, BecomeStep, FinishedType
  <2>5. CASE amt = 0
    <3>1. Sane' /\ Grown({}, o) /\ exo' = exo
      BY <2>1, <2>5, <1>2, ExchangeIdle
    <3>2. Goes(g, "cleanup", o)
      BY <2>1, <2>5, <3>1, <1>2, GoStep DEF Steps
    <3>3. Fits(o, od)
      BY <1>2, <1>3, <2>3, <2>5, <3>1 DEF Fits, EntryClosed, Opened, Entered
    <3> QED
      BY <1>1, <1>4, <2>3, <2>4, <3>1, <3>2, <3>3, HandlerGoes DEF Steps
  <2>6. CASE amt # 0
    <3>1. Sane' /\ Grown({"exit"}, o) /\ Goes(g, "exited", o)
      BY <2>1, <2>2, <2>6, <1>2, CreateOrderEffect DEF Steps
    <3>2. Fits(o, od)
      BY <1>2, <2>3, <2>6, <3>1, SameFits DEF Grown
    <3>3. od.enter.st = "Closed" /\ od.status # "FullExit"
      BY <1>3, <1>6, <2>3, <2>6 DEF EntryClosed
    <3> QED
      BY <1>1, <1>4, <2>3, <2>4, <3>1, <3>2, <3>3, HandlerGoes DEF Steps
  <2> QED
    BY <2>5, <2>6
<1> QED
  BY <1>5, <1>6

LEMMA EditTriggerStep ==
  ASSUME IInv, NEW g \in Threads, EditTrigger(g)
  PROVE  IInv' /\ Forward
<1> DEFINE o == run[g].od
           od == [ord[o] EXCEPT !.stop.old = TRUE]
<1>1. run[g].at = "stop" /\ UNCHANGED <<db, exitReq, queue, doneKeys, exgIdMap, doneTrades>>
  BY DEF EditTrigger
<1>2. TypeOK /\ Sane /\ o \in Orders /\ Opened(o) /\ ord[o] \in InOutOrder
      /\ run[g].res.ex \in 0 .. Len(exo)
  BY <1>1, HandlerHolds, IInvSane DEF IInv
<1>3. Entered(o) /\ ord[o].enter.st = "Closed"
  BY <1>1, <1>2 DEF IInv, EntryClosedFirst, Entered, EntryClosed
<1>4. doneKeys' \in SUBSET Nat /\ exgIdMap' \in SUBSET Nat /\ doneTrades' \in SUBSET Nat
      /\ db' = db /\ UNCHANGED <<queue, exitReq>>
  BY <1>1, <1>2 DEF TypeOK
<1>5. CASE Go(g, "save") /\ UNCHANGED <<ord, exchange>>
  <2>1. Sane' /\ Grown({}, o) /\ exo' = exo
    BY <1>5, <1>2, ExchangeIdle
  <2>2. Goes(g, "save", o)
    BY <1>5, <2>1, <1>2, GoStep DEF Steps
  <2>3. Fits(o, ord[o])
    BY <1>2, <2>1, SameFits DEF Sane
  <2>4. ord' = [ord EXCEPT ![o] = ord[o]]
    BY <1>5, <1>2, OrderKept
  <2> QED
    BY <1>1, <1>2, <1>4, <2>1, <2>2, <2>3, <2>4, HandlerGoes DEF Steps
<1>6. CASE ord' = [ord EXCEPT ![o].stop.old = TRUE]
             /\ CreateOrder(g, o, "stop", ord[o].enter.amt, "stopped")
  <2>1. ord[o].enter.amt \in 0 .. Amount
    BY <1>2 DEF InOutOrder, SubOrder
  <2>2. Sane' /\ Grown({"stop"}, o) /\ Goes(g, "stopped", o)
    BY <1>6, <1>2, <2>1, CreateOrderEffect DEF Steps
  <2>3. od \in InOutOrder /\ od.enter = ord[o].enter /\ od.status = ord[o].status
    BY <1>2 DEF InOutOrder, StopState
  <2>4. ord' = [ord EXCEPT ![o] = od]
    BY <1>6, <1>2 DEF TypeOK
  <2> HIDE DEF od
  <2>5. Fits(o, od)
    BY <1>2, <2>2, <2>3, SameFits DEF Grown
  <2>6. od.enter.st = "Closed" /\ od.status \in {"FullEnter", "FullExit"}
    BY <1>3, <2>3 DEF Entered
  <2> QED
    BY <1>1, <1>4, <2>2, <2>3, <2>4, <2>5, <2>6, HandlerGoes DEF Steps
<1> QED
  BY <1>5, <1>6 DEF EditTrigger

LEMMA TriggerPutStep ==
  ASSUME IInv, NEW g \in Threads, TriggerPut(g)
  PROVE  IInv' /\ Forward
<1> DEFINE o == run[g].od
           r == run[g].res
           prev == ord[o].stop.oid
<1>1. run[g].at = "stopped"
      /\ UNCHANGED <<db, exitReq, queue, doneKeys, exgIdMap, doneTrades, net, clock>>
  BY DEF TriggerPut
<1>2. TypeOK /\ Sane /\ o \in Orders /\ Opened(o) /\ ord[o] \in InOutOrder
      /\ r \in Report /\ r.ex \in 0 .. Len(exo) /\ prev \in Nat /\ clock \in Nat
  BY <1>1, HandlerHolds, IInvSane DEF IInv, Sane
<1>3. Entered(o) /\ ord[o].enter.st = "Closed"
  BY <1>1, <1>2 DEF IInv, EntryClosedFirst, Entered, EntryClosed
<1>4. doneKeys' \in SUBSET Nat /\ exgIdMap' \in SUBSET Nat /\ doneTrades' \in SUBSET Nat
      /\ db' = db /\ UNCHANGED <<queue, exitReq>>
  BY <1>1, <1>2 DEF TypeOK
<1>5. ASSUME exo' = exo PROVE Sane' /\ Grown({}, o) /\ Len(exo') = Len(exo)
  BY <1>1, <1>2, <1>5, ExchangeIdle DEF exchange
<1>6. CASE (\E now \in Now : ord' = [ord EXCEPT ![o] = SetExit(@, now)])
             /\ Go(g, "exit") /\ UNCHANGED exo
  <2>1. PICK now \in Now : ord' = [ord EXCEPT ![o] = SetExit(ord[o], now)]
    BY <1>6, <1>2 DEF TypeOK
  <2>2. now \in Nat
    BY <1>2 DEF Now
  <2> DEFINE od == SetExit(ord[o], now)
  <2>3. od \in InOutOrder /\ od.enter = ord[o].enter /\ od.status = ord[o].status
    BY <1>2, <2>2, SetExitType, SetExitKeeps
  <2>4. ord' = [ord EXCEPT ![o] = od]
    BY <2>1
  <2> HIDE DEF od
  <2>5. Goes(g, "exit", o)
    BY <1>2, <1>5, <1>6, GoStep DEF Steps
  <2>6. Fits(o, od)
    BY <1>2, <1>5, <1>6, <2>3, SameFits DEF Sane
  <2>7. od.enter.st = "Closed"
    BY <1>3, <2>3
  <2> QED
    BY <1>1, <1>4, <1>5, <1>6, <2>3, <2>4, <2>5, <2>6, <2>7, HandlerGoes DEF Steps
<1>7. CASE Go(g, "save") /\ UNCHANGED <<ord, exo>>
  <2>1. Goes(g, "save", o)
    BY <1>2, <1>5, <1>7, GoStep DEF Steps
  <2>2. Fits(o, ord[o])
    BY <1>2, <1>5, <1>7, SameFits DEF Sane
  <2>3. ord' = [ord EXCEPT ![o] = ord[o]]
    BY <1>7, <1>2, OrderKept
  <2> QED
    BY <1>1, <1>2, <1>4, <1>5, <1>7, <2>1, <2>2, <2>3, HandlerGoes DEF Steps
<1>8. CASE ord' = [ord EXCEPT ![o].stop.oid = r.ex] /\ StopCancelled(prev) /\ Go(g, "save")
  <2> DEFINE od == [ord[o] EXCEPT !.stop.oid = r.ex]
  <2>1. Sane' /\ Grown({}, 0) /\ Len(exo') = Len(exo)
    BY <1>1, <1>2, <1>8, StopCancelledEffect
  <2>2. od \in InOutOrder /\ od.enter = ord[o].enter /\ od.status = ord[o].status
    BY <1>2 DEF InOutOrder, StopState
  <2>3. ord' = [ord EXCEPT ![o] = od]
    BY <1>8, <1>2 DEF TypeOK
  <2> HIDE DEF od
  <2>4. Goes(g, "save", o)
    BY <1>2, <1>8, <2>1, GoStep DEF Steps
  <2>5. Fits(o, od) /\ Grown({}, o)
    BY <1>2, <2>1, <2>2, SameFits DEF Grown
  <2> QED
    BY <1>1, <1>4, <2>1, <2>2, <2>3, <2>4, <2>5, HandlerGoes DEF Steps
<1> QED
  BY <1>6, <1>7, <1>8 DEF TriggerPut

LEMMA UpdateByMyTradeStep ==
  ASSUME IInv, UpdateByMyTrade
  PROVE  IInv' /\ Forward
<1> DEFINE g == "trade"
           o == run[g].od
           t == run[g].res
           od(now) == ByMyTrade(ord[o], exo[t.ex].kind, t, now)
           closes(now) == od(now).status = "FullExit" /\ od(now) # ord[o]
           last(now) == IF closes(now) THEN StopSpent(od(now), t) ELSE od(now)
           step(now) == IF closes(now) THEN "cleanup"
                        ELSE IF last(now).status = "FullEnter" /\ last(now) # db[o]
                             THEN "stop" ELSE "save"
<1>1. PICK now \in Now :
        /\ run[g].at = "wait" /\ LockFree(o)
        /\ doneTrades' = doneTrades \cup {t.at}
        /\ ord' = [ord EXCEPT ![o] = last(now)]
        /\ db' = IF closes(now) THEN [db EXCEPT ![o] = last(now)] ELSE db
        /\ doneKeys' = IF closes(now) THEN Finished(last(now)) ELSE doneKeys
        /\ Go(g, step(now))
        /\ UNCHANGED <<exitReq, queue, exgIdMap, exchange>>
  BY ZenonT(40) DEF UpdateByMyTrade
<1>2. TypeOK /\ Sane /\ g \in Threads
  BY IInvSane DEF IInv, Threads
<1>3. o \in Orders /\ t \in Report /\ ord[o] \in InOutOrder /\ now \in Nat
  BY <1>2, OrdersNamed DEF TypeOK, Work, Now, Sane
<1>4. t.ex \in DOMAIN exo /\ exo[t.ex].od = o /\ t.ex \in 0 .. Len(exo)
      /\ ord[o].enter.oid \in 0 .. Len(exo)
  <2>1. run["trade"].at = "wait"
    BY <1>1, ZenonT(40)
  <2>2. t.ex \in DOMAIN exo /\ exo[t.ex].od = o
    BY <2>1 DEF IInv, IdsNameOrders
  <2>3. t.ex \in 0 .. Len(exo)
    BY <1>2, <2>2 DEF Sane
  <2> QED
    BY <1>3, <2>2, <2>3 DEF IInv, IdsNameOrders
<1>5. /\ Opened(o) /\ \A i \in DOMAIN queue : queue[i].act = "Enter" => queue[i].od # o
      /\ exo[t.ex].kind # "enter" => EntryClosed(o)
      /\ Entered(o) => EntryClosed(o)
  BY <1>3, <1>4, SMTT(40) DEF IInv, OnlyOpened, EnterOnce, EntryClosedFirst
<1> DEFINE before == od(now)
<1>6. /\ before \in InOutOrder /\ before.enter.oid = ord[o].enter.oid
      /\ before.status # "None" /\ (EntryClosed(o) => before.enter.st = "Closed")
      /\ (Entered(o) => before.status \in {"FullEnter", "FullExit"})
      /\ (ord[o].status = "FullExit" => before.status = "FullExit")
      /\ (before.status \in {"FullEnter", "FullExit"} => before.enter.st = "Closed")
  <2>0. /\ before \in InOutOrder /\ before.enter.oid = ord[o].enter.oid
    BY <1>3, ByMyTradeType, ByMyTradeEffect
  <2>1. CASE exo[t.ex].kind = "enter"
    <3>1. before = EnterTraded(ord[o], t)
      BY <2>1, <1>3, ByMyTradeEffect
    <3> HIDE DEF before
    <3> QED
      BY <2>0, <3>1, <1>3, <1>5, EnterTradedEffect DEF Opened, Entered, EntryClosed
  <2>2. CASE exo[t.ex].kind # "enter"
    <3>1. before.enter = ord[o].enter /\ before.status \in {ord[o].status, "FullExit"}
      BY <2>2, <1>3, ByMyTradeEffect
    <3> HIDE DEF before
    <3> QED
      BY <2>0, <2>2, <3>1, <1>5 DEF Opened, Entered, EntryClosed
  <2> QED
    BY <2>1, <2>2
<1> DEFINE after == last(now)
<1>7. after \in InOutOrder /\ after.enter = before.enter /\ after.status = before.status
  <2> HIDE DEF before
  <2>1. ASSUME NEW d \in InOutOrder
        PROVE  /\ StopSpent(d, t) \in InOutOrder
               /\ StopSpent(d, t).enter = d.enter /\ StopSpent(d, t).status = d.status
    BY DEF StopSpent, InOutOrder, StopState
  <2>2. after = before \/ after = StopSpent(before, t)
    BY SMTT(40) DEF before
  <2> HIDE DEF after
  <2> QED
    BY <1>6, <2>1, <2>2
<1>8. Sane' /\ Grown({}, o) /\ exo' = exo
  BY <1>1, <1>2, ExchangeIdle, ZenonT(40)
<1>9. step(now) \in {"cleanup", "stop", "save"}
      /\ (step(now) = "stop" => after.status \in {"FullEnter", "FullExit"})
  BY SMTT(40)
<1>10. Goes(g, step(now), o)
  BY <1>1, <1>2, <1>4, <1>8, <1>9, GoStep, ZenonT(40) DEF Steps
<1>11. /\ doneKeys' \in SUBSET Nat /\ exgIdMap' \in SUBSET Nat /\ doneTrades' \in SUBSET Nat
       /\ UNCHANGED <<queue, exitReq>>
  <2>1. t.at \in Nat
    BY <1>3, SMTT(40) DEF Report
  <2> QED
    BY <2>1, <1>1, <1>2, <1>7, FinishedType, ZenonT(40) DEF TypeOK
<1>12. ord' = [ord EXCEPT ![o] = after] /\ (db' = db \/ db' = [db EXCEPT ![o] = after])
  BY <1>1, ZenonT(40)
<1> DEFINE at == step(now)
<1> HIDE DEF before, after, at
<1>13. at \in {"cleanup", "stop", "save"} /\ Goes(g, at, o)
       /\ (at = "stop" => after.status \in {"FullEnter", "FullExit"})
  BY <1>9, <1>10, ZenonT(40) DEF at
<1> HIDE DEF o, g
<1>14. PICK w \in Work : /\ run' = [run EXCEPT ![g] = w]
                         /\ w.at = at /\ w.od = o /\ w.res.ex \in 0 .. Len(exo')
  BY <1>13, ZenonT(40) DEF Goes
<1>15. /\ w.od = o \/ w.at = "idle"
       /\ w.at \notin {"wait", "entered"}
       /\ w.at \in {"exit", "exited"} => after.enter.st = "Closed"
       /\ w.at \in {"stop", "stopped"} => after.status \in {"FullEnter", "FullExit"}
       /\ w.at \in {"canceled", "exited"} => after.status # "FullExit"
  BY <1>13, <1>14
<1>16. Holds(g, o) \/ LockFree(o)
  BY <1>1, ZenonT(40)
<1>17. after.enter.oid \in 0 .. Len(exo')
  BY <1>4, <1>6, <1>7, <1>8
<1> QED
  BY <1>2, <1>3, <1>5, <1>6, <1>7, <1>8, <1>11, <1>12, <1>14, <1>15, <1>16, <1>17, HandlerStep, ZenonT(40)

(* The steps that change no order. *)

LEMMA QuietStep ==
  ASSUME IInv, Sane', Grown({}, 0),
         UNCHANGED <<ord, db, queue, doneKeys, exgIdMap, doneTrades>>,
         exitReq' \in SUBSET Orders, \A o \in exitReq' : Opened(o),
         run' \in [Threads -> Work],
         \A h \in Threads :
           \/ run'[h] = run[h]
           \/ /\ h = "trade" /\ run'[h].at = "wait" /\ run'[h].res.ex \in DOMAIN exo
              /\ exo[run'[h].res.ex].od = run'[h].od
  PROVE  IInv' /\ Forward
<1>0. /\ ord' = ord /\ db' = db /\ queue' = queue
      /\ doneKeys' = doneKeys /\ exgIdMap' = exgIdMap /\ doneTrades' = doneTrades
  OBVIOUS
<1>1. /\ DOMAIN exo' = DOMAIN exo /\ Len(exo') = Len(exo) /\ Len(exo) \in Nat
      /\ \A x \in DOMAIN exo : x \in 0 .. Len(exo)
      /\ \A x \in DOMAIN exo : exo'[x].od = exo[x].od /\ exo'[x].kind = exo[x].kind
  <2>1. Len(exo) \in Nat /\ Len(exo') \in Nat
        /\ DOMAIN exo = 1 .. Len(exo) /\ DOMAIN exo' = 1 .. Len(exo')
    BY IInvSane DEF Sane
  <2>2. \A x \in DOMAIN exo' : x \in DOMAIN exo
    BY DEF Grown
  <2>3. Len(exo') <= Len(exo)
    <3> SUFFICES ASSUME Len(exo') > Len(exo) PROVE FALSE
      BY <2>1
    <3>1. Len(exo') \in DOMAIN exo' /\ Len(exo') \notin DOMAIN exo
      BY <2>1
    <3> QED
      BY <2>2, <3>1
  <2>4. Len(exo') = Len(exo)
    <3>1. Len(exo) <= Len(exo')
      BY DEF Grown
    <3>2. Len(exo) \in Nat /\ Len(exo') \in Nat
      BY <2>1
    <3> QED
      BY <3>1, <3>2, <2>3
  <2> QED
    BY <2>1, <2>4 DEF Grown
<1>2. TypeOK'
  BY <1>0 DEF IInv, TypeOK, Sane
<1>3. IdsNameOrders'
  <2>1. \A h \in Threads : run'[h].res.ex \in 0 .. Len(exo)
    BY <1>1 DEF IInv, IdsNameOrders
  <2>2. run'["trade"].at = "wait" =>
          /\ run'["trade"].res.ex \in DOMAIN exo
          /\ exo[run'["trade"].res.ex].od = run'["trade"].od
    BY DEF IInv, IdsNameOrders, Threads
  <2>3. run'["trade"].at = "wait" =>
          /\ run'["trade"].res.ex \in DOMAIN exo'
          /\ exo'[run'["trade"].res.ex].od = run'["trade"].od
    BY <1>1, <2>2
  <2>4. \A o \in Orders : ord'[o].enter.oid \in 0 .. Len(exo')
    BY <1>0, <1>1 DEF IInv, IdsNameOrders
  <2> QED
    BY <1>1, <2>1, <2>3, <2>4 DEF IdsNameOrders, Sane
<1>4. OnlyOpened'
  BY <1>0, <1>1 DEF IInv, OnlyOpened, Opened, Working
<1>5. EnterOnce'
  BY <1>0, <1>1 DEF IInv, EnterOnce, Untouched, Holds
<1>6. EntryClosedFirst'
  BY <1>0, <1>1 DEF IInv, EntryClosedFirst, Entered, EntryClosed
<1>7. LockedUntilClosed'
  BY <1>0 DEF IInv, LockedUntilClosed, Holds, Untouched
<1>8. Forward
  BY <1>0 DEF Forward, Opened, NowOpened, Entered, NowEntered, EntryClosed, NowEntryClosed
<1> QED
  BY <1>2, <1>3, <1>4, <1>5, <1>6, <1>7, <1>8 DEF IInv

LEMMA GrownIdle ==
  ASSUME exo' = exo
  PROVE  Grown({}, 0)
BY DEF Grown

LEMMA StutterStep ==
  ASSUME IInv, UNCHANGED vars
  PROVE  IInv' /\ Forward
<1>1. /\ UNCHANGED <<ord, db, queue, doneKeys, exgIdMap, doneTrades>>
      /\ exitReq' = exitReq /\ run' = run /\ exo' = exo /\ UNCHANGED exchange
  BY DEF vars, exchange
<1>2. Sane' /\ Grown({}, 0)
  BY <1>1, IInvSane, ExchangeIdle
<1> QED
  BY <1>1, <1>2, QuietStep DEF IInv, TypeOK, OnlyOpened

LEMMA ExchangeStep ==
  ASSUME IInv, Exchange
  PROVE  IInv' /\ Forward
<1>1. PICK x \in DOMAIN exo : Fill(x) \/ Expire(x)
  BY DEF Exchange
<1>2. exo[x] \in ExgOrder /\ Sane /\ TypeOK
  BY IInvSane, OrdersNamed DEF IInv
<1>3. \E e \in ExgOrder : /\ e.st = "live" => e.filled < e.amt
                          /\ e.od = exo[x].od /\ e.kind = exo[x].kind /\ Happens(x, e)
  <2>1. CASE Fill(x)
    <3> DEFINE e == [exo[x] EXCEPT !.filled = @ + 1,
                       !.st = IF exo[x].filled + 1 = exo[x].amt THEN "filled" ELSE @]
    <3>1. exo[x].st = "live" /\ Happens(x, e)
      BY <2>1 DEF Fill
    <3>2. exo[x].filled < exo[x].amt
      BY <3>1, <1>2 DEF Sane
    <3>3. e \in ExgOrder /\ e.od = exo[x].od /\ e.kind = exo[x].kind
          /\ (e.st = "live" => e.filled < e.amt)
      <4>1. exo[x].filled + 1 \in 0 .. Amount /\ exo[x].filled + 1 <= exo[x].amt
        BY <3>2, <1>2, ConstantsAssumption DEF ExgOrder
      <4>2. ASSUME NEW f \in 0 .. Amount, NEW s \in {"live", "filled"}
            PROVE  [exo[x] EXCEPT !.filled = f, !.st = s] \in ExgOrder
        BY <1>2 DEF ExgOrder
      <4>3. e \in ExgOrder
        BY <3>1, <4>1, <4>2
      <4> QED
        BY <4>1, <4>3, <1>2, ConstantsAssumption DEF ExgOrder
    <3> QED
      BY <3>1, <3>3
  <2>2. CASE Expire(x)
    <3> DEFINE e == [exo[x] EXCEPT !.st = "canceled"]
    <3>1. Happens(x, e)
      BY <2>2 DEF Expire
    <3>2. e \in ExgOrder /\ e.od = exo[x].od /\ e.kind = exo[x].kind /\ e.st = "canceled"
      BY <1>2 DEF ExgOrder
    <3> QED
      BY <3>1, <3>2
  <2> QED
    BY <1>1, <2>1, <2>2
<1>4. PICK e \in ExgOrder : /\ e.st = "live" => e.filled < e.amt
                            /\ e.od = exo[x].od /\ e.kind = exo[x].kind /\ Happens(x, e)
  BY <1>3
<1>5. /\ exo' = [exo EXCEPT ![x] = e] /\ clock' = clock + 1
      /\ net' = net \cup {ReportOf(x, e)} /\ UNCHANGED local
  BY <1>4 DEF Happens
<1>6. Sane' /\ Grown({}, e.od)
  BY <1>2, <1>4, <1>5, ReplacedOrder
<1>7. Grown({}, 0)
  BY <1>6 DEF Grown
<1>8. /\ UNCHANGED <<ord, db, queue, doneKeys, exgIdMap, doneTrades>>
      /\ exitReq' = exitReq /\ run' = run
  BY <1>5 DEF local
<1> QED
  BY <1>6, <1>7, <1>8, QuietStep DEF IInv, TypeOK, OnlyOpened

LEMMA HandleMyTradeStep ==
  ASSUME IInv, NEW t \in net, HandleMyTrade(t)
  PROVE  IInv' /\ Forward
<1>1. /\ UNCHANGED <<ord, db, queue, doneKeys, exgIdMap, doneTrades>>
      /\ exitReq' = exitReq /\ exo' = exo /\ clock' = clock /\ net' \subseteq net
      /\ \/ run' = run
         \/ run' = [run EXCEPT !["trade"] = [at |-> "wait", od |-> exo[t.ex].od, res |-> t]]
  BY DEF HandleMyTrade
<1>2. Sane /\ TypeOK /\ t \in Report /\ t.ex \in DOMAIN exo /\ exo[t.ex].od \in Orders
  BY IInvSane, OrdersNamed DEF IInv, TypeOK, Sane
<1>3. Sane' /\ Grown({}, 0)
  BY <1>1, <1>2, GrownIdle DEF Sane
<1> DEFINE w == [at |-> "wait", od |-> exo[t.ex].od, res |-> t]
<1>4. w \in Work /\ w.at = "wait" /\ w.res.ex = t.ex /\ w.od = exo[t.ex].od
  BY <1>2 DEF Work
<1>5. run' = run \/ run' = [run EXCEPT !["trade"] = w]
  BY <1>1
<1> HIDE DEF w
<1>6. /\ run' \in [Threads -> Work]
      /\ \A h \in Threads :
           \/ run'[h] = run[h]
           \/ /\ h = "trade" /\ run'[h].at = "wait" /\ run'[h].res.ex \in DOMAIN exo
              /\ exo[run'[h].res.ex].od = run'[h].od
  BY <1>2, <1>4, <1>5 DEF TypeOK
<1>7. exitReq' \in SUBSET Orders /\ \A o \in exitReq' : Opened(o)
  BY <1>1, <1>2 DEF IInv, TypeOK, OnlyOpened
<1> QED
  BY <1>1, <1>3, <1>6, <1>7, QuietStep

LEMMA ExitOrderStep ==
  ASSUME IInv, NEW o \in Orders, ExitOrder(o)
  PROVE  IInv' /\ Forward
<1>1. /\ UNCHANGED <<ord, db, queue, doneKeys, exgIdMap, doneTrades>>
      /\ exitReq' = exitReq \cup {o} /\ run' = run /\ UNCHANGED exchange
  BY DEF ExitOrder
<1>2. Sane' /\ Grown({}, 0) /\ exo' = exo
  BY <1>1, IInvSane, ExchangeIdle
<1>3. Opened(o)
  BY DEF ExitOrder, Exitable, openOds, IInv, OnlyOpened
<1>4. exitReq' \in SUBSET Orders /\ \A p \in exitReq' : Opened(p)
  BY <1>1, <1>3 DEF IInv, TypeOK, OnlyOpened
<1>5. run' \in [Threads -> Work] /\ \A h \in Threads : run'[h] = run[h]
  BY <1>1 DEF IInv, TypeOK
<1> QED
  BY <1>1, <1>2, <1>4, <1>5, QuietStep

(* The steps that put an item into the queue. *)

LEMMA Appended ==
  ASSUME TypeOK, NEW item \in OdQItem, queue' = Append(queue, item)
  PROVE  /\ queue' \in Seq(OdQItem)
         /\ \A i \in DOMAIN queue' : \/ i \in DOMAIN queue /\ queue'[i] = queue[i]
                                     \/ i \notin DOMAIN queue /\ queue'[i] = item
         /\ \A i \in DOMAIN queue' : i \notin DOMAIN queue => \A j \in DOMAIN queue' : j <= i
         /\ \A i \in DOMAIN queue' : i \in Nat
<1>1. queue \in Seq(OdQItem) /\ Len(queue) \in Nat /\ DOMAIN queue = 1 .. Len(queue)
  BY DEF TypeOK
<1>2. /\ queue' \in Seq(OdQItem) /\ DOMAIN queue' = 1 .. (Len(queue) + 1)
      /\ \A i \in 1 .. Len(queue) : queue'[i] = queue[i]
      /\ queue'[Len(queue) + 1] = item
  BY <1>1
<1>3. \A i \in DOMAIN queue' : i \notin DOMAIN queue => i = Len(queue) + 1
  BY <1>1, <1>2
<1>4. \A i \in DOMAIN queue' : \/ i \in DOMAIN queue /\ queue'[i] = queue[i]
                               \/ i \notin DOMAIN queue /\ queue'[i] = item
  BY <1>1, <1>2, <1>3
<1>5. \A i \in DOMAIN queue' : i \notin DOMAIN queue => \A j \in DOMAIN queue' : j <= i
  BY <1>1, <1>2, <1>3
<1>6. \A i \in DOMAIN queue' : i \in Nat
  BY <1>1, <1>2
<1>7. queue' \in Seq(OdQItem)
  BY <1>2
<1> QED
  BY <1>4, <1>5, <1>6, <1>7

\* The strategy changes an order but for its status and its entry, and queues it.
LEMMA RequestStep ==
  ASSUME IInv, NEW o \in Orders, NEW od \in InOutOrder, NEW item \in OdQItem, Opened(o),
         od.status = ord[o].status, od.enter = ord[o].enter,
         ord' = [ord EXCEPT ![o] = od], db' = db \/ db' = [db EXCEPT ![o] = od],
         exitReq' \in SUBSET exitReq,
         queue' = Append(queue, item), item.od = o, item.act # "Enter",
         item.act = "StopLoss" => Entered(o),
         UNCHANGED <<run, doneKeys, exgIdMap, doneTrades, exchange>>
  PROVE  IInv' /\ Forward
<1>0. /\ run' = run /\ doneKeys' = doneKeys /\ exgIdMap' = exgIdMap
      /\ doneTrades' = doneTrades /\ exo' = exo /\ net' = net /\ clock' = clock
  BY DEF exchange
<1>1. /\ queue' \in Seq(OdQItem)
      /\ \A i \in DOMAIN queue' : \/ i \in DOMAIN queue /\ queue'[i] = queue[i]
                                  \/ i \notin DOMAIN queue /\ queue'[i] = item
      /\ \A i \in DOMAIN queue' : i \notin DOMAIN queue => \A j \in DOMAIN queue' : j <= i
      /\ \A i \in DOMAIN queue' : i \in Nat
  BY Appended DEF IInv
<1>2. /\ \A p \in Orders : ord'[p].status = ord[p].status /\ ord'[p].enter = ord[p].enter
      /\ \A p \in Orders : db'[p].status \in {db[p].status, ord[p].status}
  BY DEF IInv, TypeOK
<1>3. /\ \A x \in DOMAIN exo : exo[x].od \in Orders
      /\ \A i \in DOMAIN queue : queue[i].od \in Orders
      /\ \A h \in Threads : run[h].od \in Orders
  BY OrdersNamed DEF IInv
<1>4. TypeOK'
  BY <1>0, <1>1 DEF IInv, TypeOK
<1>5. IdsNameOrders'
  BY <1>0, <1>2 DEF IInv, IdsNameOrders
<1>6. OnlyOpened'
  <2>1. \A i \in DOMAIN queue' : ord'[queue'[i].od].status # "None"
    BY <1>1, <1>2, <1>3 DEF IInv, OnlyOpened, Opened
  <2>2. \A p \in Orders : p \in exitReq' \/ db'[p].status # "None" => ord'[p].status # "None"
    BY <1>2 DEF IInv, OnlyOpened, Opened
  <2>3. \A x \in DOMAIN exo : ord'[exo[x].od].status # "None"
    BY <1>2, <1>3 DEF IInv, OnlyOpened, Opened
  <2>4. \A g \in Threads : Working(g) => ord'[run[g].od].status # "None"
    BY <1>2, <1>3 DEF IInv, OnlyOpened, Opened
  <2> QED
    BY <1>0, <2>1, <2>2, <2>3, <2>4 DEF OnlyOpened, Opened, Working
<1>7. EnterOnce'
  <2> SUFFICES ASSUME NEW i \in DOMAIN queue', queue'[i].act = "Enter"
               PROVE  /\ \A j \in DOMAIN queue' : queue'[j].od = queue'[i].od => i <= j
                      /\ NowUntouched(queue'[i].od)
                      /\ \A g \in Threads : ~ NowHolds(g, queue'[i].od)
                      /\ \A x \in DOMAIN exo' : exo'[x].od # queue'[i].od
    BY DEF EnterOnce, Untouched, NowUntouched, Holds, NowHolds
  <2>1. i \in DOMAIN queue /\ queue'[i] = queue[i] /\ queue[i].act = "Enter"
    BY <1>1
  <2>2. \A j \in DOMAIN queue' : queue'[j].od = queue'[i].od => i <= j
    <3> SUFFICES ASSUME NEW j \in DOMAIN queue', queue'[j].od = queue'[i].od PROVE i <= j
      OBVIOUS
    <3>1. CASE j \in DOMAIN queue
      BY <1>1, <2>1, <3>1 DEF IInv, EnterOnce
    <3>2. CASE j \notin DOMAIN queue
      BY <1>1, <3>2
    <3> QED
      BY <3>1, <3>2
  <2> QED
    BY <1>0, <1>2, <1>3, <2>1, <2>2
       DEF IInv, EnterOnce, Untouched, NowUntouched, Holds, NowHolds
<1>8. EntryClosedFirst'
  <2>1. \A p \in Orders : NowEntered(p) <=> Entered(p)
    BY <1>2 DEF NowEntered, Entered
  <2>2. \A p \in Orders : NowEntryClosed(p) <=> EntryClosed(p)
    BY <1>2 DEF NowEntryClosed, EntryClosed
  <2>3. \A i \in DOMAIN queue' : queue'[i].act = "StopLoss" => NowEntered(queue'[i].od)
    BY <1>1, <1>3, <2>1 DEF IInv, EntryClosedFirst
  <2>4. /\ \A p \in Orders : NowEntered(p) => NowEntryClosed(p)
        /\ \A x \in DOMAIN exo : exo[x].kind # "enter" => NowEntryClosed(exo[x].od)
        /\ \A g \in Threads : run[g].at \in {"exit", "exited"} => NowEntryClosed(run[g].od)
        /\ \A g \in Threads : run[g].at \in {"stop", "stopped"} => NowEntered(run[g].od)
    BY <1>3, <2>1, <2>2 DEF IInv, EntryClosedFirst
  <2> QED
    BY <1>0, <2>3, <2>4
       DEF EntryClosedFirst, Entered, NowEntered, EntryClosed, NowEntryClosed
<1>9. LockedUntilClosed'
  <2>1. \A p \in Orders : db'[p].status = "FullExit" => ord'[p].status = "FullExit"
    BY <1>2 DEF IInv, LockedUntilClosed
  <2>2. \A p \in Orders : (\A g \in Threads : Holds(g, p)) => db'[p].status = "FullExit"
    <3> SUFFICES ASSUME NEW p \in Orders, \A g \in Threads : Holds(g, p)
                 PROVE  db'[p].status = "FullExit"
      OBVIOUS
    <3>1. db[p].status = "FullExit" /\ ord[p].status = "FullExit"
      BY DEF IInv, LockedUntilClosed
    <3> QED
      BY <1>2, <3>1
  <2>3. \A g \in Threads : run[g].at = "entered" => NowUntouched(run[g].od)
    BY <1>2, <1>3 DEF IInv, LockedUntilClosed, Untouched, NowUntouched
  <2>4. \A g \in Threads :
          run[g].at \in {"canceled", "exited"} => ord'[run[g].od].status # "FullExit"
    BY <1>2, <1>3 DEF IInv, LockedUntilClosed
  <2> QED
    BY <1>0, <2>1, <2>2, <2>3, <2>4 DEF LockedUntilClosed, Holds, Untouched, NowUntouched
<1>10. Forward
  BY <1>2 DEF Forward, Opened, NowOpened, Entered, NowEntered, EntryClosed, NowEntryClosed
<1> QED
  BY <1>4, <1>5, <1>6, <1>7, <1>8, <1>9, <1>10 DEF IInv

LEMMA PostOrderExitStep ==
  ASSUME IInv, NEW o \in Orders, PostOrderExit(o)
  PROVE  IInv' /\ Forward
<1>1. /\ o \in exitReq /\ exitReq' = exitReq \ {o}
      /\ db' = [db EXCEPT ![o] = ord'[o]]
      /\ queue' = Append(queue, [od |-> o, act |-> "Exit"])
      /\ UNCHANGED <<run, doneKeys, exgIdMap, doneTrades, exchange>>
  BY DEF PostOrderExit
<1>2. PICK now \in Now : ord' = [ord EXCEPT ![o] = SetExit(ord[o], now)]
  BY DEF PostOrderExit, IInv, TypeOK
<1>3. now \in Nat /\ ord[o] \in InOutOrder /\ Opened(o)
  BY <1>1 DEF Now, IInv, TypeOK, OnlyOpened
<1> DEFINE od == SetExit(ord[o], now)
           item == [od |-> o, act |-> "Exit"]
<1>4. od \in InOutOrder /\ od.enter = ord[o].enter /\ od.status = ord[o].status
  BY <1>3, SetExitType, SetExitKeeps
<1>5. ord' = [ord EXCEPT ![o] = od] /\ db' = [db EXCEPT ![o] = od]
  BY <1>1, <1>2 DEF IInv, TypeOK
<1>6. item \in OdQItem /\ item.od = o /\ item.act = "Exit" /\ queue' = Append(queue, item)
  BY <1>1 DEF OdQItem
<1> HIDE DEF od, item
<1> QED
  BY <1>1, <1>3, <1>4, <1>5, <1>6, RequestStep

LEMMA SetStopLossStep ==
  ASSUME IInv, NEW o \in Orders, SetStopLoss(o)
  PROVE  IInv' /\ Forward
<1>1. /\ ord[o].status = "FullEnter" /\ ord[o].stop.edits < MaxEdits
      /\ ord' = [ord EXCEPT ![o].stop.old = FALSE, ![o].stop.edits = @ + 1]
      /\ queue' = Append(queue, [od |-> o, act |-> "StopLoss"])
      /\ db' = db /\ exitReq' = exitReq
      /\ UNCHANGED <<run, doneKeys, exgIdMap, doneTrades, exchange>>
  BY DEF SetStopLoss
<1> DEFINE od == [ord[o] EXCEPT !.stop.old = FALSE, !.stop.edits = @ + 1]
           item == [od |-> o, act |-> "StopLoss"]
<1>2. ord[o] \in InOutOrder /\ ord[o].stop.edits + 1 \in 0 .. MaxEdits
  BY <1>1, ConstantsAssumption, SMTT(40) DEF IInv, TypeOK, InOutOrder, StopState
<1>3. od \in InOutOrder /\ od.enter = ord[o].enter /\ od.status = ord[o].status
  BY <1>2 DEF InOutOrder, StopState
<1>4. ord' = [ord EXCEPT ![o] = od]
  BY <1>1 DEF IInv, TypeOK
<1>5. item \in OdQItem /\ item.od = o /\ item.act = "StopLoss" /\ queue' = Append(queue, item)
  BY <1>1 DEF OdQItem
<1>6. Opened(o) /\ Entered(o)
  BY <1>1 DEF Opened, Entered
<1> HIDE DEF od, item
<1> QED
  BY <1>1, <1>3, <1>4, <1>5, <1>6, RequestStep

\* A new order is queued for its entry.
LEMMA EnterOrderStep ==
  ASSUME IInv, NEW o \in Orders, EnterOrder(o)
  PROVE  IInv' /\ Forward
<1> DEFINE od == [NoOrder EXCEPT !.status = "Init", !.enter = NewSub(Amount, clock)]
           item == [od |-> o, act |-> "Enter"]
<1>1. /\ ord[o].status = "None" /\ ord' = [ord EXCEPT ![o] = od]
      /\ db' = [db EXCEPT ![o] = ord'[o]] /\ queue' = Append(queue, item)
      /\ UNCHANGED <<exitReq, run, doneKeys, exgIdMap, doneTrades, exchange>>
  BY DEF EnterOrder
<1>2. od \in InOutOrder /\ od.status = "Init" /\ od.enter.st = "Init" /\ od.enter.oid = 0
  <2>1. NewSub(Amount, clock) \in SubOrder
    BY ConstantsAssumption, NewSubType DEF IInv, TypeOK
  <2>2. NewSub(Amount, clock).st = "Init" /\ NewSub(Amount, clock).oid = 0
    BY DEF NewSub
  <2> QED
    BY <2>1, <2>2, NoOrderType DEF InOutOrder, NoOrder
<1>3. item \in OdQItem /\ item.od = o /\ item.act = "Enter"
  BY DEF OdQItem
<1>4. db' = [db EXCEPT ![o] = od]
  BY <1>1 DEF IInv, TypeOK
<1> HIDE DEF od, item
<1>5. /\ run' = run /\ doneKeys' = doneKeys /\ exgIdMap' = exgIdMap /\ exitReq' = exitReq
      /\ doneTrades' = doneTrades /\ exo' = exo /\ net' = net /\ clock' = clock
  BY <1>1 DEF exchange
<1>6. /\ queue' \in Seq(OdQItem)
      /\ \A i \in DOMAIN queue' : \/ i \in DOMAIN queue /\ queue'[i] = queue[i]
                                  \/ i \notin DOMAIN queue /\ queue'[i] = item
      /\ \A i \in DOMAIN queue' : i \notin DOMAIN queue => \A j \in DOMAIN queue' : j <= i
      /\ \A i \in DOMAIN queue' : i \in Nat
  BY <1>1, <1>3, Appended DEF IInv
<1>7. /\ ord'[o] = od /\ \A p \in Orders \ {o} : ord'[p] = ord[p]
      /\ db'[o] = od /\ \A p \in Orders \ {o} : db'[p] = db[p]
  BY <1>1, <1>4 DEF IInv, TypeOK
<1>8. /\ \A x \in DOMAIN exo : exo[x].od \in Orders \ {o}
      /\ \A i \in DOMAIN queue : queue[i].od \in Orders \ {o}
      /\ \A h \in Threads : run[h].od \in Orders /\ (Working(h) => run[h].od # o)
  BY <1>1, OrdersNamed DEF IInv, OnlyOpened, Opened
<1>9. TypeOK'
  BY <1>1, <1>2, <1>4, <1>5, <1>6 DEF IInv, TypeOK
<1>10. IdsNameOrders'
  <2>1. \A p \in Orders : ord'[p].enter.oid \in 0 .. Len(exo)
    BY <1>2, <1>7, IInvSane DEF IInv, IdsNameOrders, Sane
  <2> QED
    BY <1>5, <2>1 DEF IInv, IdsNameOrders
<1>11. OnlyOpened'
  <2>1. \A i \in DOMAIN queue' : ord'[queue'[i].od].status # "None"
    BY <1>2, <1>3, <1>6, <1>7, <1>8 DEF IInv, OnlyOpened, Opened
  <2>2. \A p \in Orders : p \in exitReq \/ db'[p].status # "None" => ord'[p].status # "None"
    BY <1>2, <1>7 DEF IInv, OnlyOpened, Opened
  <2>3. \A x \in DOMAIN exo : ord'[exo[x].od].status # "None"
    BY <1>7, <1>8 DEF IInv, OnlyOpened, Opened
  <2>4. \A g \in Threads : Working(g) => ord'[run[g].od].status # "None"
    BY <1>7, <1>8 DEF IInv, OnlyOpened, Opened
  <2> QED
    BY <1>5, <2>1, <2>2, <2>3, <2>4 DEF OnlyOpened, Opened, Working
<1>12. EnterOnce'
  <2> SUFFICES ASSUME NEW i \in DOMAIN queue', queue'[i].act = "Enter"
               PROVE  /\ \A j \in DOMAIN queue' : queue'[j].od = queue'[i].od => i <= j
                      /\ NowUntouched(queue'[i].od)
                      /\ \A g \in Threads : ~ NowHolds(g, queue'[i].od)
                      /\ \A x \in DOMAIN exo' : exo'[x].od # queue'[i].od
    BY DEF EnterOnce, Untouched, NowUntouched, Holds, NowHolds
  <2>1. CASE i \in DOMAIN queue
    <3>1. queue'[i] = queue[i] /\ queue[i].act = "Enter" /\ queue[i].od \in Orders \ {o}
      BY <1>6, <1>8, <2>1
    <3>2. \A j \in DOMAIN queue' : queue'[j].od = queue'[i].od => i <= j
      BY <1>3, <1>6, <2>1, <3>1 DEF IInv, EnterOnce
    <3> QED
      BY <1>5, <1>7, <2>1, <3>1, <3>2
         DEF IInv, EnterOnce, Untouched, NowUntouched, Holds, NowHolds
  <2>2. CASE i \notin DOMAIN queue
    <3>1. queue'[i].od = o
      BY <1>3, <1>6, <2>2
    <3>2. \A j \in DOMAIN queue' : queue'[j].od = o => i <= j
      <4> SUFFICES ASSUME NEW j \in DOMAIN queue', queue'[j].od = o PROVE i <= j
        OBVIOUS
      <4>1. j \notin DOMAIN queue
        BY <1>6, <1>8
      <4> QED
        BY <1>6, <4>1
    <3>3. NowUntouched(o) /\ \A g \in Threads : ~ NowHolds(g, o)
      BY <1>2, <1>5, <1>7, <1>8 DEF NowUntouched, NowHolds, Working
    <3> QED
      BY <1>5, <1>8, <3>1, <3>2, <3>3
  <2> QED
    BY <2>1, <2>2
<1>13. EntryClosedFirst'
  <2>1. \A p \in Orders \ {o} : /\ NowEntered(p) => Entered(p)
                                /\ Entered(p) => NowEntered(p)
                                /\ EntryClosed(p) => NowEntryClosed(p)
    BY <1>7 DEF NowEntered, Entered, NowEntryClosed, EntryClosed
  <2>2. ~ NowEntered(o)
    BY <1>2, <1>7 DEF NowEntered
  <2>3. \A i \in DOMAIN queue' : queue'[i].act = "StopLoss" => NowEntered(queue'[i].od)
    BY <1>3, <1>6, <1>8, <2>1 DEF IInv, EntryClosedFirst
  <2>4. \A p \in Orders : NowEntered(p) => NowEntryClosed(p)
    BY <1>7, <2>2 DEF IInv, EntryClosedFirst, NowEntered, Entered, NowEntryClosed, EntryClosed
  <2>5. \A x \in DOMAIN exo : exo[x].kind # "enter" => NowEntryClosed(exo[x].od)
    BY <1>7, <1>8 DEF IInv, EntryClosedFirst, NowEntryClosed, EntryClosed
  <2>6. \A g \in Threads : run[g].at \in {"exit", "exited"} => NowEntryClosed(run[g].od)
    BY <1>7, <1>8 DEF IInv, EntryClosedFirst, NowEntryClosed, EntryClosed, Working
  <2>7. \A g \in Threads : run[g].at \in {"stop", "stopped"} => NowEntered(run[g].od)
    BY <1>7, <1>8 DEF IInv, EntryClosedFirst, NowEntered, Entered, Working
  <2> QED
    BY <1>5, <2>3, <2>4, <2>5, <2>6, <2>7
       DEF EntryClosedFirst, Entered, NowEntered, EntryClosed, NowEntryClosed
<1>14. LockedUntilClosed'
  <2>1. \A p \in Orders : db'[p].status = "FullExit" => ord'[p].status = "FullExit"
    BY <1>7 DEF IInv, LockedUntilClosed
  <2>2. \A p \in Orders : (\A g \in Threads : Holds(g, p)) => db'[p].status = "FullExit"
    <3> SUFFICES ASSUME NEW p \in Orders, \A g \in Threads : Holds(g, p)
                 PROVE  db'[p].status = "FullExit"
      OBVIOUS
    <3>1. p # o
      BY <1>8 DEF Holds, Working, Threads
    <3> QED
      BY <1>7, <3>1 DEF IInv, LockedUntilClosed
  <2>3. \A g \in Threads : run[g].at = "entered" => NowUntouched(run[g].od)
    BY <1>7, <1>8 DEF IInv, LockedUntilClosed, Untouched, NowUntouched, Working
  <2>4. \A g \in Threads :
          run[g].at \in {"canceled", "exited"} => ord'[run[g].od].status # "FullExit"
    BY <1>7, <1>8 DEF IInv, LockedUntilClosed, Working
  <2> QED
    BY <1>5, <2>1, <2>2, <2>3, <2>4 DEF LockedUntilClosed, Holds, Untouched, NowUntouched
<1>15. Forward
  BY <1>1, <1>2, <1>7 DEF Forward, Opened, NowOpened, Entered, NowEntered
<1> QED
  BY <1>9, <1>10, <1>11, <1>12, <1>13, <1>14, <1>15 DEF IInv

(* The step that takes an item from the queue. *)

LEMMA Dequeued ==
  ASSUME TypeOK, queue # <<>>, queue' = Tail(queue)
  PROVE  /\ 1 \in DOMAIN queue /\ Head(queue) = queue[1] /\ queue' \in Seq(OdQItem)
         /\ \A i \in DOMAIN queue' : /\ i \in Nat /\ i + 1 \in DOMAIN queue
                                     /\ queue'[i] = queue[i + 1]
<1>1. queue \in Seq(OdQItem)
  BY DEF TypeOK
<1>2. /\ Len(queue) \in Nat /\ Len(queue) > 0 /\ DOMAIN queue = 1 .. Len(queue)
      /\ queue' \in Seq(OdQItem) /\ DOMAIN queue' = 1 .. (Len(queue) - 1)
      /\ \A i \in 1 .. (Len(queue) - 1) : queue'[i] = queue[i + 1]
      /\ Head(queue) = queue[1]
  BY <1>1
<1> QED
  BY <1>2

\* The queue's goroutine takes an item of order o and goes to a step.
LEMMA TakeStep ==
  ASSUME IInv, queue # <<>>, queue' = Tail(queue), NEW o \in Orders, o = Head(queue).od,
         LockFree(o), NEW kinds, Sane', Grown(kinds, o),
         kinds = {} \/ (kinds = {"enter"} /\ Head(queue).act = "Enter"),
         NEW w \in Work, run' = [run EXCEPT !["queue"] = w], w.od = o,
         w.res.ex \in 0 .. Len(exo'),
         w.at \in {"save", "entered", "canceled", "exit", "stop"},
         w.at = "entered" => Untouched(o),
         w.at = "canceled" => ord[o].status # "FullExit",
         w.at = "exit" => EntryClosed(o), w.at = "stop" => Entered(o),
         UNCHANGED <<ord, db, exitReq, doneKeys, exgIdMap, doneTrades>>
  PROVE  IInv' /\ Forward
<1>0. /\ ord' = ord /\ db' = db /\ exitReq' = exitReq
      /\ doneKeys' = doneKeys /\ exgIdMap' = exgIdMap /\ doneTrades' = doneTrades
  OBVIOUS
<1>1. /\ 1 \in DOMAIN queue /\ queue[1].od = o /\ queue' \in Seq(OdQItem)
      /\ \A i \in DOMAIN queue' : /\ i \in Nat /\ i + 1 \in DOMAIN queue
                                  /\ queue'[i] = queue[i + 1]
  BY Dequeued DEF IInv
<1>2. /\ run'["queue"] = w /\ run'["trade"] = run["trade"] /\ Threads = {"queue", "trade"}
      /\ run["trade"].od \in Orders
  BY OrdersNamed DEF IInv, TypeOK, Threads
<1>3. /\ \A x \in DOMAIN exo : exo'[x].od = exo[x].od /\ exo'[x].kind = exo[x].kind
      /\ \A x \in DOMAIN exo' \ DOMAIN exo : exo'[x].od = o /\ exo'[x].kind = "enter"
      /\ DOMAIN exo \subseteq DOMAIN exo'
      /\ 0 .. Len(exo) \subseteq 0 .. Len(exo')
  BY IInvSane DEF Grown, Sane
<1>4. \A i \in DOMAIN queue' : queue'[i].act = "Enter" => queue'[i].od # o
  <2> SUFFICES ASSUME NEW i \in DOMAIN queue', queue'[i].act = "Enter", queue'[i].od = o
               PROVE  FALSE
    OBVIOUS
  <2>1. i \in Nat /\ i + 1 \in DOMAIN queue /\ queue[i + 1].act = "Enter"
        /\ queue[i + 1].od = queue[1].od /\ i \in DOMAIN queue'
    BY <1>1
  <2>2. i + 1 <= 1
    BY <1>1, <2>1 DEF IInv, EnterOnce
  <2>3. i # 0
    BY <1>1
  <2> QED
    BY <2>1, <2>2, <2>3
<1>5. Opened(o)
  BY <1>1 DEF IInv, OnlyOpened
<1>6. Head(queue).act = "Enter" => \A x \in DOMAIN exo : exo[x].od # o
  BY <1>1, Dequeued DEF IInv, EnterOnce
<1>7. TypeOK'
  BY <1>0, <1>1 DEF IInv, TypeOK, Sane, Threads
<1>8. IdsNameOrders'
  <2>1. \A h \in Threads : run'[h].res.ex \in 0 .. Len(exo')
    BY <1>2, <1>3 DEF IInv, IdsNameOrders
  <2>2. \A p \in Orders : ord'[p].enter.oid \in 0 .. Len(exo')
    BY <1>0, <1>3 DEF IInv, IdsNameOrders
  <2>3. run'["trade"].at = "wait" =>
          /\ run'["trade"].res.ex \in DOMAIN exo'
          /\ exo'[run'["trade"].res.ex].od = run'["trade"].od
    BY <1>2, <1>3 DEF IInv, IdsNameOrders
  <2> QED
    BY <2>1, <2>2, <2>3 DEF IdsNameOrders, Sane
<1>9. OnlyOpened'
  <2>1. \A x \in DOMAIN exo' : Opened(exo'[x].od)
    BY <1>3, <1>5 DEF IInv, OnlyOpened
  <2>2. \A i \in DOMAIN queue' : Opened(queue'[i].od)
    BY <1>1 DEF IInv, OnlyOpened
  <2>3. \A h \in Threads : run'[h].at \notin {"idle", "wait"} => Opened(run'[h].od)
    BY <1>2, <1>5 DEF IInv, OnlyOpened, Working
  <2> QED
    BY <1>0, <2>1, <2>2, <2>3 DEF IInv, OnlyOpened, Opened, Working
<1>10. EnterOnce'
  <2> SUFFICES ASSUME NEW i \in DOMAIN queue', queue'[i].act = "Enter"
               PROVE  /\ \A j \in DOMAIN queue' : queue'[j].od = queue'[i].od => i <= j
                      /\ NowUntouched(queue'[i].od)
                      /\ \A g \in Threads : ~ NowHolds(g, queue'[i].od)
                      /\ \A x \in DOMAIN exo' : exo'[x].od # queue'[i].od
    BY DEF EnterOnce, Untouched, NowUntouched, Holds, NowHolds
  <2>1. /\ i \in Nat /\ i + 1 \in DOMAIN queue /\ queue'[i] = queue[i + 1]
        /\ queue[i + 1].act = "Enter" /\ queue[i + 1].od # o
    BY <1>1, <1>4
  <2>2. \A j \in DOMAIN queue' : queue'[j].od = queue'[i].od => i <= j
    <3> SUFFICES ASSUME NEW j \in DOMAIN queue', queue'[j].od = queue'[i].od PROVE i <= j
      OBVIOUS
    <3>1. j \in Nat /\ j + 1 \in DOMAIN queue /\ queue'[j] = queue[j + 1]
      BY <1>1
    <3>2. i + 1 <= j + 1
      BY <2>1, <3>1 DEF IInv, EnterOnce
    <3> QED
      BY <2>1, <3>1, <3>2
  <2>3. NowUntouched(queue'[i].od)
    BY <1>0, <2>1 DEF IInv, EnterOnce, Untouched, NowUntouched
  <2>4. \A g \in Threads : ~ NowHolds(g, queue'[i].od)
    BY <1>2, <2>1 DEF IInv, EnterOnce, Holds, NowHolds
  <2>5. \A x \in DOMAIN exo' : exo'[x].od # queue'[i].od
    BY <1>3, <2>1 DEF IInv, EnterOnce
  <2> QED
    BY <2>2, <2>3, <2>4, <2>5
<1>11. EntryClosedFirst'
  <2>1. \A x \in DOMAIN exo' : exo'[x].kind # "enter" => EntryClosed(exo'[x].od)
    BY <1>3 DEF IInv, EntryClosedFirst
  <2>2. \A h \in Threads : run'[h].at \in {"exit", "exited"} => EntryClosed(run'[h].od)
    BY <1>2 DEF IInv, EntryClosedFirst
  <2>3. \A h \in Threads : run'[h].at \in {"stop", "stopped"} => Entered(run'[h].od)
    BY <1>2 DEF IInv, EntryClosedFirst
  <2>4. \A i \in DOMAIN queue' : queue'[i].act = "StopLoss" => Entered(queue'[i].od)
    BY <1>1 DEF IInv, EntryClosedFirst
  <2> QED
    BY <1>0, <2>1, <2>2, <2>3, <2>4 DEF IInv, EntryClosedFirst, Entered, EntryClosed
<1>12. LockedUntilClosed'
  <2>1. \A p \in Orders : (\A h \in Threads : NowHolds(h, p)) => db[p].status = "FullExit"
    <3> SUFFICES ASSUME NEW p \in Orders, \A h \in Threads : NowHolds(h, p)
                 PROVE  db[p].status = "FullExit"
      OBVIOUS
    <3>1. p = o /\ Holds("trade", o)
      BY <1>2 DEF NowHolds, Holds
    <3> QED
      BY <1>2, <3>1, SharedOnlyWhenClosed
  <2>2. \A h \in Threads : run'[h].at = "entered" => Untouched(run'[h].od)
    BY <1>2 DEF IInv, LockedUntilClosed
  <2>3. \A h \in Threads :
          run'[h].at \in {"canceled", "exited"} => ord[run'[h].od].status # "FullExit"
    BY <1>2 DEF IInv, LockedUntilClosed
  <2> QED
    BY <1>0, <2>1, <2>2, <2>3 DEF IInv, LockedUntilClosed, Untouched, Holds, NowHolds
<1>13. Forward
  BY <1>0 DEF Forward, Opened, NowOpened, Entered, NowEntered
<1> QED
  BY <1>7, <1>8, <1>9, <1>10, <1>11, <1>12, <1>13 DEF IInv

LEMMA HandleOrderQueueStep ==
  ASSUME IInv, HandleOrderQueue
  PROVE  IInv' /\ Forward
<1> DEFINE o == Head(queue).od
           act == Head(queue).act
           W == run["queue"]
<1>1. /\ W.at = "idle" /\ queue # <<>> /\ LockFree(o) /\ queue' = Tail(queue)
      /\ UNCHANGED <<ord, db, exitReq, doneKeys, exgIdMap, doneTrades>>
      /\ \/ act = "Enter" /\ CreateOrder("queue", o, "enter", ord[o].enter.amt, "entered")
         \/ act = "Exit" /\ ~ EnterClosed(o) /\ CancelEnter("queue", o, ord[o].enter.oid)
         \/ \E step \in {"save", "exit", "stop"} :
              /\ step = "exit" => EnterClosed(o)
              /\ step = "stop" => act = "StopLoss"
              /\ run' = [run EXCEPT !["queue"].at = step, !["queue"].od = o]
              /\ UNCHANGED exchange
  <2>1. /\ W.at = "idle" /\ queue # <<>> /\ LockFree(o) /\ queue' = Tail(queue)
        /\ UNCHANGED <<ord, db, exitReq, doneKeys, exgIdMap, doneTrades>>
    BY DEF HandleOrderQueue
  <2>2. act \in {"Enter", "Exit", "StopLoss"}
    BY <2>1, OrdersNamed, Dequeued DEF IInv, OdQItem
  <2> QED
    BY <2>1, <2>2 DEF HandleOrderQueue
<1>2. /\ 1 \in DOMAIN queue /\ queue[1] = Head(queue) /\ queue[1] \in OdQItem /\ o \in Orders
      /\ TypeOK /\ Sane /\ "queue" \in Threads
  BY <1>1, Dequeued, OrdersNamed, IInvSane DEF IInv, Threads
<1>3. /\ ord[o] \in InOutOrder /\ ord[o].enter.oid \in 0 .. Len(exo) /\ W \in Work
      /\ W.res.ex \in 0 .. Len(exo)
  BY <1>2, OrdersNamed DEF TypeOK, IInv, IdsNameOrders
<1> DEFINE next(step, kinds) ==
             /\ Sane' /\ Grown(kinds, o) /\ Goes("queue", step, o)
             /\ kinds = {} \/ (kinds = {"enter"} /\ act = "Enter")
             /\ step = "entered" => Untouched(o)
             /\ step = "canceled" => ord[o].status # "FullExit"
             /\ step = "exit" => EntryClosed(o)
             /\ step = "stop" => Entered(o)
<1>4. CASE act = "Enter" /\ CreateOrder("queue", o, "enter", ord[o].enter.amt, "entered")
  <2>1. ord[o].enter.amt \in 0 .. Amount
    BY <1>3 DEF InOutOrder, SubOrder
  <2>2. Sane' /\ Grown({"enter"}, o) /\ Goes("queue", "entered", o)
    BY <1>2, <1>4, <2>1, CreateOrderEffect DEF Steps
  <2>3. Untouched(o)
    BY <1>2, <1>4 DEF IInv, EnterOnce
  <2> QED
    <3>1. PICK w \in Work : /\ run' = [run EXCEPT !["queue"] = w]
                            /\ w.at = "entered" /\ w.od = o /\ w.res.ex \in 0 .. Len(exo')
      BY <2>2 DEF Goes
    <3> HIDE DEF o, act
    <3>2. o = Head(queue).od /\ Head(queue).act = "Enter"
      BY <1>4 DEF o, act
    <3> QED
      BY <1>1, <1>2, <2>2, <2>3, <3>1, <3>2, TakeStep
<1>5. CASE act = "Exit" /\ ~ EnterClosed(o) /\ CancelEnter("queue", o, ord[o].enter.oid)
  <2>1. Sane' /\ Grown({}, o) /\ Goes("queue", "canceled", o)
    BY <1>2, <1>3, <1>5, CancelEnterEffect
  <2>2. ord[o].status # "FullExit"
    BY <1>2, <1>5 DEF IInv, EntryClosedFirst, Entered, EntryClosed, EnterClosed
  <2>3. PICK w \in Work : /\ run' = [run EXCEPT !["queue"] = w]
                          /\ w.at = "canceled" /\ w.od = o /\ w.res.ex \in 0 .. Len(exo')
    BY <2>1 DEF Goes
  <2> HIDE DEF o, act
  <2>4. o = Head(queue).od
    BY DEF o
  <2> QED
    BY <1>1, <1>2, <2>1, <2>2, <2>3, <2>4, TakeStep
<1>6. CASE \E step \in {"save", "exit", "stop"} :
              /\ step = "exit" => EnterClosed(o)
              /\ step = "stop" => act = "StopLoss"
              /\ run' = [run EXCEPT !["queue"].at = step, !["queue"].od = o]
              /\ UNCHANGED exchange
  <2>1. PICK step \in {"save", "exit", "stop"} :
              /\ step = "exit" => EnterClosed(o)
              /\ step = "stop" => act = "StopLoss"
              /\ run' = [run EXCEPT !["queue"].at = step, !["queue"].od = o]
              /\ UNCHANGED exchange
    BY <1>6
  <2> DEFINE w == [W EXCEPT !.at = step, !.od = o]
  <2>2. w \in Work /\ w.at = step /\ w.od = o /\ w.res = W.res
    BY <1>2, <1>3 DEF Work
  <2>3. run' = [run EXCEPT !["queue"] = w]
    BY <1>2, <1>3, <2>1 DEF TypeOK
  <2>4. Sane' /\ Grown({}, o) /\ exo' = exo
    BY <1>2, <2>1, ExchangeIdle
  <2>5. step = "exit" => EntryClosed(o)
    BY <2>1 DEF EnterClosed, EntryClosed
  <2>6. step = "stop" => Entered(o)
    BY <1>2, <2>1 DEF IInv, EntryClosedFirst
  <2> HIDE DEF w, o, act
  <2>7. o = Head(queue).od /\ w.res.ex \in 0 .. Len(exo')
    BY <1>3, <2>2, <2>4 DEF o
  <2> QED
    BY <1>1, <1>2, <2>2, <2>3, <2>4, <2>5, <2>6, <2>7, TakeStep
<1> QED
  BY <1>1, <1>4, <1>5, <1>6

(* The invariant and what follows from it. *)

LEMMA InitIInv == Init => IInv
<1> SUFFICES ASSUME Init PROVE IInv
  OBVIOUS
<1>1. TypeOK
  BY NoOrderType, IdleType, ConstantsAssumption DEF Init, TypeOK
<1>2. \A g \in Threads : run[g] = Idle /\ Idle.at = "idle" /\ Idle.res.ex = 0
  BY DEF Init, Idle, Failed
<1>3. /\ \A o \in Orders : ord[o] = NoOrder /\ db[o] = NoOrder
      /\ NoOrder.status = "None" /\ NoOrder.enter.oid = 0
      /\ DOMAIN exo = {} /\ DOMAIN queue = {} /\ net = {} /\ exitReq = {} /\ Len(exo) = 0
  BY DEF Init, NoOrder, NoSub
<1>4. IdsNameOrders
  BY <1>2, <1>3 DEF IdsNameOrders, Threads
<1>5. OnlyOpened
  BY <1>2, <1>3 DEF OnlyOpened, Working
<1>6. EnterOnce
  BY <1>3 DEF EnterOnce
<1>7. EntryClosedFirst
  BY <1>2, <1>3 DEF EntryClosedFirst, Entered
<1>8. LockedUntilClosed
  BY <1>2, <1>3 DEF LockedUntilClosed, Holds, Threads
<1> QED
  BY <1>1, <1>4, <1>5, <1>6, <1>7, <1>8 DEF IInv

LEMMA NextIInv == IInv /\ [Next]_vars => IInv' /\ Forward
<1> SUFFICES ASSUME IInv, [Next]_vars PROVE IInv' /\ Forward
  OBVIOUS
<1>1. CASE Strategy
  BY <1>1, EnterOrderStep, ExitOrderStep, PostOrderExitStep, SetStopLossStep DEF Strategy
<1>2. CASE HandleOrderQueue
  BY <1>2, HandleOrderQueueStep
<1>3. CASE \E t \in net : HandleMyTrade(t)
  BY <1>3, HandleMyTradeStep
<1>4. CASE UpdateByMyTrade
  BY <1>4, UpdateByMyTradeStep
<1>5. CASE \E g \in Threads : Handler(g)
  BY <1>5, EnterSubmittedStep, EnterCancelledStep, SubmitExitStep, ExitSubmittedStep,
     EditTriggerStep, TriggerPutStep, CancelTriggerOdsStep, SaveUnlockStep DEF Handler
<1>6. CASE Exchange
  BY <1>6, ExchangeStep
<1>7. CASE UNCHANGED vars
  BY <1>7, StutterStep
<1> QED
  BY <1>1, <1>2, <1>3, <1>4, <1>5, <1>6, <1>7 DEF Next

\* The inductive invariant holds in every reachable state: the locks, the database
\* and the queue keep an order's entry before everything else and its closing last.
THEOREM InvariantHolds == Spec => []IInv
<1>1. Init => IInv
  BY InitIInv
<1>2. IInv /\ [Next]_vars => IInv'
  BY NextIInv
<1> QED
  BY <1>1, <1>2, PTL DEF Spec

\* Every variable keeps its type: in particular no handler computes a filled amount
\* beyond what was asked for, and no step names an exchange order that is not there.
THEOREM TypeCorrect == Spec => []TypeOK
<1>1. IInv => TypeOK
  BY DEF IInv
<1> QED
  BY <1>1, InvariantHolds, PTL

\* A fully exited order stays so, whatever answer or trade comes late.
THEOREM ExitIsFinal == Spec => FullExitIsFinal
<1>1. IInv /\ [Next]_vars =>
        [\A o \in Orders : ord[o].status = "FullExit" => ord'[o].status = "FullExit"]_vars
  BY NextIInv DEF Forward
<1> QED
  BY <1>1, InvariantHolds, PTL DEF Spec, FullExitIsFinal
-----------------------------------------------------------------------------
(* The database agrees with memory when no handler holds the order, and what  *)
(* is known to be entered never goes back.                                    *)

(* Memory and the database *)

\* The step is handler g's, on order o; the handler goes on holding it, or saved it.
Handles(g, o) ==
  /\ \A p \in Orders \ {o} : ord'[p] = ord[p] /\ db'[p] = db[p] /\ ~ Holds(g, p)
  /\ \A h \in Threads \ {g} : run'[h] = run[h]
  /\ NowHolds(g, o) \/ (run'[g].at = "idle" /\ db'[o] = ord'[o])
  /\ run'[g].od = o \/ run'[g].at = "idle"

LEMMA HandlesKeepsSaved ==
  ASSUME TypeOK, SavedWhenFree, NEW g \in Threads, NEW o \in Orders, Handles(g, o)
  PROVE  SavedWhenFree'
<1> SUFFICES ASSUME NEW p \in Orders, \A h \in Threads : ~ NowHolds(h, p)
             PROVE  db'[p] \in {ord'[p], [ord'[p] EXCEPT !.stop.old = TRUE, !.stop.edits = db'[p].stop.edits]}
  BY ZenonT(40) DEF SavedWhenFree, Holds, NowHolds
<1>1. CASE p = o
  BY <1>1, SMTT(40) DEF Handles
<1>2. CASE p # o
  <2>1. ord'[p] = ord[p] /\ db'[p] = db[p] /\ \A h \in Threads : ~ Holds(h, p)
    BY <1>2 DEF Handles, Holds, NowHolds
  <2> QED
    BY <2>1 DEF SavedWhenFree
<1> QED
  BY <1>1, <1>2, SMTT(40)

LEMMA GoHolds ==
  ASSUME TypeOK, NEW g \in Threads, NEW step \in Steps \ {"idle", "wait"}, Go(g, step)
  PROVE  NowHolds(g, run[g].od) /\ \A h \in Threads \ {g} : run'[h] = run[h]
BY DEF TypeOK, Go, NowHolds, Work

LEMMA CallHolds ==
  ASSUME TypeOK, NEW g \in Threads, NEW step \in Steps \ {"idle", "wait"}, NEW o,
         NEW kind, NEW amt,
         CreateOrder(g, o, kind, amt, step) \/ (step = "canceled" /\ CancelEnter(g, o, amt))
  PROVE  NowHolds(g, o) /\ \A h \in Threads \ {g} : run'[h] = run[h]
<1>1. \E r : run' = [run EXCEPT ![g] = [at |-> step, od |-> o, res |-> r]]
  BY DEF CreateOrder, CancelEnter
<1> QED
  BY <1>1 DEF TypeOK, NowHolds

LEMMA HandlerHandles ==
  ASSUME TypeOK, NEW g \in Threads, Handler(g)
  PROVE  Handles(g, run[g].od)
<1> DEFINE o == run[g].od
<1>1. o \in Orders /\ ord \in [Orders -> InOutOrder] /\ db \in [Orders -> InOutOrder]
  BY OrdersNamed DEF TypeOK
<1>2. \A p \in Orders \ {o} : ~ Holds(g, p)
  BY DEF Holds
<1>3. ASSUME NEW od, Become(o, od)
      PROVE  \A p \in Orders \ {o} : ord'[p] = ord[p] /\ db'[p] = db[p]
  BY <1>1, <1>3 DEF Become
<1>4. ASSUME NEW od, ord' = [ord EXCEPT ![o] = od] \/ ord' = ord, db' = db
      PROVE  \A p \in Orders \ {o} : ord'[p] = ord[p] /\ db'[p] = db[p]
  BY <1>1, <1>4
<1>5. CASE SaveUnlock(g)
  <2>1. run' = [run EXCEPT ![g] = Idle] /\ ord' = ord /\ Idle.at = "idle"
    BY <1>5 DEF SaveUnlock, Idle
  <2>2. db' = IF IsDirty(o) THEN [db EXCEPT ![o] = ord[o]] ELSE db
    BY <1>5 DEF SaveUnlock
  <2>3. db'[o] = ord'[o] /\ \A p \in Orders \ {o} : db'[p] = db[p]
    BY <1>1, <2>1, <2>2 DEF IsDirty
  <2>4. run'[g].at = "idle" /\ \A h \in Threads \ {g} : run'[h] = run[h]
    BY <2>1 DEF TypeOK
  <2> QED
    BY <1>2, <2>1, <2>3, <2>4 DEF Handles
<1>6. ASSUME NowHolds(g, o), \A h \in Threads \ {g} : run'[h] = run[h],
             \A p \in Orders \ {o} : ord'[p] = ord[p] /\ db'[p] = db[p]
      PROVE  Handles(g, o)
  BY <1>2, <1>6 DEF Handles, NowHolds
<1>7. CASE EnterSubmitted(g)
  <2>1. \E od : Become(o, od)
    BY <1>7 DEF EnterSubmitted
  <2>2. \E step \in {"save", "stop"} : Go(g, step)
    BY <1>7 DEF EnterSubmitted
  <2> QED
    BY <1>3, <1>6, <2>1, <2>2, GoHolds DEF Steps
<1>8. CASE EnterCancelled(g)
  <2>1. \E od : Become(o, od)
    BY <1>8, ZenonT(40) DEF EnterCancelled
  <2>2. \E step \in {"cleanup", "exit"} : Go(g, step)
    BY <1>8, ZenonT(40) DEF EnterCancelled
  <2> QED
    BY <1>3, <1>6, <2>1, <2>2, GoHolds, SMTT(40) DEF Steps
<1>9. CASE SubmitExit(g)
  <2>1. (ord' = ord /\ db' = db) \/ \E od : Become(o, od)
    BY <1>9 DEF SubmitExit
  <2>2. \/ \E step \in {"save", "cleanup"} : Go(g, step)
        \/ \E amt : CreateOrder(g, o, "exit", amt, "exited")
    BY <1>9 DEF SubmitExit
  <2>3. NowHolds(g, o) /\ \A h \in Threads \ {g} : run'[h] = run[h]
    BY <2>2, GoHolds, CallHolds DEF Steps
  <2> QED
    BY <1>3, <1>4, <1>6, <2>1, <2>3
<1>10. CASE ExitSubmitted(g)
  <2>1. \E od : Become(o, od)
    BY <1>10 DEF ExitSubmitted
  <2>2. \E step \in {"save", "cleanup"} : Go(g, step)
    BY <1>10 DEF ExitSubmitted
  <2> QED
    BY <1>3, <1>6, <2>1, <2>2, GoHolds DEF Steps
<1>11. CASE EditTrigger(g)
  <2>1. db' = db /\ (ord' = ord \/ \E od : ord' = [ord EXCEPT ![o] = od])
    BY <1>11 DEF EditTrigger
  <2>2. Go(g, "save") \/ \E amt : CreateOrder(g, o, "stop", amt, "stopped")
    BY <1>11 DEF EditTrigger
  <2>3. NowHolds(g, o) /\ \A h \in Threads \ {g} : run'[h] = run[h]
    BY <2>2, GoHolds, CallHolds DEF Steps
  <2> QED
    BY <1>4, <1>6, <2>1, <2>3
<1>12. CASE TriggerPut(g)
  <2>1. db' = db /\ (ord' = ord \/ \E od : ord' = [ord EXCEPT ![o] = od])
    BY <1>12 DEF TriggerPut
  <2>2. \E step \in {"save", "exit"} : Go(g, step)
    BY <1>12 DEF TriggerPut
  <2> QED
    BY <1>4, <1>6, <2>1, <2>2, GoHolds DEF Steps
<1>13. CASE CancelTriggerOds(g)
  <2>1. db' = db /\ \E od : ord' = [ord EXCEPT ![o] = od]
    BY <1>13 DEF CancelTriggerOds
  <2>2. Go(g, "save")
    BY <1>13 DEF CancelTriggerOds
  <2> QED
    BY <1>4, <1>6, <2>1, <2>2, GoHolds DEF Steps
<1> QED
  BY <1>5, <1>7, <1>8, <1>9, <1>10, <1>11, <1>12, <1>13 DEF Handler

LEMMA HandleOrderQueueHandles ==
  ASSUME TypeOK, HandleOrderQueue
  PROVE  Handles("queue", Head(queue).od) /\ Head(queue).od \in Orders
<1> DEFINE o == Head(queue).od
<1>1. o \in Orders
  BY Dequeued, OrdersNamed DEF HandleOrderQueue
<1>2. ord' = ord /\ db' = db /\ run["queue"].at = "idle"
  BY DEF HandleOrderQueue
<1>3. \/ \E step \in {"save", "exit", "stop"} : run' = [run EXCEPT !["queue"].at = step, !["queue"].od = o]
      \/ CreateOrder("queue", o, "enter", ord[o].enter.amt, "entered")
      \/ CancelEnter("queue", o, ord[o].enter.oid)
  <2>1. Head(queue).act \in {"Enter", "Exit", "StopLoss"}
    BY Dequeued, OrdersNamed DEF HandleOrderQueue, OdQItem
  <2> QED
    BY <2>1 DEF HandleOrderQueue
<1>4. NowHolds("queue", o) /\ \A h \in Threads \ {"queue"} : run'[h] = run[h]
  <2>1. CASE \E step \in {"save", "exit", "stop"} : run' = [run EXCEPT !["queue"].at = step, !["queue"].od = o]
    BY <2>1 DEF TypeOK, NowHolds, Threads, Work
  <2>2. CASE CreateOrder("queue", o, "enter", ord[o].enter.amt, "entered")
    BY <2>2, CallHolds DEF Steps, Threads
  <2>3. CASE CancelEnter("queue", o, ord[o].enter.oid)
    BY <2>3, CallHolds, ZenonT(40) DEF Steps, Threads
  <2> QED
    BY <1>3, <2>1, <2>2, <2>3
<1> QED
  BY <1>1, <1>2, <1>4 DEF Handles, Holds, NowHolds

LEMMA UpdateByMyTradeHandles ==
  ASSUME TypeOK, UpdateByMyTrade
  PROVE  Handles("trade", run["trade"].od) /\ run["trade"].od \in Orders
<1> DEFINE o == run["trade"].od
<1>1. o \in Orders /\ ord \in [Orders -> InOutOrder] /\ db \in [Orders -> InOutOrder]
  BY OrdersNamed DEF TypeOK, Threads
<1>2. PICK od :
        /\ ord' = [ord EXCEPT ![o] = od] /\ (db' = db \/ db' = [db EXCEPT ![o] = od])
        /\ \E step \in {"cleanup", "stop", "save"} : Go("trade", step)
  BY ZenonT(40) DEF UpdateByMyTrade
<1>3. NowHolds("trade", o) /\ \A h \in Threads \ {"trade"} : run'[h] = run[h]
  BY <1>2, GoHolds DEF Steps, Threads
<1>4. \A p \in Orders \ {o} : ord'[p] = ord[p] /\ db'[p] = db[p] /\ ~ Holds("trade", p)
  BY <1>1, <1>2 DEF Holds
<1> QED
  BY <1>1, <1>3, <1>4 DEF Handles, NowHolds

LEMMA ReceivedStep ==
  ASSUME TypeOK, SavedWhenFree, NEW t \in net, HandleMyTrade(t)
  PROVE  SavedWhenFree'
<1>1. ord' = ord /\ db' = db /\ run["trade"].at = "idle"
  BY DEF HandleMyTrade
<1>2. run' = run \/ \E o, r : run' = [run EXCEPT !["trade"] = [at |-> "wait", od |-> o, res |-> r]]
  BY DEF HandleMyTrade
<1>3. \A h \in Threads : run'[h] = run[h] \/ (run[h].at = "idle" /\ run'[h].at = "wait")
  BY <1>1, <1>2 DEF TypeOK, Threads
<1>4. \A h \in Threads, p \in Orders : Holds(h, p) => NowHolds(h, p)
  BY <1>3 DEF Holds, NowHolds
<1> QED
  BY <1>1, <1>4 DEF SavedWhenFree, Holds, NowHolds

\* A stop loss with another price, or as it was before.
WithStop(od, s) == [od EXCEPT !.stop = s]
LEMMA StopWritten ==
  ASSUME NEW od \in InOutOrder, NEW old \in BOOLEAN, NEW edits \in Nat
  PROVE  [od EXCEPT !.stop.old = old, !.stop.edits = edits]
           = WithStop(od, [old |-> old, oid |-> od.stop.oid, edits |-> edits])
<1> DEFINE s == [od.stop EXCEPT !.old = old]
           t == [s EXCEPT !.edits = edits]
<1>1. od.stop \in StopState
  BY DEF InOutOrder
<1>2. s = [old |-> old, oid |-> od.stop.oid, edits |-> od.stop.edits]
  BY <1>1 DEF StopState
<1>3. t = [old |-> old, oid |-> od.stop.oid, edits |-> edits]
  <2>1. s \in [old : BOOLEAN, oid : Nat, edits : 0 .. MaxEdits] /\ s.old = old /\ s.oid = od.stop.oid
    BY <1>1, <1>2 DEF StopState
  <2> HIDE DEF s
  <2> QED
    BY <2>1
<1>4. [od EXCEPT !.stop.old = old, !.stop.edits = edits]
        = [[od EXCEPT !.stop = s] EXCEPT !.stop = [[od EXCEPT !.stop = s].stop EXCEPT !.edits = edits]]
  OBVIOUS
<1>5. [od EXCEPT !.stop = s].stop = s
  BY DEF InOutOrder
<1>6. ASSUME NEW s1, NEW s2
      PROVE  [[od EXCEPT !.stop = s1] EXCEPT !.stop = s2] = [od EXCEPT !.stop = s2]
  BY DEF InOutOrder
<1>7. [od EXCEPT !.stop.old = old, !.stop.edits = edits] = [[od EXCEPT !.stop = s] EXCEPT !.stop = t]
  BY <1>4, <1>5, Zenon
<1>8. [[od EXCEPT !.stop = s] EXCEPT !.stop = t] = [od EXCEPT !.stop = t]
  BY <1>6
<1> QED
  BY <1>3, <1>7, <1>8 DEF WithStop

LEMMA StopEdited ==
  ASSUME NEW od \in InOutOrder, NEW saved \in InOutOrder, NEW new, od.stop.old = TRUE,
         od.stop.edits < MaxEdits,
         new = [od EXCEPT !.stop.old = FALSE, !.stop.edits = @ + 1],
         saved \in {od, [od EXCEPT !.stop.old = TRUE, !.stop.edits = saved.stop.edits]}
  PROVE  saved = [new EXCEPT !.stop.old = TRUE, !.stop.edits = saved.stop.edits]
<1> DEFINE S(old, edits) == [old |-> old, oid |-> od.stop.oid, edits |-> edits]
           e == od.stop.edits
           f == saved.stop.edits
<1>1. od.stop \in StopState /\ saved.stop \in StopState
  BY DEF InOutOrder
<1>2. e \in Nat /\ e + 1 \in 0 .. MaxEdits /\ f \in Nat /\ e + 1 \in Nat
  BY <1>1, ConstantsAssumption DEF StopState
<1>3. new = [od EXCEPT !.stop.old = FALSE, !.stop.edits = e + 1]
  BY <1>1, <1>2 DEF InOutOrder, StopState
<1>4. new = WithStop(od, S(FALSE, e + 1))
  BY <1>2, <1>3, StopWritten
<1>5. S(FALSE, e + 1) \in StopState
  BY <1>1, <1>2 DEF StopState
<1>6. new \in InOutOrder /\ new.stop = S(FALSE, e + 1)
  BY <1>4, <1>5 DEF WithStop, InOutOrder
<1>7. [new EXCEPT !.stop.old = TRUE, !.stop.edits = f] = WithStop(new, S(TRUE, f))
  <2>1. ASSUME NEW a \in BOOLEAN, NEW d, d.stop = S(a, e + 1)
        PROVE  d.stop.oid = od.stop.oid
    BY <2>1
  <2>2. new.stop.oid = od.stop.oid
    BY <1>6, <2>1
  <2>3. [new EXCEPT !.stop.old = TRUE, !.stop.edits = f]
          = WithStop(new, [old |-> TRUE, oid |-> new.stop.oid, edits |-> f])
    BY <1>2, <1>6, StopWritten
  <2> QED
    BY <2>2, <2>3
<1>8. WithStop(new, S(TRUE, f)) = WithStop(od, S(TRUE, f))
  BY <1>4 DEF WithStop, InOutOrder
<1>9. [od EXCEPT !.stop.old = TRUE, !.stop.edits = f] = WithStop(od, S(TRUE, f))
  BY <1>2, StopWritten
<1>10. CASE saved = od
  <2>1. S(TRUE, f) = od.stop
    BY <1>1, <1>10 DEF StopState
  <2>2. WithStop(od, od.stop) = od
    BY DEF WithStop, InOutOrder
  <2> QED
    BY <1>7, <1>8, <1>10, <2>1, <2>2
<1> QED
  BY <1>7, <1>8, <1>9, <1>10

\* What the strategy writes without the lock it saves, but for an edit of the stop loss.
LEMMA StrategyStep ==
  ASSUME TypeOK, SavedWhenFree, Strategy
  PROVE  SavedWhenFree'
<1>1. ASSUME NEW o \in Orders, EnterOrder(o) \/ PostOrderExit(o) PROVE SavedWhenFree'
  <2>0. run' = run /\ db' = [db EXCEPT ![o] = ord'[o]]
    BY <1>1 DEF EnterOrder, PostOrderExit
  <2>1. \E od : ord' = [ord EXCEPT ![o] = od]
    <3>1. CASE EnterOrder(o)
      BY <3>1 DEF EnterOrder
    <3>2. CASE PostOrderExit(o)
      BY <3>2 DEF PostOrderExit
    <3> QED
      BY <1>1, <3>1, <3>2
  <2> QED
    BY <2>0, <2>1 DEF TypeOK, SavedWhenFree, Holds
<1>2. ASSUME NEW o \in Orders, ExitOrder(o) PROVE SavedWhenFree'
  BY <1>2 DEF ExitOrder, SavedWhenFree, Holds
<1>3. ASSUME NEW o \in Orders, SetStopLoss(o) PROVE SavedWhenFree'
  <2>1. /\ ord[o].stop.old /\ ord[o].stop.edits < MaxEdits /\ run' = run /\ db' = db
        /\ ord' = [ord EXCEPT ![o].stop.old = FALSE, ![o].stop.edits = @ + 1]
    BY <1>3 DEF SetStopLoss
  <2>2. ord[o] \in InOutOrder /\ db[o] \in InOutOrder /\ ord[o].stop.old = TRUE
    BY <2>1 DEF TypeOK, InOutOrder, StopState
  <2>3. /\ ord'[o] = [ord[o] EXCEPT !.stop.old = FALSE, !.stop.edits = @ + 1]
        /\ \A p \in Orders \ {o} : ord'[p] = ord[p]
    BY <2>1, <2>2, SMTT(40) DEF TypeOK
  <2>4. db[o] \in {ord[o], [ord[o] EXCEPT !.stop.old = TRUE, !.stop.edits = db[o].stop.edits]}
          => db[o] = [ord'[o] EXCEPT !.stop.old = TRUE, !.stop.edits = db[o].stop.edits]
    BY <2>1, <2>2, <2>3, StopEdited
  <2> QED
    BY <2>1, <2>3, <2>4 DEF SavedWhenFree, Holds
<1> QED
  BY <1>1, <1>2, <1>3 DEF Strategy

\* Whenever no handler holds the order, the database holds what memory holds, but for
\* an edit of the stop loss: every path through the handlers ends in a Save.
THEOREM SavedAlways == Spec => []SavedWhenFree
<1>1. Init => SavedWhenFree
  BY DEF Init, SavedWhenFree
<1>2. TypeOK /\ SavedWhenFree /\ [Next]_vars => SavedWhenFree'
  <2> SUFFICES ASSUME TypeOK, SavedWhenFree, [Next]_vars PROVE SavedWhenFree'
    OBVIOUS
  <2>1. CASE Strategy
    BY <2>1, StrategyStep
  <2>2. CASE HandleOrderQueue
    BY <2>2, HandleOrderQueueHandles, HandlesKeepsSaved DEF Threads
  <2>3. CASE \E t \in net : HandleMyTrade(t)
    BY <2>3, ReceivedStep
  <2>4. CASE UpdateByMyTrade
    BY <2>4, UpdateByMyTradeHandles, HandlesKeepsSaved DEF Threads
  <2>5. CASE \E g \in Threads : Handler(g)
    BY <2>5, HandlerHandles, HandlesKeepsSaved, OrdersNamed
  <2>6. CASE Exchange
    BY <2>6 DEF Exchange, Fill, Expire, Happens, local, SavedWhenFree, Holds
  <2>7. CASE UNCHANGED vars
    BY <2>7 DEF vars, SavedWhenFree, Holds
  <2> QED
    BY <2>1, <2>2, <2>3, <2>4, <2>5, <2>6, <2>7 DEF Next
<1> QED
  BY <1>1, <1>2, TypeCorrect, PTL DEF Spec
-----------------------------------------------------------------------------
(* What is known to be entered *)

\* The predicates of reports and entries, of the next state.
NowHeard == net' \cup {run'[g].res : g \in Threads}
NowEntryOf(x, o) == x \in DOMAIN exo' /\ exo'[x].kind = "enter" /\ exo'[x].od = o
NowNotAhead(o, e) ==
  /\ (\A x \in DOMAIN exo' : ~ NowEntryOf(x, o)) => e.filled = 0
  /\ \A x \in DOMAIN exo' : NowEntryOf(x, o) =>
       /\ e.filled <= exo'[x].filled
       /\ \A r \in NowHeard : r.ex = x /\ e.upd <= r.at => e.filled <= r.filled

\* The exchange only fills, an order has one entry, and a new report tells what is.
ExchangeMoves ==
  /\ clock <= clock' /\ Len(exo) <= Len(exo') /\ Len(exo') <= Len(exo) + 1
  /\ \A x \in DOMAIN exo : /\ exo'[x].od = exo[x].od /\ exo'[x].kind = exo[x].kind
                           /\ exo[x].filled <= exo'[x].filled
  /\ \A x \in DOMAIN exo' \ DOMAIN exo : exo'[x].kind = "enter" =>
       \A y \in DOMAIN exo : exo[y].od # exo'[x].od
  /\ \A r \in NowHeard :
       \/ r \in Heard
       \/ r.ex = 0 /\ r.at = 0
       \/ /\ r.at = clock' /\ clock' = clock + 1
          /\ r.ex \in DOMAIN exo' /\ r.filled = exo'[r.ex].filled

OrdersGoOn ==
  \A o \in Orders :
    /\ NotAhead(o, ord'[o].enter) /\ ord[o].enter.filled <= ord'[o].enter.filled
    /\ ord'[o].enter.oid \in {0, ord[o].enter.oid} \/ EntryOf(ord'[o].enter.oid, o)
CallsKnown ==
  \A g \in Threads : run'[g].at \in {"entered", "canceled"} =>
    run'[g] = run[g] \/ run'[g].res.st = "err" \/ NowEntryOf(run'[g].res.ex, run'[g].od)
NeverShrinks == \A o \in Orders : ord[o].enter.filled <= ord'[o].enter.filled

LEMMA Kinds ==
  ASSUME TypeOK
  PROVE  /\ DOMAIN exo = 1 .. Len(exo) /\ Len(exo) \in Nat /\ clock \in Nat
         /\ \A x \in DOMAIN exo : exo[x] \in ExgOrder /\ exo[x].filled \in 0 .. Amount
         /\ \A o \in Orders : /\ ord[o] \in InOutOrder /\ ord[o].enter \in SubOrder
                              /\ ord[o].enter.filled \in 0 .. Amount /\ ord[o].enter.upd \in Nat
         /\ \A r \in Heard : /\ r \in Report /\ r.ex \in Nat /\ r.at \in Nat
                             /\ r.filled \in 0 .. Amount
         /\ \A g \in Threads : run[g] \in Work /\ run[g].res \in Heard
<1>1. exo \in Seq(ExgOrder) /\ run \in [Threads -> Work] /\ net \subseteq Report
  BY DEF TypeOK
<1>2. \A g \in Threads : run[g] \in Work /\ run[g].res \in Report
  BY <1>1 DEF Work
<1>3. Heard \subseteq Report
  BY <1>1, <1>2 DEF Heard
<1>4. \A x \in DOMAIN exo : exo[x] \in ExgOrder /\ exo[x].filled \in 0 .. Amount
  <2>1. \A x \in DOMAIN exo : exo[x] \in ExgOrder
    BY <1>1
  <2> QED
    BY <2>1 DEF ExgOrder
<1>5. \A o \in Orders : /\ ord[o] \in InOutOrder /\ ord[o].enter \in SubOrder
                        /\ ord[o].enter.filled \in 0 .. Amount /\ ord[o].enter.upd \in Nat
  BY DEF TypeOK, InOutOrder, SubOrder
<1>6. \A r \in Heard : r.ex \in Nat /\ r.at \in Nat /\ r.filled \in 0 .. Amount
  BY <1>3 DEF Report
<1> QED
  BY <1>1, <1>2, <1>3, <1>4, <1>5, <1>6 DEF TypeOK, Heard

\* The same of the next state.
LEMMA NowKinds ==
  ASSUME TypeOK'
  PROVE  /\ DOMAIN exo' = 1 .. Len(exo') /\ Len(exo') \in Nat /\ clock' \in Nat
         /\ \A x \in DOMAIN exo' : exo'[x] \in ExgOrder /\ exo'[x].filled \in 0 .. Amount
         /\ \A r \in NowHeard : /\ r \in Report /\ r.ex \in Nat /\ r.at \in Nat
                                /\ r.filled \in 0 .. Amount
<1>1. exo' \in Seq(ExgOrder) /\ run' \in [Threads -> Work] /\ net' \subseteq Report /\ clock' \in Nat
  BY DEF TypeOK
<1>2. \A g \in Threads : run'[g] \in Work /\ run'[g].res \in Report
  BY <1>1 DEF Work
<1>3. NowHeard \subseteq Report
  BY <1>1, <1>2 DEF NowHeard
<1>4. \A x \in DOMAIN exo' : exo'[x] \in ExgOrder /\ exo'[x].filled \in 0 .. Amount
  <2>1. \A x \in DOMAIN exo' : exo'[x] \in ExgOrder
    BY <1>1
  <2> QED
    BY <2>1 DEF ExgOrder
<1>6. \A r \in NowHeard : r.ex \in Nat /\ r.at \in Nat /\ r.filled \in 0 .. Amount
  BY <1>3 DEF Report
<1> QED
  BY <1>1, <1>3, <1>4, <1>6

LEMMA HeardNames ==
  ASSUME IInv
  PROVE  \A r \in Heard : r.ex # 0 => r.ex \in DOMAIN exo
<1>1. TypeOK /\ \A g \in Threads : run[g].res.ex \in 0 .. Len(exo)
  BY DEF IInv, IdsNameOrders
<1>2. \A t \in net : t.ex \in DOMAIN exo
  BY DEF IInv, IdsNameOrders
<1> QED
  BY <1>1, <1>2, Kinds DEF Heard

LEMMA ReportsAgreeStep ==
  ASSUME IInv, TypeOK', ReportsAgree, ExchangeMoves
  PROVE  /\ \A r \in NowHeard : r.at <= clock' /\ (r.ex # 0 => r.filled <= exo'[r.ex].filled)
         /\ \A r, s \in NowHeard : r.ex # 0 /\ r.ex = s.ex /\ r.at <= s.at => r.filled <= s.filled
<1>1. TypeOK
  BY DEF IInv
<1>2. \A r \in NowHeard :
        \/ r \in Heard
        \/ r.ex = 0 /\ r.at = 0
        \/ /\ r.at = clock' /\ clock' = clock + 1
           /\ r.ex \in DOMAIN exo' /\ r.filled = exo'[r.ex].filled
  BY DEF ExchangeMoves
<1>3. \A r \in Heard : r.ex # 0 =>
        r.ex \in DOMAIN exo /\ r.filled <= exo[r.ex].filled /\ exo[r.ex].filled <= exo'[r.ex].filled
  BY HeardNames DEF ReportsAgree, ExchangeMoves
<1>4. \A r \in Heard : r.at <= clock /\ clock <= clock'
  BY DEF ReportsAgree, ExchangeMoves
<1>5. \A r \in Heard : r.ex # 0 => r.filled <= exo'[r.ex].filled
  <2> SUFFICES ASSUME NEW r \in Heard, r.ex # 0 PROVE r.filled <= exo'[r.ex].filled
    OBVIOUS
  <2>1. r.ex \in DOMAIN exo' /\ r.ex \in DOMAIN exo
    BY <1>1, <1>3, Kinds, NowKinds DEF ExchangeMoves
  <2> QED
    BY <1>1, <1>3, <2>1, Kinds, NowKinds
<1>6. \A r \in NowHeard : r.at <= clock' /\ (r.ex # 0 => r.filled <= exo'[r.ex].filled)
  <2> SUFFICES ASSUME NEW r \in NowHeard PROVE r.at <= clock' /\ (r.ex # 0 => r.filled <= exo'[r.ex].filled)
    OBVIOUS
  <2>1. CASE r \in Heard
    BY <1>1, <1>4, <1>5, <2>1, Kinds, NowKinds
  <2>2. CASE r.ex = 0 /\ r.at = 0
    BY <2>2, NowKinds
  <2>3. CASE r.at = clock' /\ r.filled = exo'[r.ex].filled
    BY <2>3, NowKinds
  <2> QED
    BY <1>2, <2>1, <2>2, <2>3
<1>7. ASSUME NEW r \in NowHeard, NEW s \in NowHeard, r.ex # 0, r.ex = s.ex, r.at <= s.at
      PROVE  r.filled <= s.filled
  <2>1. CASE s \in Heard
    <3>1. s.at <= clock
      BY <1>4, <2>1
    <3>2. r \in Heard
      BY <1>1, <1>2, <1>7, <2>1, <3>1, Kinds, NowKinds
    <3> QED
      BY <1>7, <2>1, <3>2 DEF ReportsAgree
  <2>2. CASE s \notin Heard
    <3>1. s.filled = exo'[s.ex].filled
      BY <1>2, <1>7, <2>2
    <3> QED
      BY <1>6, <1>7, <3>1
  <2> QED
    BY <2>1, <2>2
<1> QED
  BY <1>6, <1>7

LEMMA NotAheadStep ==
  ASSUME IInv, TypeOK', ExchangeMoves, NEW o \in Orders, NEW e \in SubOrder, NotAhead(o, e)
  PROVE  NowNotAhead(o, e)
<1>1. TypeOK /\ e.filled \in 0 .. Amount /\ e.upd \in Nat
  BY DEF IInv, SubOrder
<1>2. \A x \in DOMAIN exo : x \in DOMAIN exo' /\ (EntryOf(x, o) <=> NowEntryOf(x, o))
  BY <1>1, Kinds, NowKinds DEF ExchangeMoves, EntryOf, NowEntryOf
<1>3. (\A x \in DOMAIN exo' : ~ NowEntryOf(x, o)) => e.filled = 0
  BY <1>2 DEF NotAhead
<1>4. ASSUME NEW x \in DOMAIN exo', NowEntryOf(x, o)
      PROVE  /\ e.filled <= exo'[x].filled
             /\ \A r \in NowHeard : r.ex = x /\ e.upd <= r.at => e.filled <= r.filled
  <2>1. x # 0 /\ exo'[x].filled \in 0 .. Amount
    BY NowKinds
  <2>2. CASE x \in DOMAIN exo
    <3>1. EntryOf(x, o) /\ e.filled <= exo[x].filled /\ exo[x].filled <= exo'[x].filled
      BY <1>2, <1>4, <2>2 DEF NotAhead, ExchangeMoves
    <3>2. e.filled <= exo'[x].filled
      BY <1>1, <2>1, <2>2, <3>1, Kinds
    <3>3. ASSUME NEW r \in NowHeard, r.ex = x, e.upd <= r.at
          PROVE  e.filled <= r.filled
      <4>1. CASE r \in Heard
        BY <2>2, <3>1, <3>3, <4>1 DEF NotAhead
      <4>2. CASE r.filled = exo'[r.ex].filled
        BY <3>2, <3>3, <4>2
      <4> QED
        BY <2>1, <3>3, <4>1, <4>2 DEF ExchangeMoves
    <3> QED
      BY <3>2, <3>3
  <2>3. CASE x \notin DOMAIN exo
    <3>1. \A y \in DOMAIN exo : ~ EntryOf(y, o)
      BY <1>4, <2>3 DEF ExchangeMoves, NowEntryOf, EntryOf
    <3>2. e.filled = 0
      BY <3>1 DEF NotAhead
    <3> QED
      BY <2>1, <3>2, NowKinds
  <2> QED
    BY <2>2, <2>3
<1> QED
  BY <1>3, <1>4 DEF NowNotAhead

LEMMA FillsStep ==
  ASSUME IInv, IInv', FillsInv, ExchangeMoves, OrdersGoOn, CallsKnown
  PROVE  FillsInv' /\ NeverShrinks
<1>1. TypeOK /\ TypeOK' /\ ReportsAgree /\ EntriesKnown
  BY DEF IInv, FillsInv
<1>2. ReportsAgree'
  BY <1>1, ReportsAgreeStep DEF ReportsAgree, Heard, NowHeard
<1>3. \A x \in DOMAIN exo : x \in DOMAIN exo' /\ \A o : EntryOf(x, o) <=> NowEntryOf(x, o)
  BY <1>1, Kinds, NowKinds DEF ExchangeMoves, EntryOf, NowEntryOf
<1>4. ASSUME NEW x \in DOMAIN exo', NEW y \in DOMAIN exo',
             exo'[x].kind = "enter", exo'[y].kind = "enter", exo'[x].od = exo'[y].od
      PROVE  x = y
  <2>1. CASE x \in DOMAIN exo /\ y \in DOMAIN exo
    BY <1>1, <1>4, <2>1 DEF EntriesKnown, ExchangeMoves
  <2>2. CASE x \notin DOMAIN exo /\ y \notin DOMAIN exo
    BY <1>1, <2>2, Kinds, NowKinds DEF ExchangeMoves
  <2>3. CASE x \in DOMAIN exo /\ y \notin DOMAIN exo
    BY <1>4, <2>3 DEF ExchangeMoves
  <2>4. CASE x \notin DOMAIN exo /\ y \in DOMAIN exo
    BY <1>4, <2>4 DEF ExchangeMoves
  <2> QED
    BY <2>1, <2>2, <2>3, <2>4
<1>5. ASSUME NEW o \in Orders, ord'[o].enter.oid # 0
      PROVE  NowEntryOf(ord'[o].enter.oid, o)
  <2>1. EntryOf(ord'[o].enter.oid, o)
    BY <1>1, <1>5 DEF OrdersGoOn, EntriesKnown
  <2> QED
    BY <1>3, <2>1 DEF EntryOf
<1>6. ASSUME NEW g \in Threads, run'[g].at \in {"entered", "canceled"}
      PROVE  run'[g].res.st = "err" \/ NowEntryOf(run'[g].res.ex, run'[g].od)
  <2>1. CASE run'[g] = run[g]
    <3>1. run[g].res.st = "err" \/ EntryOf(run[g].res.ex, run[g].od)
      BY <1>1, <1>6, <2>1 DEF EntriesKnown
    <3> QED
      BY <1>3, <2>1, <3>1 DEF EntryOf
  <2> QED
    BY <1>6, <2>1 DEF CallsKnown
<1>7. EntriesKnown'
  BY <1>4, <1>5, <1>6 DEF EntriesKnown, EntryOf, NowEntryOf
<1>8. ASSUME NEW o \in Orders
      PROVE  NowNotAhead(o, ord'[o].enter)
  <2>1. ord'[o].enter \in SubOrder
    BY <1>1 DEF TypeOK, InOutOrder
  <2> QED
    BY <1>1, <2>1, NotAheadStep DEF OrdersGoOn
<1>9. (\A o \in Orders : NotAhead(o, ord[o].enter))'
  BY <1>8 DEF NotAhead, NowNotAhead, EntryOf, NowEntryOf, Heard, NowHeard
<1> QED
  BY <1>2, <1>7, <1>9 DEF FillsInv, NeverShrinks, OrdersGoOn

(* What a step does to the entry of an order. *)

LEMMA SameGoesOn ==
  ASSUME IInv, FillsInv, NEW o \in Orders, NEW e \in SubOrder,
         e.filled = ord[o].enter.filled, e.upd = ord[o].enter.upd
  PROVE  NotAhead(o, e) /\ ord[o].enter.filled <= e.filled
BY Kinds DEF IInv, FillsInv, NotAhead

LEMMA ReportGoesOn ==
  ASSUME IInv, FillsInv, NEW o \in Orders, NEW r \in Heard, EntryOf(r.ex, o),
         NEW e \in SubOrder, ord[o].enter.upd <= r.at,
         e.upd = r.at, e.filled \in {ord[o].enter.filled, r.filled}
  PROVE  NotAhead(o, e) /\ ord[o].enter.filled <= e.filled /\ ord[o].enter.filled <= r.filled
<1>1. TypeOK /\ ReportsAgree /\ EntriesKnown /\ NotAhead(o, ord[o].enter)
  BY DEF IInv, FillsInv
<1>2. r.ex \in DOMAIN exo /\ r.ex # 0 /\ r.filled \in 0 .. Amount /\ ord[o].enter.filled \in 0 .. Amount
  BY <1>1, Kinds DEF EntryOf
<1>3. ord[o].enter.filled <= r.filled
  BY <1>1, <1>2 DEF NotAhead
<1>4. ASSUME NEW x \in DOMAIN exo, EntryOf(x, o) PROVE x = r.ex
  BY <1>1, <1>2, <1>4 DEF EntriesKnown, EntryOf
<1>5. r.filled <= exo[r.ex].filled /\ exo[r.ex].filled \in 0 .. Amount
  BY <1>1, <1>2, Kinds DEF ReportsAgree
<1>6. e.filled <= r.filled /\ e.filled \in 0 .. Amount /\ ord[o].enter.filled <= e.filled
  BY <1>2, <1>3
<1>7. \A s \in Heard : s.ex = r.ex /\ r.at <= s.at => e.filled <= s.filled
  <2> SUFFICES ASSUME NEW s \in Heard, s.ex = r.ex, r.at <= s.at PROVE e.filled <= s.filled
    OBVIOUS
  <2>1. r.filled <= s.filled /\ s.filled \in 0 .. Amount
    BY <1>1, <1>2, Kinds DEF ReportsAgree
  <2> QED
    BY <1>2, <1>6, <2>1
<1>8. e.filled <= exo[r.ex].filled
  BY <1>2, <1>5, <1>6
<1> QED
  BY <1>2, <1>3, <1>4, <1>6, <1>7, <1>8 DEF NotAhead

LEMMA AnsweredGoesOn ==
  ASSUME IInv, FillsInv, NEW o \in Orders, NEW r \in Heard, EntryOf(r.ex, o)
  PROVE  LET e == Answered(ord[o].enter, r) IN
         NotAhead(o, e) /\ ord[o].enter.filled <= e.filled /\ e.oid = r.ex
<1> DEFINE sub == ord[o].enter
           e == Answered(sub, r)
<1>1. sub \in SubOrder /\ r \in Report /\ sub.upd \in Nat /\ r.at \in Nat
  BY Kinds DEF IInv
<1>2. e \in SubOrder
  BY <1>1, AnsweredType
<1>3. CASE sub.upd > r.at
  <2>1. e.filled = sub.filled /\ e.upd = sub.upd /\ e.oid = r.ex
    BY <1>1, <1>3 DEF Answered, SubOrder
  <2> HIDE DEF e
  <2> QED
    BY <1>2, <2>1, SameGoesOn DEF e
<1>4. CASE ~ (sub.upd > r.at)
  <2>1. e.filled \in {sub.filled, r.filled} /\ e.upd = r.at /\ e.oid = r.ex
    BY <1>1, <1>4 DEF Answered, SubOrder
  <2>2. sub.upd <= r.at
    BY <1>1, <1>4
  <2> HIDE DEF e
  <2> QED
    BY <1>2, <2>1, <2>2, ReportGoesOn DEF e
<1> QED
  BY <1>3, <1>4

LEMMA TradedGoesOn ==
  ASSUME IInv, FillsInv, NEW o \in Orders, NEW r \in Heard, EntryOf(r.ex, o)
  PROVE  LET e == EnterTraded(ord[o], r).enter IN
         NotAhead(o, e) /\ ord[o].enter.filled <= e.filled /\ e.oid = ord[o].enter.oid
<1> DEFINE sub == ord[o].enter
           e == EnterTraded(ord[o], r).enter
<1>1. /\ sub \in SubOrder /\ r \in Report /\ sub.upd \in Nat /\ r.at \in Nat
      /\ ord[o] \in InOutOrder
  BY Kinds DEF IInv
<1>2. e \in SubOrder
  BY <1>1, EnterTradedType DEF InOutOrder
<1>3. CASE Skipped(sub, r)
  <2>1. e = sub
    BY <1>3 DEF EnterTraded
  <2> HIDE DEF e
  <2> QED
    BY <1>2, <2>1, SameGoesOn DEF e
<1>4. CASE ~ Skipped(sub, r)
  <2>1. e = Traded(sub, r)
    BY <1>1, <1>4 DEF EnterTraded, InOutOrder
  <2>2. e.filled \in {sub.filled, r.filled} /\ e.upd = r.at /\ e.oid = sub.oid
    BY <1>1, <2>1 DEF Traded, SubOrder
  <2>3. sub.upd <= r.at
    BY <1>1, <1>4 DEF Skipped
  <2> HIDE DEF e
  <2> QED
    BY <1>2, <2>2, <2>3, ReportGoesOn DEF e
<1> QED
  BY <1>3, <1>4

LEMMA OneGoesOn ==
  ASSUME IInv, FillsInv, NEW o \in Orders, NEW od, ord' = [ord EXCEPT ![o] = od],
         NotAhead(o, od.enter), ord[o].enter.filled <= od.enter.filled,
         od.enter.oid \in {0, ord[o].enter.oid} \/ EntryOf(od.enter.oid, o)
  PROVE  OrdersGoOn
<1>1. ord'[o] = od /\ \A p \in Orders \ {o} : ord'[p] = ord[p]
  BY DEF IInv, TypeOK
<1>2. ASSUME NEW p \in Orders \ {o}
      PROVE  NotAhead(p, ord'[p].enter) /\ ord[p].enter.filled <= ord'[p].enter.filled
  BY <1>1, Kinds, SameGoesOn DEF IInv
<1> QED
  BY <1>1, <1>2 DEF OrdersGoOn

LEMMA SameEntriesGoOn ==
  ASSUME IInv, FillsInv, \A o \in Orders : ord'[o].enter = ord[o].enter
  PROVE  OrdersGoOn
BY Kinds, SameGoesOn DEF IInv, OrdersGoOn

LEMMA SameEntryGoesOn ==
  ASSUME IInv, FillsInv, NEW o, NEW od, ord' = [ord EXCEPT ![o] = od], od.enter = ord[o].enter
  PROVE  OrdersGoOn
<1>1. \A p \in Orders : ord'[p].enter = ord[p].enter
  BY DEF IInv, TypeOK
<1> QED
  BY <1>1, SameEntriesGoOn

\* Nothing new is heard of the exchange.
LEMMA QuietMoves ==
  ASSUME IInv, DOMAIN exo' = DOMAIN exo, Len(exo') = Len(exo),
         \A x \in DOMAIN exo : /\ exo'[x].od = exo[x].od /\ exo'[x].kind = exo[x].kind
                               /\ exo'[x].filled = exo[x].filled,
         net' \subseteq net, clock' = clock,
         \A h \in Threads : run'[h].res \in Heard \/ (run'[h].res.ex = 0 /\ run'[h].res.at = 0)
  PROVE  ExchangeMoves
<1>1. \A r \in NowHeard : r \in Heard \/ (r.ex = 0 /\ r.at = 0)
  BY DEF Heard, NowHeard
<1>2. clock <= clock' /\ Len(exo) <= Len(exo') /\ Len(exo') <= Len(exo) + 1
  BY Kinds DEF IInv
<1>3. \A x \in DOMAIN exo : exo[x].filled <= exo'[x].filled
  BY Kinds DEF IInv
<1> QED
  BY <1>1, <1>2, <1>3 DEF ExchangeMoves

LEMMA GoCalls ==
  ASSUME IInv, NEW g \in Threads, NEW step \in Steps \ {"entered", "canceled"}, Go(g, step)
  PROVE  CallsKnown /\ \A h \in Threads : run'[h].res \in Heard
<1>1. run'[g].at = step /\ run'[g].res = run[g].res /\ \A h \in Threads \ {g} : run'[h] = run[h]
  BY DEF IInv, TypeOK, Go, Work
<1> QED
  BY <1>1, Kinds DEF IInv, CallsKnown

\* A handler's step without a call.
LEMMA GoFills ==
  ASSUME IInv, IInv', FillsInv, OrdersGoOn, NEW g \in Threads,
         NEW step \in Steps \ {"entered", "canceled"}, Go(g, step), UNCHANGED exchange
  PROVE  FillsInv' /\ NeverShrinks
<1>1. exo' = exo /\ net' = net /\ clock' = clock
  BY DEF exchange
<1>2. ExchangeMoves
  BY <1>1, GoCalls, QuietMoves
<1> QED
  BY <1>2, GoCalls, FillsStep

\* A stop order that is cancelled, or not.
LEMMA StopFills ==
  ASSUME IInv, IInv', FillsInv, OrdersGoOn, NEW g \in Threads,
         NEW step \in Steps \ {"entered", "canceled"}, Go(g, step),
         NEW x, StopCancelled(x), UNCHANGED <<net, clock>>
  PROVE  FillsInv' /\ NeverShrinks
<1>1. exo' = exo \/ exo' = [exo EXCEPT ![x].st = "canceled"]
  BY DEF StopCancelled
<1>2. exo \in Seq(ExgOrder) /\ exo' \in Seq(ExgOrder)
  BY DEF IInv, TypeOK
<1>3. /\ DOMAIN exo' = DOMAIN exo /\ Len(exo') = Len(exo)
      /\ \A y \in DOMAIN exo : /\ exo'[y].od = exo[y].od /\ exo'[y].kind = exo[y].kind
                               /\ exo'[y].filled = exo[y].filled
  <2>1. CASE exo' = exo
    BY <2>1
  <2>2. CASE exo' = [exo EXCEPT ![x].st = "canceled"]
    <3>1. DOMAIN exo' = DOMAIN exo /\ Len(exo') = Len(exo)
      BY <1>2, <2>2
    <3>2. \A y \in DOMAIN exo : exo[y] \in ExgOrder /\ (exo'[y] = exo[y] \/ exo'[y] = [exo[y] EXCEPT !.st = "canceled"])
      BY <1>2, <2>2
    <3> QED
      BY <3>1, <3>2 DEF ExgOrder
  <2> QED
    BY <1>1, <2>1, <2>2
<1>4. ExchangeMoves
  BY <1>3, GoCalls, QuietMoves
<1> QED
  BY <1>4, GoCalls, FillsStep

LEMMA CreateOrderMoves ==
  ASSUME IInv, IInv', NEW g \in Threads, NEW o \in Orders, NEW kind \in {"enter", "exit", "stop"},
         NEW amt \in 0 .. Amount, NEW next, CreateOrder(g, o, kind, amt, next),
         kind = "enter" => \A x \in DOMAIN exo : exo[x].od # o,
         next \in {"entered", "canceled"} => kind = "enter"
  PROVE  ExchangeMoves /\ CallsKnown
<1> DEFINE E(f) == [od |-> o, kind |-> kind, amt |-> amt, filled |-> f,
                    st |-> IF f = amt THEN "filled" ELSE "live"]
           R(f) == ReportOf(Len(exo) + 1, E(f))
<1>0. TypeOK /\ TypeOK'
  BY DEF IInv
<1>1. CASE \E f \in 0 .. amt :
             /\ exo' = Append(exo, E(f))
             /\ clock' = clock + 1
             /\ net' = IF f > 0 THEN net \cup {R(f)} ELSE net
             /\ run' = [run EXCEPT ![g] = [at |-> next, od |-> o, res |-> R(f)]]
  <2>1. PICK f \in 0 .. amt :
             /\ exo' = Append(exo, E(f))
             /\ clock' = clock + 1
             /\ net' = IF f > 0 THEN net \cup {R(f)} ELSE net
             /\ run' = [run EXCEPT ![g] = [at |-> next, od |-> o, res |-> R(f)]]
    BY <1>1
  <2>2. E(f).od = o /\ E(f).kind = kind /\ E(f).filled = f
    OBVIOUS
  <2>3. R(f).ex = Len(exo) + 1 /\ R(f).at = clock + 1 /\ R(f).filled = f
    BY DEF ReportOf
  <2> HIDE DEF E, R
  <2>4. /\ Len(exo') = Len(exo) + 1 /\ DOMAIN exo' = DOMAIN exo \cup {Len(exo) + 1}
        /\ \A x \in DOMAIN exo : exo'[x] = exo[x]
        /\ exo'[Len(exo) + 1] = E(f)
    BY <1>0, <2>1 DEF TypeOK
  <2>5. run'[g] = [at |-> next, od |-> o, res |-> R(f)] /\ \A h \in Threads \ {g} : run'[h] = run[h]
    BY <1>0, <2>1 DEF TypeOK
  <2>6. \A r \in NowHeard : r \in Heard \/ r = R(f)
    BY <2>1, <2>5 DEF Heard, NowHeard
  <2>7. ExchangeMoves
    <3>1. clock <= clock' /\ Len(exo) <= Len(exo') /\ Len(exo') <= Len(exo) + 1
      BY <1>0, <2>1, <2>4, Kinds
    <3>2. \A x \in DOMAIN exo : /\ exo'[x].od = exo[x].od /\ exo'[x].kind = exo[x].kind
                                /\ exo[x].filled <= exo'[x].filled
      BY <1>0, <2>4, Kinds
    <3>3. \A x \in DOMAIN exo' \ DOMAIN exo : exo'[x].kind = "enter" =>
            \A y \in DOMAIN exo : exo[y].od # exo'[x].od
      BY <2>2, <2>4
    <3>4. R(f).at = clock' /\ clock' = clock + 1 /\ R(f).ex \in DOMAIN exo' /\ R(f).filled = exo'[R(f).ex].filled
      BY <2>1, <2>2, <2>3, <2>4
    <3> QED
      BY <2>6, <3>1, <3>2, <3>3, <3>4 DEF ExchangeMoves
  <2>8. CallsKnown
    BY <2>2, <2>3, <2>4, <2>5 DEF CallsKnown, NowEntryOf
  <2> QED
    BY <2>7, <2>8
<1>2. CASE \E code \in {"err", "reduceOnly", "immediate"} :
             /\ code = "reduceOnly" => kind = "exit"
             /\ code = "immediate" => kind = "stop"
             /\ run' = [run EXCEPT ![g] = [at |-> next, od |-> o, res |-> Failed(code)]]
             /\ UNCHANGED exchange
  <2>1. PICK code \in {"err", "reduceOnly", "immediate"} :
             /\ code = "reduceOnly" => kind = "exit"
             /\ code = "immediate" => kind = "stop"
             /\ run' = [run EXCEPT ![g] = [at |-> next, od |-> o, res |-> Failed(code)]]
             /\ UNCHANGED exchange
    BY <1>2
  <2>2. Failed(code).ex = 0 /\ Failed(code).at = 0 /\ Failed(code).st = code
    BY DEF Failed
  <2>3. run'[g] = [at |-> next, od |-> o, res |-> Failed(code)] /\ \A h \in Threads \ {g} : run'[h] = run[h]
    BY <1>0, <2>1 DEF TypeOK
  <2>4. \A h \in Threads : run'[h].res \in Heard \/ (run'[h].res.ex = 0 /\ run'[h].res.at = 0)
    BY <1>0, <2>2, <2>3, Kinds
  <2>5. ExchangeMoves
    BY <2>1, <2>4, QuietMoves DEF exchange
  <2>6. CallsKnown
    BY <2>1, <2>2, <2>3 DEF CallsKnown
  <2> QED
    BY <2>5, <2>6
<1> QED
  BY <1>1, <1>2 DEF CreateOrder

\* The exchange, or a cancel, gives order x another state; r tells of it.
LEMMA ReplacedMoves ==
  ASSUME IInv, IInv', NEW x \in DOMAIN exo, NEW e \in ExgOrder,
         e.od = exo[x].od, e.kind = exo[x].kind, exo[x].filled <= e.filled,
         exo' = [exo EXCEPT ![x] = e], clock' = clock + 1,
         \A r \in NowHeard : r \in Heard \/ r = ReportOf(x, e)
  PROVE  ExchangeMoves
<1>0. TypeOK
  BY DEF IInv
<1>1. /\ Len(exo') = Len(exo) /\ DOMAIN exo' = DOMAIN exo /\ exo'[x] = e
      /\ \A y \in DOMAIN exo \ {x} : exo'[y] = exo[y]
  BY <1>0 DEF TypeOK
<1>2. \A y \in DOMAIN exo : /\ exo'[y].od = exo[y].od /\ exo'[y].kind = exo[y].kind
                            /\ exo[y].filled <= exo'[y].filled
  BY <1>0, <1>1, Kinds
<1>3. ReportOf(x, e).ex = x /\ ReportOf(x, e).at = clock' /\ ReportOf(x, e).filled = exo'[x].filled
  BY <1>1 DEF ReportOf
<1>4. clock <= clock' /\ Len(exo) <= Len(exo') /\ Len(exo') <= Len(exo) + 1
  BY <1>0, <1>1, Kinds
<1> QED
  BY <1>1, <1>2, <1>3, <1>4 DEF ExchangeMoves

LEMMA CancelEnterMoves ==
  ASSUME IInv, IInv', NEW g \in Threads, NEW o \in Orders, NEW x, CancelEnter(g, o, x),
         x # 0 => EntryOf(x, o)
  PROVE  ExchangeMoves /\ CallsKnown
<1> DEFINE e == [exo[x] EXCEPT !.st = "canceled"]
           r == ReportOf(x, e)
<1>0. TypeOK
  BY DEF IInv
<1>1. CASE /\ Cancellable(x)
           /\ exo' = [exo EXCEPT ![x] = e]
           /\ clock' = clock + 1
           /\ net' = net \cup {r}
           /\ run' = [run EXCEPT ![g] = [at |-> "canceled", od |-> o, res |-> r]]
  <2>1. x \in DOMAIN exo /\ EntryOf(x, o) /\ exo[x] \in ExgOrder /\ exo[x].filled \in 0 .. Amount
    BY <1>0, <1>1, Kinds DEF Cancellable, EntryOf
  <2>2. e \in ExgOrder /\ e.od = exo[x].od /\ e.kind = exo[x].kind /\ exo[x].filled <= e.filled
    BY <2>1 DEF ExgOrder
  <2>3. r.ex = x
    BY DEF ReportOf
  <2> HIDE DEF e, r
  <2>4. run'[g] = [at |-> "canceled", od |-> o, res |-> r] /\ \A h \in Threads \ {g} : run'[h] = run[h]
    BY <1>0, <1>1 DEF TypeOK
  <2>5. \A s \in NowHeard : s \in Heard \/ s = r
    BY <1>1, <2>4 DEF Heard, NowHeard
  <2>6. ExchangeMoves
    BY <1>1, <2>1, <2>2, <2>5, ReplacedMoves DEF r
  <2>7. NowEntryOf(x, o)
    <3>1. DOMAIN exo' = DOMAIN exo
      BY <1>0, <1>1 DEF TypeOK
    <3> QED
      BY <2>1, <2>6, <3>1 DEF ExchangeMoves, EntryOf, NowEntryOf
  <2>8. CallsKnown
    BY <2>3, <2>4, <2>7 DEF CallsKnown
  <2> QED
    BY <2>6, <2>8
<1>2. CASE /\ run' = [run EXCEPT ![g] = [at |-> "canceled", od |-> o, res |-> Failed("err")]]
           /\ UNCHANGED exchange
  <2>1. Failed("err").ex = 0 /\ Failed("err").at = 0 /\ Failed("err").st = "err"
    BY DEF Failed
  <2>2. run'[g] = [at |-> "canceled", od |-> o, res |-> Failed("err")] /\ \A h \in Threads \ {g} : run'[h] = run[h]
    BY <1>0, <1>2 DEF TypeOK
  <2>3. \A h \in Threads : run'[h].res \in Heard \/ (run'[h].res.ex = 0 /\ run'[h].res.at = 0)
    BY <1>0, <2>1, <2>2, Kinds
  <2>4. ExchangeMoves
    BY <1>2, <2>3, QuietMoves DEF exchange
  <2>5. CallsKnown
    BY <2>1, <2>2 DEF CallsKnown
  <2> QED
    BY <2>4, <2>5
<1> QED
  BY <1>1, <1>2 DEF CancelEnter

(* The steps of the handlers *)

LEMMA LocalExitEntry ==
  ASSUME NEW od \in InOutOrder, NEW now \in Nat
  PROVE  LET e == LocalExit(od, now).enter IN
         /\ e \in SubOrder /\ e.oid = od.enter.oid
         /\ e.filled = od.enter.filled /\ e.upd = od.enter.upd
<1>1. SetExit(od, now) \in InOutOrder /\ SetExit(od, now).enter = od.enter
  BY SetExitType, SetExitKeeps
<1>2. ASSUME NEW s \in InOutOrder, NEW f
      PROVE  LET t == [s EXCEPT !.status = "FullExit", !.enter.st = "Closed",
                                !.exit.st = "Closed", !.exit.filled = f]
             IN t.enter = [s.enter EXCEPT !.st = "Closed"]
  BY DEF InOutOrder
<1>3. LocalExit(od, now).enter = [od.enter EXCEPT !.st = "Closed"]
  BY <1>1, <1>2 DEF LocalExit
<1>4. od.enter \in SubOrder
  BY DEF InOutOrder
<1> QED
  BY <1>3, <1>4 DEF SubOrder

LEMMA EnterSubmittedFills ==
  ASSUME IInv, IInv', FillsInv, NEW g \in Threads, EnterSubmitted(g)
  PROVE  FillsInv' /\ NeverShrinks
<1> DEFINE o == run[g].od
           r == run[g].res
<1>1. run[g].at = "entered" /\ UNCHANGED exchange
  BY DEF EnterSubmitted
<1>2. o \in Orders /\ r \in Heard /\ r \in Report /\ ord[o] \in InOutOrder /\ clock \in Nat
  BY <1>1, HandlerHolds, Kinds DEF IInv
<1>3. CASE r.st = "err"
  <2>1. ord' = [ord EXCEPT ![o] = LocalExit(ord[o], clock)] /\ Go(g, "save")
    BY <1>3 DEF EnterSubmitted, Become
  <2>2. LET e == LocalExit(ord[o], clock).enter IN
        NotAhead(o, e) /\ ord[o].enter.filled <= e.filled /\ e.oid = ord[o].enter.oid
    BY <1>2, LocalExitEntry, SameGoesOn
  <2> HIDE DEF o, r
  <2>3. OrdersGoOn
    BY <1>2, <2>1, <2>2, OneGoesOn
  <2> QED
    BY <1>1, <2>1, <2>3, GoFills DEF Steps
<1>4. CASE r.st # "err"
  <2>1. ord' = [ord EXCEPT ![o] = EnterAnswered(ord[o], r)]
    BY <1>4 DEF EnterSubmitted, Become
  <2>2. \E step \in {"stop", "save"} : Go(g, step)
    BY <1>4 DEF EnterSubmitted
  <2>3. EntryOf(r.ex, o)
    BY <1>1, <1>4 DEF FillsInv, EntriesKnown
  <2>4. EnterAnswered(ord[o], r).enter = Answered(ord[o].enter, r)
    BY <1>2 DEF EnterAnswered, InOutOrder
  <2>5. LET e == Answered(ord[o].enter, r) IN
        NotAhead(o, e) /\ ord[o].enter.filled <= e.filled /\ e.oid = r.ex
    BY <1>2, <2>3, AnsweredGoesOn
  <2> HIDE DEF o, r
  <2>6. OrdersGoOn
    BY <1>2, <2>1, <2>3, <2>4, <2>5, OneGoesOn, ZenonT(40)
  <2> QED
    BY <1>1, <2>2, <2>6, GoFills DEF Steps
<1> QED
  BY <1>3, <1>4

LEMMA EnterCancelledFills ==
  ASSUME IInv, IInv', FillsInv, NEW g \in Threads, EnterCancelled(g)
  PROVE  FillsInv' /\ NeverShrinks
<1> DEFINE o == run[g].od
           r == run[g].res
           done == r.st = "canceled"
           od == IF done THEN EnterAnswered(ord[o], r) ELSE ord[o]
           closed == [SetExit([od EXCEPT !.enter.st = "Closed"], clock)
                        EXCEPT !.status = "FullExit", !.exit.st = "Closed"]
           last == IF od.enter.filled = 0 THEN closed ELSE [od EXCEPT !.enter.st = "Closed"]
<1>1. run[g].at = "canceled" /\ UNCHANGED exchange
  BY ZenonT(40) DEF EnterCancelled
<1>2. o \in Orders /\ r \in Heard /\ r \in Report /\ ord[o] \in InOutOrder /\ clock \in Nat
  BY <1>1, HandlerHolds, Kinds, SMTT(40) DEF IInv
<1>3. ord' = [ord EXCEPT ![o] = last]
  BY ZenonT(40) DEF EnterCancelled, Become
<1>4. \E step \in {"cleanup", "exit"} : Go(g, step)
  BY DEF EnterCancelled
<1>5. done => EntryOf(r.ex, o)
  BY <1>1 DEF FillsInv, EntriesKnown
<1>6. od \in InOutOrder
  BY <1>2, EnterAnsweredType
<1>7. /\ NotAhead(o, od.enter) /\ ord[o].enter.filled <= od.enter.filled
      /\ od.enter.oid = ord[o].enter.oid \/ EntryOf(od.enter.oid, o)
  <2>1. CASE done
    <3>1. od.enter = Answered(ord[o].enter, r)
      BY <1>2, <2>1 DEF EnterAnswered, InOutOrder
    <3>2. LET e == Answered(ord[o].enter, r) IN
          NotAhead(o, e) /\ ord[o].enter.filled <= e.filled /\ e.oid = r.ex
      BY <1>2, <1>5, <2>1, AnsweredGoesOn
    <3> HIDE DEF od, o, r, done
    <3> QED
      BY <1>5, <2>1, <3>1, <3>2
  <2>2. CASE ~ done
    <3>1. od = ord[o]
      BY <2>2
    <3> HIDE DEF od, o, r, done
    <3> QED
      BY <1>2, <3>1, SameGoesOn, Kinds DEF IInv
  <2> QED
    BY <2>1, <2>2
<1> HIDE DEF od
<1>8. last.enter = [od.enter EXCEPT !.st = "Closed"]
  <2>1. [od EXCEPT !.enter.st = "Closed"] \in InOutOrder
    BY <1>6 DEF InOutOrder, SubOrder
  <2>2. /\ SetExit([od EXCEPT !.enter.st = "Closed"], clock) \in InOutOrder
        /\ SetExit([od EXCEPT !.enter.st = "Closed"], clock).enter = [od EXCEPT !.enter.st = "Closed"].enter
    BY <1>2, <2>1, SetExitType, SetExitKeeps
  <2>3. [od EXCEPT !.enter.st = "Closed"].enter = [od.enter EXCEPT !.st = "Closed"]
    BY <1>6 DEF InOutOrder
  <2>4. ASSUME NEW s \in InOutOrder
        PROVE  [s EXCEPT !.status = "FullExit", !.exit.st = "Closed"].enter = s.enter
    BY DEF InOutOrder
  <2>5. closed.enter = [od.enter EXCEPT !.st = "Closed"]
    BY <2>2, <2>3, <2>4
  <2> QED
    BY <2>3, <2>5
<1>9. /\ last.enter.filled = od.enter.filled /\ last.enter.upd = od.enter.upd
      /\ last.enter.oid = od.enter.oid
  <2>1. od.enter \in SubOrder
    BY <1>6 DEF InOutOrder
  <2> HIDE DEF last
  <2> QED
    BY <1>8, <2>1 DEF SubOrder
<1> HIDE DEF last, o, r
<1>10. NotAhead(o, last.enter)
  BY <1>7, <1>9 DEF NotAhead
<1>11. OrdersGoOn
  BY <1>2, <1>3, <1>7, <1>9, <1>10, OneGoesOn
<1> QED
  BY <1>1, <1>4, <1>11, GoFills DEF Steps

\* Neither an exit nor a stop loss touches the entry.
LEMMA SubmitExitFills ==
  ASSUME IInv, IInv', FillsInv, NEW g \in Threads, SubmitExit(g)
  PROVE  FillsInv' /\ NeverShrinks
<1> DEFINE o == run[g].od
           amt == IF ord[o].exit.amt = 0 THEN ord[o].enter.filled ELSE ord[o].exit.amt
           od == [ord[o] EXCEPT !.exit.amt = amt, !.status = IF amt = 0 THEN "FullExit" ELSE @]
<1>1. run[g].at = "exit"
  BY DEF SubmitExit
<1>2. o \in Orders /\ ord[o] \in InOutOrder
  BY <1>1, HandlerHolds
<1>3. amt \in 0 .. Amount
  BY <1>2 DEF InOutOrder, SubOrder
<1>4. od.enter = ord[o].enter
  BY <1>2 DEF InOutOrder
<1>5. ord' = ord \/ ord' = [ord EXCEPT ![o] = od]
  BY DEF SubmitExit, Become
<1>6. \/ \E step \in {"save", "cleanup"} : Go(g, step) /\ UNCHANGED exchange
      \/ CreateOrder(g, o, "exit", amt, "exited")
  BY DEF SubmitExit
<1> HIDE DEF od, amt
<1>7. OrdersGoOn
  BY <1>4, <1>5, SameEntriesGoOn, SameEntryGoesOn
<1>8. CASE \E step \in {"save", "cleanup"} : Go(g, step) /\ UNCHANGED exchange
  BY <1>7, <1>8, GoFills DEF Steps
<1>9. CASE CreateOrder(g, o, "exit", amt, "exited")
  <2> HIDE DEF o
  <2>1. ExchangeMoves /\ CallsKnown
    BY <1>2, <1>3, <1>9, CreateOrderMoves
  <2> QED
    BY <1>7, <2>1, FillsStep
<1> QED
  BY <1>6, <1>8, <1>9

LEMMA ExitSubmittedFills ==
  ASSUME IInv, IInv', FillsInv, NEW g \in Threads, ExitSubmitted(g)
  PROVE  FillsInv' /\ NeverShrinks
<1> DEFINE o == run[g].od
           r == run[g].res
<1>1. run[g].at = "exited" /\ UNCHANGED exchange /\ \E step \in {"save", "cleanup"} : Go(g, step)
  BY DEF ExitSubmitted
<1>2. o \in Orders /\ r \in Report /\ ord[o] \in InOutOrder /\ clock \in Nat
  BY <1>1, HandlerHolds, Kinds DEF IInv
<1>3. PICK od \in {ord[o], LocalExit(ord[o], clock), ExitAnswered(ord[o], r)} : ord' = [ord EXCEPT ![o] = od]
  BY DEF ExitSubmitted, Become
<1>4. od.enter \in SubOrder /\ od.enter.oid = ord[o].enter.oid
        /\ od.enter.filled = ord[o].enter.filled /\ od.enter.upd = ord[o].enter.upd
  <2>1. CASE od = ord[o]
    BY <1>2, <2>1 DEF InOutOrder
  <2>2. CASE od = LocalExit(ord[o], clock)
    BY <1>2, <2>2, LocalExitEntry
  <2>3. CASE od = ExitAnswered(ord[o], r)
    BY <1>2, <2>3, ExitAnsweredEffect DEF InOutOrder
  <2> QED
    BY <1>3, <2>1, <2>2, <2>3
<1> HIDE DEF o, r
<1>5. NotAhead(o, od.enter) /\ ord[o].enter.filled <= od.enter.filled
  BY <1>2, <1>4, SameGoesOn
<1>6. OrdersGoOn
  BY <1>2, <1>3, <1>4, <1>5, OneGoesOn
<1> QED
  BY <1>1, <1>6, GoFills DEF Steps

LEMMA EditTriggerFills ==
  ASSUME IInv, IInv', FillsInv, NEW g \in Threads, EditTrigger(g)
  PROVE  FillsInv' /\ NeverShrinks
<1> DEFINE o == run[g].od
           od == [ord[o] EXCEPT !.stop.old = TRUE]
<1>1. run[g].at = "stop"
  BY DEF EditTrigger
<1>2. o \in Orders /\ ord[o] \in InOutOrder /\ ord[o].enter.amt \in 0 .. Amount /\ TypeOK
  BY <1>1, HandlerHolds DEF InOutOrder, SubOrder, IInv
<1>3. od.enter = ord[o].enter
  BY <1>2 DEF InOutOrder
<1>4. ord' = ord \/ ord' = [ord EXCEPT ![o].stop.old = TRUE]
  BY DEF EditTrigger
<1>5. ord' = ord \/ ord' = [ord EXCEPT ![o] = od]
  BY <1>2, <1>4 DEF TypeOK
<1>6. (Go(g, "save") /\ UNCHANGED exchange) \/ CreateOrder(g, o, "stop", ord[o].enter.amt, "stopped")
  BY DEF EditTrigger
<1> HIDE DEF od
<1>7. OrdersGoOn
  BY <1>3, <1>5, SameEntriesGoOn, SameEntryGoesOn
<1>8. CASE Go(g, "save") /\ UNCHANGED exchange
  BY <1>7, <1>8, GoFills DEF Steps
<1>9. CASE CreateOrder(g, o, "stop", ord[o].enter.amt, "stopped")
  <2> HIDE DEF o
  <2>1. ExchangeMoves /\ CallsKnown
    BY <1>2, <1>9, CreateOrderMoves
  <2> QED
    BY <1>7, <2>1, FillsStep
<1> QED
  BY <1>6, <1>8, <1>9

LEMMA TriggerPutFills ==
  ASSUME IInv, IInv', FillsInv, NEW g \in Threads, TriggerPut(g)
  PROVE  FillsInv' /\ NeverShrinks
<1> DEFINE o == run[g].od
           r == run[g].res
<1>1. run[g].at = "stopped" /\ UNCHANGED <<net, clock>>
  BY DEF TriggerPut
<1>2. o \in Orders /\ ord[o] \in InOutOrder /\ clock \in Nat /\ TypeOK /\ Now \subseteq Nat
  BY <1>1, HandlerHolds, Kinds DEF IInv, Now
<1>3. /\ ord' = ord \/ (\E now \in Now : ord' = [ord EXCEPT ![o] = SetExit(@, now)])
                     \/ ord' = [ord EXCEPT ![o].stop.oid = r.ex]
      /\ exo' = exo \/ StopCancelled(ord[o].stop.oid)
      /\ \E step \in {"exit", "save"} : Go(g, step)
  BY DEF TriggerPut
<1>4. \A p \in Orders : ord'[p].enter = ord[p].enter
  <2>1. CASE ord' = ord
    BY <2>1
  <2>2. CASE \E now \in Now : ord' = [ord EXCEPT ![o] = SetExit(@, now)]
    BY <1>2, <2>2, SetExitKeeps DEF TypeOK
  <2>3. CASE ord' = [ord EXCEPT ![o].stop.oid = r.ex]
    <3>1. [ord[o] EXCEPT !.stop.oid = r.ex].enter = ord[o].enter
      BY <1>2 DEF InOutOrder
    <3> HIDE DEF o, r
    <3> QED
      BY <1>2, <2>3, <3>1 DEF TypeOK
  <2> QED
    BY <1>3, <2>1, <2>2, <2>3
<1>5. OrdersGoOn
  BY <1>4, SameEntriesGoOn
<1>6. CASE exo' = exo
  BY <1>1, <1>3, <1>5, <1>6, GoFills DEF Steps, exchange
<1>7. CASE StopCancelled(ord[o].stop.oid)
  BY <1>1, <1>3, <1>5, <1>7, StopFills DEF Steps
<1> QED
  BY <1>3, <1>6, <1>7

LEMMA CancelTriggerOdsFills ==
  ASSUME IInv, IInv', FillsInv, NEW g \in Threads, CancelTriggerOds(g)
  PROVE  FillsInv' /\ NeverShrinks
<1> DEFINE o == run[g].od
<1>1. /\ run[g].at = "cleanup" /\ UNCHANGED <<net, clock>> /\ StopCancelled(ord[o].stop.oid)
      /\ Go(g, "save") /\ ord' = [ord EXCEPT ![o].stop.oid = 0]
  BY DEF CancelTriggerOds
<1>2. o \in Orders /\ ord[o] \in InOutOrder /\ TypeOK
  BY <1>1, HandlerHolds DEF IInv
<1>3. [ord[o] EXCEPT !.stop.oid = 0].enter = ord[o].enter
  BY <1>2 DEF InOutOrder
<1> HIDE DEF o
<1>4. \A p \in Orders : ord'[p].enter = ord[p].enter
  BY <1>1, <1>2, <1>3 DEF TypeOK
<1> QED
  BY <1>1, <1>4, SameEntriesGoOn, StopFills DEF Steps

LEMMA SaveUnlockFills ==
  ASSUME IInv, IInv', FillsInv, NEW g \in Threads, SaveUnlock(g)
  PROVE  FillsInv' /\ NeverShrinks
<1>1. ord' = ord /\ UNCHANGED exchange /\ run' = [run EXCEPT ![g] = Idle]
  BY DEF SaveUnlock
<1>2. Idle.res.ex = 0 /\ Idle.res.at = 0 /\ Idle.at = "idle"
  BY DEF Idle, Failed
<1>3. \A h \in Threads : run'[h] = run[h] \/ run'[h] = Idle
  BY <1>1 DEF IInv, TypeOK
<1>4. ExchangeMoves
  BY <1>1, <1>2, <1>3, Kinds, QuietMoves DEF IInv, exchange
<1>5. CallsKnown
  BY <1>2, <1>3 DEF CallsKnown
<1> QED
  BY <1>1, <1>4, <1>5, SameEntriesGoOn, FillsStep

(* The other steps *)

LEMMA StrategyFills ==
  ASSUME IInv, IInv', FillsInv, Strategy
  PROVE  FillsInv' /\ NeverShrinks
<1>0. TypeOK
  BY DEF IInv
<1>1. UNCHANGED exchange /\ run' = run
  BY DEF Strategy, EnterOrder, ExitOrder, PostOrderExit, SetStopLoss
<1>2. ExchangeMoves /\ CallsKnown
  BY <1>0, <1>1, Kinds, QuietMoves DEF exchange, CallsKnown
<1>3. ASSUME NEW o \in Orders, EnterOrder(o)
      PROVE  OrdersGoOn
  <2> DEFINE od == [NoOrder EXCEPT !.status = "Init", !.enter = NewSub(Amount, clock)]
  <2>1. ord' = [ord EXCEPT ![o] = od] /\ ord[o].status = "None"
    BY <1>3 DEF EnterOrder
  <2>2. od.enter = NewSub(Amount, clock)
    BY NoOrderType DEF InOutOrder
  <2>3. od.enter.filled = 0 /\ od.enter.oid = 0
    BY <2>2 DEF NewSub
  <2> HIDE DEF od
  <2>4. \A x \in DOMAIN exo : ~ EntryOf(x, o)
    BY <2>1 DEF IInv, OnlyOpened, Opened, EntryOf
  <2>5. NotAhead(o, od.enter) /\ ord[o].enter.filled = 0
    BY <2>3, <2>4 DEF NotAhead, FillsInv
  <2>6. ord[o].enter.filled <= od.enter.filled /\ od.enter.oid \in {0, ord[o].enter.oid}
    BY <2>3, <2>5
  <2>7. ord' = [ord EXCEPT ![o] = od] /\ NotAhead(o, od.enter)
    BY <2>1, <2>5
  <2> QED
    BY <2>6, <2>7, OneGoesOn
<1>4. ASSUME NEW o \in Orders, ExitOrder(o)
      PROVE  OrdersGoOn
  BY <1>4, SameEntriesGoOn DEF ExitOrder
<1>5. ASSUME NEW o \in Orders, PostOrderExit(o)
      PROVE  OrdersGoOn
  <2>1. PICK now \in Now : ord' = [ord EXCEPT ![o] = SetExit(@, now)]
    BY <1>5 DEF PostOrderExit
  <2>2. now \in Nat /\ ord[o] \in InOutOrder
    BY <1>0, Kinds DEF Now
  <2>3. \A p \in Orders : ord'[p].enter = ord[p].enter
    BY <1>0, <2>1, <2>2, SetExitKeeps DEF TypeOK
  <2> QED
    BY <2>3, SameEntriesGoOn
<1>6. ASSUME NEW o \in Orders, SetStopLoss(o)
      PROVE  OrdersGoOn
  <2>1. ord' = [ord EXCEPT ![o].stop.old = FALSE, ![o].stop.edits = @ + 1] /\ ord[o] \in InOutOrder
    BY <1>0, <1>6, Kinds DEF SetStopLoss
  <2> DEFINE od == [ord[o] EXCEPT !.stop.old = FALSE, !.stop.edits = @ + 1]
  <2>2. ord' = [ord EXCEPT ![o] = od]
    BY <1>0, <2>1 DEF TypeOK
  <2>3. od.enter = ord[o].enter
    BY <2>1 DEF InOutOrder
  <2> HIDE DEF od
  <2> QED
    BY <2>2, <2>3, SameEntryGoesOn
<1> QED
  BY <1>2, <1>3, <1>4, <1>5, <1>6, FillsStep DEF Strategy

LEMMA HandleOrderQueueFills ==
  ASSUME IInv, IInv', FillsInv, HandleOrderQueue
  PROVE  FillsInv' /\ NeverShrinks
<1> DEFINE o == Head(queue).od
           act == Head(queue).act
<1>1. ord' = ord /\ queue # <<>> /\ queue' = Tail(queue) /\ TypeOK /\ "queue" \in Threads
  BY DEF HandleOrderQueue, IInv, Threads
<1>2. 1 \in DOMAIN queue /\ queue[1] = Head(queue) /\ o \in Orders /\ act \in {"Enter", "Exit", "StopLoss"}
  BY <1>1, Dequeued, OrdersNamed DEF OdQItem
<1>3. OrdersGoOn
  BY <1>1, SameEntriesGoOn
<1>4. \/ act = "Enter" /\ CreateOrder("queue", o, "enter", ord[o].enter.amt, "entered")
      \/ CancelEnter("queue", o, ord[o].enter.oid)
      \/ \E step \in {"save", "exit", "stop"} :
           run' = [run EXCEPT !["queue"].at = step, !["queue"].od = o] /\ UNCHANGED exchange
  BY <1>2 DEF HandleOrderQueue
<1>5. CASE act = "Enter" /\ CreateOrder("queue", o, "enter", ord[o].enter.amt, "entered")
  <2>1. ord[o].enter.amt \in 0 .. Amount
    BY <1>1, <1>2, Kinds DEF SubOrder
  <2>2. \A x \in DOMAIN exo : exo[x].od # o
    BY <1>2, <1>5 DEF IInv, EnterOnce
  <2> HIDE DEF o, act
  <2>3. ExchangeMoves /\ CallsKnown
    BY <1>1, <1>2, <1>5, <2>1, <2>2, CreateOrderMoves
  <2> QED
    BY <1>3, <2>3, FillsStep
<1>6. CASE CancelEnter("queue", o, ord[o].enter.oid)
  <2>1. ord[o].enter.oid # 0 => EntryOf(ord[o].enter.oid, o)
    BY <1>2 DEF FillsInv, EntriesKnown
  <2> HIDE DEF o, act
  <2>2. ExchangeMoves /\ CallsKnown
    BY <1>1, <1>2, <1>6, <2>1, CancelEnterMoves
  <2> QED
    BY <1>3, <2>2, FillsStep
<1>7. CASE \E step \in {"save", "exit", "stop"} :
             run' = [run EXCEPT !["queue"].at = step, !["queue"].od = o] /\ UNCHANGED exchange
  <2> HIDE DEF o, act
  <2>1. PICK step \in {"save", "exit", "stop"} :
             run' = [run EXCEPT !["queue"].at = step, !["queue"].od = o] /\ UNCHANGED exchange
    BY <1>7
  <2>2. /\ run'["queue"].at = step /\ run'["queue"].res = run["queue"].res
        /\ \A h \in Threads \ {"queue"} : run'[h] = run[h]
    BY <1>1, <2>1 DEF TypeOK, Work
  <2>3. CallsKnown
    BY <2>2 DEF CallsKnown
  <2>4. ExchangeMoves
    BY <1>1, <2>1, <2>2, Kinds, QuietMoves DEF exchange
  <2> QED
    BY <1>3, <2>3, <2>4, FillsStep
<1> QED
  BY <1>4, <1>5, <1>6, <1>7

LEMMA HandleMyTradeFills ==
  ASSUME IInv, IInv', FillsInv, NEW t \in net, HandleMyTrade(t)
  PROVE  FillsInv' /\ NeverShrinks
<1>1. ord' = ord /\ exo' = exo /\ clock' = clock /\ net' \subseteq net /\ "trade" \in Threads
  BY DEF HandleMyTrade, Threads
<1>2. run' = run \/ \E o : run' = [run EXCEPT !["trade"] = [at |-> "wait", od |-> o, res |-> t]]
  BY DEF HandleMyTrade
<1>3. \A h \in Threads : run'[h] = run[h] \/ (run'[h].at = "wait" /\ run'[h].res = t)
  BY <1>2 DEF IInv, TypeOK
<1>4. t \in Heard
  BY DEF Heard
<1>5. ExchangeMoves
  BY <1>1, <1>3, <1>4, Kinds, QuietMoves DEF IInv
<1>6. CallsKnown
  BY <1>3 DEF CallsKnown
<1> QED
  BY <1>1, <1>5, <1>6, SameEntriesGoOn, FillsStep

LEMMA UpdateByMyTradeFills ==
  ASSUME IInv, IInv', FillsInv, UpdateByMyTrade
  PROVE  FillsInv' /\ NeverShrinks
<1> DEFINE o == run["trade"].od
           t == run["trade"].res
<1>1. PICK now \in Now :
        LET od == ByMyTrade(ord[o], exo[t.ex].kind, t, now)
            closes == od.status = "FullExit" /\ od # ord[o]
            last == IF closes THEN StopSpent(od, t) ELSE od
        IN /\ run["trade"].at = "wait" /\ UNCHANGED exchange
           /\ ord' = [ord EXCEPT ![o] = last]
           /\ \E step \in {"cleanup", "stop", "save"} : Go("trade", step)
  BY ZenonT(40) DEF UpdateByMyTrade
<1> DEFINE kind == exo[t.ex].kind
           od == ByMyTrade(ord[o], kind, t, now)
<1>2. /\ "trade" \in Threads /\ TypeOK /\ o \in Orders /\ t \in Heard /\ t \in Report
      /\ ord[o] \in InOutOrder /\ now \in Nat
  <2>1. "trade" \in Threads /\ TypeOK
    BY DEF IInv, Threads
  <2> QED
    BY <2>1, Kinds, OrdersNamed DEF Now
<1>3. kind = "enter" => EntryOf(t.ex, o)
  BY <1>1, <1>2 DEF IInv, IdsNameOrders, EntryOf
<1>4. od \in InOutOrder
  BY <1>2, ByMyTradeType, SMTT(40)
<1>5. NotAhead(o, od.enter) /\ ord[o].enter.filled <= od.enter.filled /\ od.enter.oid = ord[o].enter.oid
  <2>1. CASE kind = "enter"
    <3>1. od.enter = EnterTraded(ord[o], t).enter
      BY <1>2, <2>1, ByMyTradeEffect
    <3> HIDE DEF od, kind, o, t
    <3> QED
      BY <1>2, <1>3, <2>1, <3>1, TradedGoesOn
  <2>2. CASE kind # "enter"
    <3>1. od.enter = ord[o].enter
      BY <1>2, <2>2, ByMyTradeEffect
    <3> HIDE DEF od, kind, o, t
    <3> QED
      BY <1>2, <3>1, SameGoesOn, Kinds, SMTT(40)
  <2> QED
    BY <2>1, <2>2
<1>6. StopSpent(od, t).enter = od.enter
  <2> HIDE DEF od
  <2> QED
    BY <1>4 DEF StopSpent, InOutOrder
<1>7. PICK last \in {od, StopSpent(od, t)} : ord' = [ord EXCEPT ![o] = last]
  BY <1>1
<1> HIDE DEF od, kind, o, t
<1>8. OrdersGoOn
  BY <1>2, <1>5, <1>6, <1>7, OneGoesOn
<1> QED
  BY <1>1, <1>2, <1>8, GoFills, SMTT(40) DEF Steps, o, t

LEMMA ExchangeFills ==
  ASSUME IInv, IInv', FillsInv, Exchange
  PROVE  FillsInv' /\ NeverShrinks
<1>0. TypeOK
  BY DEF IInv
<1>1. ASSUME NEW x \in DOMAIN exo, NEW e \in ExgOrder, Happens(x, e),
             e.od = exo[x].od, e.kind = exo[x].kind, exo[x].filled <= e.filled
      PROVE  FillsInv' /\ NeverShrinks
  <2>1. /\ exo' = [exo EXCEPT ![x] = e] /\ clock' = clock + 1
        /\ net' = net \cup {ReportOf(x, e)} /\ run' = run /\ ord' = ord
    BY <1>1 DEF Happens, local
  <2>2. \A r \in NowHeard : r \in Heard \/ r = ReportOf(x, e)
    BY <2>1 DEF Heard, NowHeard
  <2>3. ExchangeMoves
    BY <1>1, <2>1, <2>2, ReplacedMoves
  <2>4. CallsKnown
    BY <2>1 DEF CallsKnown
  <2> QED
    BY <2>1, <2>3, <2>4, SameEntriesGoOn, FillsStep
<1>2. ASSUME NEW x \in DOMAIN exo, Fill(x)
      PROVE  FillsInv' /\ NeverShrinks
  <2> DEFINE e == [exo[x] EXCEPT !.filled = @ + 1,
                                 !.st = IF exo[x].filled + 1 = exo[x].amt THEN "filled" ELSE @]
  <2>1. Happens(x, e) /\ exo[x].st = "live"
    BY <1>2 DEF Fill
  <2>2. exo[x] \in ExgOrder /\ exo[x].filled < exo[x].amt /\ exo[x].amt \in 0 .. Amount /\ exo[x].filled \in 0 .. Amount
    BY <1>0, <2>1, Kinds DEF IInv, IdsNameOrders, ExgOrder
  <2>3. exo[x].filled + 1 \in 0 .. Amount
    BY <2>2, ConstantsAssumption
  <2>4. e \in ExgOrder /\ e.od = exo[x].od /\ e.kind = exo[x].kind /\ exo[x].filled <= e.filled
    <3> DEFINE more == [exo[x] EXCEPT !.filled = @ + 1]
               st == IF exo[x].filled + 1 = exo[x].amt THEN "filled" ELSE exo[x].st
    <3>1. more \in ExgOrder /\ more.od = exo[x].od /\ more.kind = exo[x].kind
      BY <2>2, <2>3 DEF ExgOrder
    <3>2. more.filled = exo[x].filled + 1 /\ st \in {"live", "filled", "canceled"}
      BY <2>1, <2>2 DEF ExgOrder
    <3>3. e = [more EXCEPT !.st = st]
      BY <2>2 DEF ExgOrder
    <3> HIDE DEF more, st, e
    <3>4. e \in ExgOrder /\ e.od = more.od /\ e.kind = more.kind /\ e.filled = more.filled
      BY <3>1, <3>2, <3>3 DEF ExgOrder
    <3> QED
      BY <2>2, <3>1, <3>2, <3>4
  <2> HIDE DEF e
  <2> QED
    BY <1>1, <2>1, <2>4
<1>3. ASSUME NEW x \in DOMAIN exo, Expire(x)
      PROVE  FillsInv' /\ NeverShrinks
  <2> DEFINE e == [exo[x] EXCEPT !.st = "canceled"]
  <2>1. Happens(x, e)
    BY <1>3 DEF Expire
  <2>2. exo[x] \in ExgOrder /\ exo[x].filled \in 0 .. Amount
    BY <1>0, Kinds
  <2>3. e \in ExgOrder /\ e.od = exo[x].od /\ e.kind = exo[x].kind /\ exo[x].filled <= e.filled
    BY <2>2 DEF ExgOrder
  <2> HIDE DEF e
  <2> QED
    BY <1>1, <2>1, <2>3
<1> QED
  BY <1>2, <1>3 DEF Exchange

LEMMA InitFills == Init => FillsInv
<1> SUFFICES ASSUME Init PROVE FillsInv
  OBVIOUS
<1>1. DOMAIN exo = {} /\ clock = 0 /\ \A o \in Orders : ord[o].enter.filled = 0 /\ ord[o].enter.oid = 0
  BY DEF Init, NoOrder, NoSub
<1>2. \A r \in Heard : r.ex = 0 /\ r.at = 0
  BY DEF Init, Heard, Idle, Failed
<1>3. \A g \in Threads : run[g].at = "idle"
  BY DEF Init, Idle
<1> QED
  BY <1>1, <1>2, <1>3 DEF FillsInv, ReportsAgree, EntriesKnown, NotAhead

LEMMA NextFills == IInv /\ FillsInv /\ [Next]_vars => FillsInv' /\ NeverShrinks
<1> SUFFICES ASSUME IInv, FillsInv, [Next]_vars PROVE FillsInv' /\ NeverShrinks
  OBVIOUS
<1>0. IInv'
  BY NextIInv
<1>1. CASE Strategy
  BY <1>0, <1>1, StrategyFills
<1>2. CASE HandleOrderQueue
  BY <1>0, <1>2, HandleOrderQueueFills
<1>3. CASE \E t \in net : HandleMyTrade(t)
  BY <1>0, <1>3, HandleMyTradeFills
<1>4. CASE UpdateByMyTrade
  BY <1>0, <1>4, UpdateByMyTradeFills
<1>5. CASE \E g \in Threads : Handler(g)
  BY <1>0, <1>5, EnterSubmittedFills, EnterCancelledFills, SubmitExitFills, ExitSubmittedFills,
     EditTriggerFills, TriggerPutFills, CancelTriggerOdsFills, SaveUnlockFills DEF Handler
<1>6. CASE Exchange
  BY <1>0, <1>6, ExchangeFills
<1>7. CASE UNCHANGED vars
  <2>1. ExchangeMoves /\ CallsKnown
    BY <1>7, Kinds, QuietMoves DEF IInv, vars, CallsKnown
  <2> QED
    BY <1>0, <1>7, <2>1, SameEntriesGoOn, FillsStep DEF vars
<1> QED
  BY <1>1, <1>2, <1>3, <1>4, <1>5, <1>6, <1>7 DEF Next

\* All reports of an exchange order agree with their stamps and with the exchange, an
\* order has at most one entry there, and what it counts as entered is not ahead of
\* any report it would still accept.
THEOREM FillsAgree == Spec => []FillsInv
<1> QED
  BY InitFills, NextFills, InvariantHolds, PTL DEF Spec

\* What is known to be entered never goes back, though trades arrive in any order and
\* more than once and race the answers of the calls (updateByMyTrade, updateOdByExgRes).
THEOREM EnteredOnlyGrows == Spec => EnteredNeverShrinks
<1>1. IInv /\ FillsInv /\ [Next]_vars => [\A o \in Orders : ord[o].enter.filled <= ord'[o].enter.filled]_vars
  BY NextFills DEF NeverShrinks
<1> QED
  BY <1>1, FillsAgree, InvariantHolds, PTL DEF Spec, EnteredNeverShrinks

\* The entry of an order is sent to the exchange at most once, for any number of orders.
THEOREM EntrySentOnce == Spec => [](\A o \in Orders : \A x, y \in ExgOrdersOf(o, "enter") : x = y)
<1>1. FillsInv => \A o \in Orders : \A x, y \in ExgOrdersOf(o, "enter") : x = y
  BY DEF FillsInv, EntriesKnown, ExgOrdersOf
<1> QED
  BY <1>1, FillsAgree, PTL

-----------------------------------------------------------------------------
(* What is at the exchange once an order is closed *)

\* The orders of the exchange only go on: what is not live stays so, and fills stay.
GoesOn(x) ==
  /\ exo'[x].od = exo[x].od /\ exo'[x].kind = exo[x].kind
  /\ exo'[x].st = "live" => exo[x].st = "live"
  /\ exo'[x].filled = 0 => exo[x].filled = 0
OnlyGoesOn == DOMAIN exo' = DOMAIN exo /\ \A x \in DOMAIN exo : GoesOn(x)

\* Handler g is at that step of order o now; the other handler is where it was.
Moves(g, o, step) ==
  /\ run'[g].od = o /\ run'[g].at = step
  /\ \A h \in Threads \ {g} : run'[h] = run[h]

\* An order was made at the exchange, or the call was answered with a code.
Created(g, o, kind) ==
  LET x == Len(exo) + 1 IN
  /\ DOMAIN exo' = DOMAIN exo \cup {x} /\ x \notin DOMAIN exo /\ x # 0
  /\ \A y \in DOMAIN exo : exo'[y] = exo[y]
  /\ exo'[x].od = o /\ exo'[x].kind = kind /\ exo'[x].st \in {"live", "filled"}
  /\ run'[g].res.ex = x /\ run'[g].res.st = exo'[x].st
  /\ net' \subseteq net \cup (IF kind = "stop" THEN {} ELSE {run'[g].res})
Refused(g) ==
  /\ exo' = exo /\ net' = net
  /\ run'[g].res.ex = 0 /\ run'[g].res.st \in {"err", "reduceOnly", "immediate"}
  /\ run'[g].res.st = "err" => Errors

LEMMA CreateOrderIs ==
  ASSUME TypeOK, NEW g \in Threads, NEW o \in Orders, NEW kind \in {"enter", "exit", "stop"},
         NEW amt \in 0 .. Amount, NEW next \in Steps, CreateOrder(g, o, kind, amt, next)
  PROVE  Moves(g, o, next) /\ (Created(g, o, kind) \/ Refused(g))
<1> DEFINE E(f) == [od |-> o, kind |-> kind, amt |-> amt, filled |-> f,
                    st |-> IF f = amt THEN "filled" ELSE "live"]
           R(f) == ReportOf(Len(exo) + 1, E(f))
<1>0. run \in [Threads -> Work] /\ exo \in Seq(ExgOrder)
  BY DEF TypeOK
<1>1. CASE \E f \in 0 .. amt :
             /\ kind = "stop" => f = 0
             /\ exo' = Append(exo, E(f))
             /\ net' = IF f > 0 THEN net \cup {R(f)} ELSE net
             /\ run' = [run EXCEPT ![g] = [at |-> next, od |-> o, res |-> R(f)]]
  <2>1. PICK f \in 0 .. amt :
             /\ kind = "stop" => f = 0
             /\ exo' = Append(exo, E(f))
             /\ net' = IF f > 0 THEN net \cup {R(f)} ELSE net
             /\ run' = [run EXCEPT ![g] = [at |-> next, od |-> o, res |-> R(f)]]
    BY <1>1
  <2>2. E(f).od = o /\ E(f).kind = kind /\ E(f).st \in {"live", "filled"}
    OBVIOUS
  <2>3. R(f).ex = Len(exo) + 1 /\ R(f).st = E(f).st
    BY DEF ReportOf
  <2> HIDE DEF E, R
  <2>4. /\ DOMAIN exo' = DOMAIN exo \cup {Len(exo) + 1}
        /\ Len(exo) + 1 \notin DOMAIN exo /\ Len(exo) + 1 # 0
        /\ \A x \in DOMAIN exo : exo'[x] = exo[x]
        /\ exo'[Len(exo) + 1] = E(f)
    BY <1>0, <2>1
  <2>5. /\ run'[g].at = next /\ run'[g].od = o /\ run'[g].res = R(f)
        /\ \A h \in Threads \ {g} : run'[h] = run[h]
    BY <1>0, <2>1
  <2>6. net' \subseteq net \cup (IF kind = "stop" THEN {} ELSE {R(f)})
    BY <2>1
  <2> QED
    BY <2>2, <2>3, <2>4, <2>5, <2>6 DEF Moves, Created
<1>2. CASE \E code \in {"err", "reduceOnly", "immediate"} :
             /\ code = "err" => Errors
             /\ run' = [run EXCEPT ![g] = [at |-> next, od |-> o, res |-> Failed(code)]]
             /\ UNCHANGED exchange
  <2>1. PICK code \in {"err", "reduceOnly", "immediate"} :
             /\ code = "err" => Errors
             /\ run' = [run EXCEPT ![g] = [at |-> next, od |-> o, res |-> Failed(code)]]
             /\ UNCHANGED exchange
    BY <1>2
  <2>2. Failed(code).ex = 0 /\ Failed(code).st = code
    BY DEF Failed
  <2>3. /\ run'[g].at = next /\ run'[g].od = o /\ run'[g].res = Failed(code)
        /\ \A h \in Threads \ {g} : run'[h] = run[h]
    BY <1>0, <2>1
  <2> QED
    BY <2>1, <2>2, <2>3 DEF Moves, Refused, exchange
<1> QED
  BY <1>1, <1>2 DEF CreateOrder

\* An order of the exchange with another state.
LEMMA Replaced ==
  ASSUME exo \in Seq(ExgOrder), NEW x \in DOMAIN exo, NEW e \in ExgOrder, e.od = exo[x].od, e.kind = exo[x].kind,
         e.st = "live" => exo[x].st = "live", e.filled = 0 => exo[x].filled = 0,
         exo' = [exo EXCEPT ![x] = e]
  PROVE  OnlyGoesOn /\ exo'[x] = e
<1>1. DOMAIN exo' = DOMAIN exo /\ exo'[x] = e /\ \A y \in DOMAIN exo \ {x} : exo'[y] = exo[y]
  OBVIOUS
<1> QED
  BY <1>1 DEF OnlyGoesOn, GoesOn

LEMMA StopCancelledIs ==
  ASSUME TypeOK, NEW x, StopCancelled(x)
  PROVE  /\ OnlyGoesOn
         /\ ~ Errors /\ x \in DOMAIN exo /\ x # 0 => ~ Resting(x, exo[x].od)'
<1> DEFINE e == [exo[x] EXCEPT !.st = "canceled"]
<1>0. exo \in Seq(ExgOrder)
  BY DEF TypeOK
<1>1. CASE x \in DOMAIN exo /\ Cancellable(x) /\ exo' = [exo EXCEPT ![x].st = "canceled"]
  <2>1. exo[x] \in ExgOrder
    BY <1>0, <1>1
  <2>2. e \in ExgOrder /\ e.od = exo[x].od /\ e.kind = exo[x].kind /\ e.st = "canceled" /\ e.filled = exo[x].filled
    BY <2>1 DEF ExgOrder
  <2>3. exo' = [exo EXCEPT ![x] = e]
    BY <1>1
  <2> HIDE DEF e
  <2>4. OnlyGoesOn /\ exo'[x] = e
    BY <1>0, <1>1, <2>2, <2>3, Replaced
  <2> QED
    BY <2>2, <2>4 DEF Resting
<1>2. CASE exo' = exo /\ (Errors \/ ~ Cancellable(x))
  BY <1>2 DEF OnlyGoesOn, GoesOn, Resting, IsStop, Cancellable
<1>3. x \notin DOMAIN exo => [exo EXCEPT ![x].st = "canceled"] = exo
  BY <1>0
<1>4. CASE x \notin DOMAIN exo /\ exo' = exo
  BY <1>4 DEF OnlyGoesOn, GoesOn
<1> QED
  BY <1>1, <1>2, <1>3, <1>4 DEF StopCancelled

LEMMA CancelEnterIs ==
  ASSUME TypeOK, NEW g \in Threads, NEW o \in Orders, NEW x, CancelEnter(g, o, x), x # 0 => EntryOf(x, o)
  PROVE  /\ Moves(g, o, "canceled") /\ OnlyGoesOn
         /\ \/ /\ x \in DOMAIN exo /\ exo'[x].st = "canceled" /\ exo[x].kind = "enter"
               /\ run'[g].res.ex = x /\ run'[g].res.st = "canceled" /\ net' = net \cup {run'[g].res}
            \/ /\ exo' = exo /\ net' = net /\ run'[g].res.ex = 0 /\ run'[g].res.st = "err"
               /\ ~ Errors => x = 0 \/ exo[x].st # "live"
<1> DEFINE e == [exo[x] EXCEPT !.st = "canceled"]
           r == ReportOf(x, e)
<1>0. exo \in Seq(ExgOrder) /\ run \in [Threads -> Work]
  BY DEF TypeOK
<1>1. CASE /\ Cancellable(x)
           /\ exo' = [exo EXCEPT ![x] = e]
           /\ net' = net \cup {r}
           /\ run' = [run EXCEPT ![g] = [at |-> "canceled", od |-> o, res |-> r]]
  <2>1. x \in DOMAIN exo /\ EntryOf(x, o) /\ exo[x] \in ExgOrder
    BY <1>0, <1>1 DEF Cancellable, EntryOf
  <2>2. e \in ExgOrder /\ e.od = exo[x].od /\ e.kind = exo[x].kind /\ e.st = "canceled" /\ e.filled = exo[x].filled
    BY <2>1 DEF ExgOrder
  <2>3. r.ex = x /\ r.st = "canceled"
    BY <2>2 DEF ReportOf
  <2> HIDE DEF e, r
  <2>4. OnlyGoesOn /\ exo'[x] = e
    BY <1>0, <1>1, <2>1, <2>2, Replaced
  <2>5. /\ run'[g].at = "canceled" /\ run'[g].od = o /\ run'[g].res = r
        /\ \A h \in Threads \ {g} : run'[h] = run[h]
    BY <1>0, <1>1
  <2> QED
    BY <1>1, <2>1, <2>2, <2>3, <2>4, <2>5 DEF Moves, EntryOf
<1>2. CASE /\ Errors \/ ~ Cancellable(x)
           /\ run' = [run EXCEPT ![g] = [at |-> "canceled", od |-> o, res |-> Failed("err")]]
           /\ UNCHANGED exchange
  <2>1. Failed("err").ex = 0 /\ Failed("err").st = "err"
    BY DEF Failed
  <2>2. /\ run'[g].at = "canceled" /\ run'[g].od = o /\ run'[g].res = Failed("err")
        /\ \A h \in Threads \ {g} : run'[h] = run[h]
    BY <1>0, <1>2
  <2>3. ~ Errors => x = 0 \/ exo[x].st # "live"
    BY <1>2 DEF Cancellable, EntryOf
  <2> QED
    BY <1>2, <2>1, <2>2, <2>3 DEF Moves, OnlyGoesOn, GoesOn, exchange
<1> QED
  BY <1>1, <1>2 DEF CancelEnter

LEMMA HappensIs ==
  ASSUME IInv, Exchange
  PROVE  /\ OnlyGoesOn /\ UNCHANGED local
         /\ \E x \in DOMAIN exo : \E r :
              /\ net' = net \cup {r} /\ r.ex = x /\ r.st = exo'[x].st
              /\ exo'[x].st \in {"live", "filled", "canceled"}
              /\ exo[x].kind = "stop" => exo'[x].filled # 0
<1>0. TypeOK /\ exo \in Seq(ExgOrder)
  BY DEF IInv, TypeOK
<1>1. ASSUME NEW x \in DOMAIN exo, NEW e \in ExgOrder, Happens(x, e), e.od = exo[x].od, e.kind = exo[x].kind,
             e.st = "live" => exo[x].st = "live", e.filled = 0 => exo[x].filled = 0,
             exo[x].kind = "stop" => e.filled # 0
      PROVE  /\ OnlyGoesOn /\ UNCHANGED local
             /\ \E y \in DOMAIN exo : \E r :
                  /\ net' = net \cup {r} /\ r.ex = y /\ r.st = exo'[y].st
                  /\ exo'[y].st \in {"live", "filled", "canceled"}
                  /\ exo[y].kind = "stop" => exo'[y].filled # 0
  <2>1. exo' = [exo EXCEPT ![x] = e] /\ net' = net \cup {ReportOf(x, e)} /\ UNCHANGED local
    BY <1>1 DEF Happens
  <2>2. OnlyGoesOn /\ exo'[x] = e
    BY <1>0, <1>1, <2>1, Replaced
  <2>3. ReportOf(x, e).ex = x /\ ReportOf(x, e).st = e.st
    BY DEF ReportOf
  <2>4. e.st \in {"live", "filled", "canceled"}
    BY <1>1 DEF ExgOrder
  <2> QED
    BY <1>1, <2>1, <2>2, <2>3, <2>4
<1>2. ASSUME NEW x \in DOMAIN exo, Fill(x)
      PROVE  \E e \in ExgOrder :
               /\ Happens(x, e) /\ e.od = exo[x].od /\ e.kind = exo[x].kind
               /\ exo[x].st = "live" /\ e.filled > 0
  <2> DEFINE e == [exo[x] EXCEPT !.filled = @ + 1,
                                 !.st = IF exo[x].filled + 1 = exo[x].amt THEN "filled" ELSE @]
  <2>1. Happens(x, e) /\ exo[x].st = "live"
    BY <1>2 DEF Fill
  <2>2. exo[x] \in ExgOrder /\ exo[x].filled < exo[x].amt /\ exo[x].amt \in 0 .. Amount /\ exo[x].filled \in 0 .. Amount
    BY <1>0, <2>1, Kinds DEF IInv, IdsNameOrders, ExgOrder
  <2>3. exo[x].filled + 1 \in 0 .. Amount /\ exo[x].filled + 1 > 0
    BY <2>2, ConstantsAssumption
  <2>4. e \in ExgOrder /\ e.od = exo[x].od /\ e.kind = exo[x].kind /\ e.filled > 0
    <3> DEFINE more == [exo[x] EXCEPT !.filled = @ + 1]
               st == IF exo[x].filled + 1 = exo[x].amt THEN "filled" ELSE exo[x].st
    <3>1. more \in ExgOrder /\ more.od = exo[x].od /\ more.kind = exo[x].kind
      BY <2>2, <2>3 DEF ExgOrder
    <3>2. more.filled = exo[x].filled + 1 /\ st \in {"live", "filled", "canceled"}
      BY <2>1, <2>2 DEF ExgOrder
    <3>3. e = [more EXCEPT !.st = st]
      BY <2>2 DEF ExgOrder
    <3> HIDE DEF more, st, e
    <3>4. e \in ExgOrder /\ e.od = more.od /\ e.kind = more.kind /\ e.filled = more.filled
      BY <3>1, <3>2, <3>3 DEF ExgOrder
    <3> QED
      BY <2>2, <2>3, <3>1, <3>2, <3>4
  <2> HIDE DEF e
  <2> QED
    BY <2>1, <2>4
<1>3. ASSUME NEW x \in DOMAIN exo, Expire(x)
      PROVE  \E e \in ExgOrder :
               /\ Happens(x, e) /\ e.od = exo[x].od /\ e.kind = exo[x].kind
               /\ e.st = "canceled" /\ e.filled = exo[x].filled /\ exo[x].kind # "stop"
  <2> DEFINE e == [exo[x] EXCEPT !.st = "canceled"]
  <2>1. Happens(x, e) /\ exo[x].kind # "stop"
    BY <1>3 DEF Expire
  <2>2. exo[x] \in ExgOrder
    BY <1>0, Kinds
  <2>3. e \in ExgOrder /\ e.od = exo[x].od /\ e.kind = exo[x].kind /\ e.st = "canceled" /\ e.filled = exo[x].filled
    BY <2>2 DEF ExgOrder
  <2> HIDE DEF e
  <2> QED
    BY <2>1, <2>3
<1>4. ASSUME NEW x \in DOMAIN exo, Fill(x)
      PROVE  /\ OnlyGoesOn /\ UNCHANGED local
             /\ \E y \in DOMAIN exo : \E r :
                  /\ net' = net \cup {r} /\ r.ex = y /\ r.st = exo'[y].st
                  /\ exo'[y].st \in {"live", "filled", "canceled"}
                  /\ exo[y].kind = "stop" => exo'[y].filled # 0
  <2>1. PICK e \in ExgOrder :
               /\ Happens(x, e) /\ e.od = exo[x].od /\ e.kind = exo[x].kind
               /\ exo[x].st = "live" /\ e.filled > 0
    BY <1>4, <1>2
  <2>2. e.filled # 0
    BY <2>1
  <2> QED
    BY <2>1, <2>2, <1>1
<1>5. ASSUME NEW x \in DOMAIN exo, Expire(x)
      PROVE  /\ OnlyGoesOn /\ UNCHANGED local
             /\ \E y \in DOMAIN exo : \E r :
                  /\ net' = net \cup {r} /\ r.ex = y /\ r.st = exo'[y].st
                  /\ exo'[y].st \in {"live", "filled", "canceled"}
                  /\ exo[y].kind = "stop" => exo'[y].filled # 0
  <2>1. PICK e \in ExgOrder :
               /\ Happens(x, e) /\ e.od = exo[x].od /\ e.kind = exo[x].kind
               /\ e.st = "canceled" /\ e.filled = exo[x].filled /\ exo[x].kind # "stop"
    BY <1>5, <1>3
  <2> QED
    BY <2>1, <1>1
<1> QED
  BY <1>4, <1>5 DEF Exchange

\* What a step makes known: the exchange goes on, what is told of it is so, and without
\* errors no call is answered with one.
Says ==
  /\ \A x \in DOMAIN exo : x \in DOMAIN exo' /\ GoesOn(x)
  /\ \A r \in NowHeard :
       \/ r \in Heard \/ r.ex = 0
       \/ r.ex \in DOMAIN exo' /\ r.st = exo'[r.ex].st /\ r.st \in {"live", "filled", "canceled"}
  /\ \A t \in net' : t \in net \/ (exo'[t.ex].kind = "stop" => exo'[t.ex].filled # 0)
  /\ run'["trade"].at = "wait" => run'["trade"] = run["trade"] \/ run'["trade"].res \in net
  /\ \A g \in Threads : run'[g].at \in {"entered", "exited", "stopped"} =>
       run'[g] = run[g] \/ (run'[g].res.st = "err" => Errors)

LEMMA SaysStep ==
  ASSUME IInv, IInv', ReportsTell, Says
  PROVE  ReportsTell' /\ (~ Errors /\ NoCallFails => NoCallFails')
<1>1. \A r \in NowHeard : r.ex # 0 =>
        r.st \in {"live", "filled", "canceled"} /\ (r.st # "live" => exo'[r.ex].st # "live")
  BY HeardNames DEF Says, ReportsTell, GoesOn
<1>2. \A t \in net : t.ex \in DOMAIN exo
  BY DEF IInv, IdsNameOrders
<1>3. \A t \in net' : exo'[t.ex].kind = "stop" => exo'[t.ex].filled # 0
  BY <1>2 DEF Says, ReportsTell, GoesOn
<1>4. run["trade"].at = "wait" => run["trade"].res.ex \in DOMAIN exo
  BY DEF IInv, IdsNameOrders
<1>5. run'["trade"].at = "wait" /\ exo'[run'["trade"].res.ex].kind = "stop" => exo'[run'["trade"].res.ex].filled # 0
  BY <1>2, <1>4 DEF Says, ReportsTell, GoesOn
<1>6. ReportsTell'
  BY <1>1, <1>3, <1>5 DEF ReportsTell, Heard, NowHeard
<1>7. ~ Errors /\ NoCallFails => NoCallFails'
  BY DEF NoCallFails, Says
<1> QED
  BY <1>6, <1>7

\* A handler's step without an order made.
LEMMA GoSays ==
  ASSUME IInv, NEW g \in Threads, OnlyGoesOn, net' = net, \A h \in Threads \ {g} : run'[h] = run[h],
         run'[g].res = run[g].res \/ run'[g].res.ex = 0, run'[g].at \notin {"wait", "entered", "exited", "stopped"}
  PROVE  Says
<1>1. \A r \in NowHeard : r \in Heard \/ r.ex = 0
  BY Kinds DEF IInv, NowHeard, Heard
<1> QED
  BY <1>1 DEF Says, OnlyGoesOn, Threads

LEMMA CallSays ==
  ASSUME IInv, NEW g \in Threads, NEW o, NEW kind, NEW next, Moves(g, o, next), next # "wait",
         Created(g, o, kind) \/ Refused(g)
  PROVE  Says
<1>1. CASE Created(g, o, kind)
  <2>1. \A r \in NowHeard : r \in Heard \/ r = run'[g].res
    BY <1>1, Kinds DEF IInv, Moves, Created, NowHeard, Heard
  <2>2. \A x \in DOMAIN exo : x \in DOMAIN exo' /\ GoesOn(x)
    BY <1>1 DEF Created, GoesOn
  <2>3. run'[g].res.ex \in DOMAIN exo' /\ run'[g].res.st = exo'[run'[g].res.ex].st /\ run'[g].res.st \in {"live", "filled"}
    BY <1>1 DEF Created
  <2>4. \A t \in net' : t \in net \/ (exo'[t.ex].kind = "stop" => exo'[t.ex].filled # 0)
    BY <1>1 DEF Created
  <2>5. \A h \in Threads \ {g} : run'[h] = run[h] /\ run'[g].at = next
    BY DEF Moves
  <2> QED
    BY <2>1, <2>2, <2>3, <2>4, <2>5 DEF Says, Threads, Moves
<1>2. CASE Refused(g)
  <2>1. \A r \in NowHeard : r \in Heard \/ r.ex = 0
    BY <1>2, Kinds DEF IInv, Moves, Refused, NowHeard, Heard
  <2> QED
    BY <1>2, <2>1 DEF Says, Moves, Refused, GoesOn, Threads
<1> QED
  BY <1>1, <1>2

LEMMA GoIs ==
  ASSUME IInv, NEW g \in Threads, NEW step \in Steps, Go(g, step)
  PROVE  Moves(g, run[g].od, step) /\ run'[g].res = run[g].res
BY DEF IInv, TypeOK, Go, Work, Moves

\* A handler's step: an order is made or a call answered, or only the step goes on.
LEMMA HandlerCalls ==
  ASSUME IInv, NEW g \in Threads, Handler(g)
  PROVE  \/ /\ OnlyGoesOn /\ net' = net /\ \A h \in Threads \ {g} : run'[h] = run[h]
            /\ run'[g].res = run[g].res \/ run'[g].res.ex = 0
            /\ run'[g].at \in {"idle", "save", "stop", "cleanup", "exit"}
         \/ /\ run[g].at = "exit" /\ Moves(g, run[g].od, "exited")
            /\ Created(g, run[g].od, "exit") \/ Refused(g)
         \/ /\ run[g].at = "stop" /\ Moves(g, run[g].od, "stopped")
            /\ Created(g, run[g].od, "stop") \/ Refused(g)
<1> DEFINE o == run[g].od
<1>0. TypeOK /\ o \in Orders /\ ord[o] \in InOutOrder
  BY OrdersNamed DEF IInv, TypeOK
<1>1. ASSUME NEW step \in {"save", "stop", "cleanup", "exit"}, Go(g, step), OnlyGoesOn, net' = net
      PROVE  /\ OnlyGoesOn /\ net' = net /\ \A h \in Threads \ {g} : run'[h] = run[h]
             /\ run'[g].res = run[g].res \/ run'[g].res.ex = 0
             /\ run'[g].at \in {"idle", "save", "stop", "cleanup", "exit"}
  BY <1>1, GoIs DEF Steps, Moves
<1>2. UNCHANGED exo => OnlyGoesOn
  BY DEF OnlyGoesOn, GoesOn
<1>3. CASE EnterSubmitted(g)
  BY <1>1, <1>2, <1>3 DEF EnterSubmitted, exchange
<1>4. CASE EnterCancelled(g)
  <2>1. UNCHANGED exchange /\ \E step \in {"cleanup", "exit"} : Go(g, step)
    BY <1>4, ZenonT(40) DEF EnterCancelled
  <2> QED
    BY <1>1, <1>2, <2>1 DEF exchange
<1>5. CASE SubmitExit(g)
  <2> DEFINE amt == IF ord[o].exit.amt = 0 THEN ord[o].enter.filled ELSE ord[o].exit.amt
  <2>1. \/ \E step \in {"save", "cleanup"} : Go(g, step) /\ UNCHANGED exchange
        \/ CreateOrder(g, o, "exit", amt, "exited")
    BY <1>5 DEF SubmitExit
  <2>2. amt \in 0 .. Amount
    BY <1>0 DEF InOutOrder, SubOrder
  <2> HIDE DEF amt
  <2>3. CASE CreateOrder(g, o, "exit", amt, "exited")
    BY <1>0, <1>5, <2>2, <2>3, CreateOrderIs DEF Steps, SubmitExit
  <2> QED
    BY <1>1, <1>2, <2>1, <2>3 DEF exchange
<1>6. CASE ExitSubmitted(g)
  <2>1. UNCHANGED exchange /\ \E step \in {"cleanup", "save"} : Go(g, step)
    BY <1>6 DEF ExitSubmitted
  <2> QED
    BY <1>1, <1>2, <2>1 DEF exchange
<1>7. CASE EditTrigger(g)
  <2>1. (Go(g, "save") /\ UNCHANGED exchange) \/ CreateOrder(g, o, "stop", ord[o].enter.amt, "stopped")
    BY <1>7 DEF EditTrigger
  <2>2. ord[o].enter.amt \in 0 .. Amount
    BY <1>0 DEF InOutOrder, SubOrder
  <2>3. CASE CreateOrder(g, o, "stop", ord[o].enter.amt, "stopped")
    BY <1>0, <1>7, <2>2, <2>3, CreateOrderIs DEF Steps, EditTrigger
  <2> QED
    BY <1>1, <1>2, <2>1, <2>3 DEF exchange
<1>8. CASE TriggerPut(g)
  <2>1. net' = net /\ (exo' = exo \/ StopCancelled(ord[o].stop.oid)) /\ \E step \in {"exit", "save"} : Go(g, step)
    BY <1>8 DEF TriggerPut
  <2>2. OnlyGoesOn
    BY <1>0, <1>2, <2>1, StopCancelledIs
  <2> QED
    BY <1>1, <2>1, <2>2
<1>9. CASE CancelTriggerOds(g)
  <2>1. net' = net /\ StopCancelled(ord[o].stop.oid) /\ Go(g, "save")
    BY <1>9 DEF CancelTriggerOds
  <2>2. OnlyGoesOn
    BY <1>0, <2>1, StopCancelledIs
  <2> QED
    BY <1>1, <2>1, <2>2
<1>10. CASE SaveUnlock(g)
  <2>1. run' = [run EXCEPT ![g] = Idle] /\ Idle.at = "idle" /\ Idle.res.ex = 0 /\ UNCHANGED exchange
    BY <1>10 DEF SaveUnlock, Idle, Failed
  <2>2. run'[g] = Idle /\ \A h \in Threads \ {g} : run'[h] = run[h]
    BY <1>0, <2>1 DEF TypeOK
  <2> QED
    BY <1>2, <2>1, <2>2 DEF exchange
<1> QED
  BY <1>3, <1>4, <1>5, <1>6, <1>7, <1>8, <1>9, <1>10 DEF Handler

\* The step that takes an item of the queue.
LEMMA QueueCalls ==
  ASSUME IInv, FillsInv, HandleOrderQueue
  PROVE  LET o == Head(queue).od
             act == Head(queue).act
             x == ord[o].enter.oid IN
         /\ o \in Orders /\ run["queue"].at = "idle" /\ UNCHANGED <<ord, exitReq>>
         /\ \/ /\ UNCHANGED exchange /\ run'["queue"].res = run["queue"].res
               /\ \/ act = "Enter" /\ Moves("queue", o, "save")
                  \/ act = "Exit" /\ EntryClosed(o) /\ Moves("queue", o, "exit")
                  \/ act = "StopLoss" /\ Moves("queue", o, "stop")
            \/ /\ act = "Enter" /\ Moves("queue", o, "entered")
               /\ Created("queue", o, "enter") \/ Refused("queue")
            \/ /\ act = "Exit" /\ ~ EntryClosed(o) /\ Moves("queue", o, "canceled") /\ OnlyGoesOn
               /\ \/ /\ x \in DOMAIN exo /\ exo'[x].st = "canceled" /\ exo[x].kind = "enter"
                     /\ run'["queue"].res.ex = x /\ run'["queue"].res.st = "canceled"
                     /\ net' = net \cup {run'["queue"].res}
                  \/ /\ exo' = exo /\ net' = net /\ run'["queue"].res.ex = 0 /\ run'["queue"].res.st = "err"
                     /\ ~ Errors => x = 0 \/ exo[x].st # "live"
<1> DEFINE o == Head(queue).od
           act == Head(queue).act
<1>1. UNCHANGED <<ord, exitReq>> /\ queue # <<>> /\ queue' = Tail(queue) /\ TypeOK /\ "queue" \in Threads /\ run["queue"].at = "idle"
  BY DEF HandleOrderQueue, IInv, Threads
<1>2. o \in Orders /\ act \in {"Enter", "Exit", "StopLoss"} /\ ord[o] \in InOutOrder
  BY <1>1, Dequeued, OrdersNamed DEF OdQItem, TypeOK
<1>3. \/ act = "Enter" /\ CreateOrder("queue", o, "enter", ord[o].enter.amt, "entered")
      \/ act = "Exit" /\ ~ EntryClosed(o) /\ CancelEnter("queue", o, ord[o].enter.oid)
      \/ \E step \in {"save", "exit", "stop"} :
           /\ run' = [run EXCEPT !["queue"].at = step, !["queue"].od = o] /\ UNCHANGED exchange
           /\ \/ act = "Enter" /\ step = "save"
              \/ act = "Exit" /\ EntryClosed(o) /\ step = "exit"
              \/ act = "StopLoss" /\ step = "stop"
  BY <1>2 DEF HandleOrderQueue, EnterClosed, EntryClosed
<1>4. CASE act = "Enter" /\ CreateOrder("queue", o, "enter", ord[o].enter.amt, "entered")
  <2>1. ord[o].enter.amt \in 0 .. Amount
    BY <1>2 DEF InOutOrder, SubOrder
  <2> QED
    BY <1>1, <1>2, <1>4, <2>1, CreateOrderIs DEF Steps
<1>5. CASE act = "Exit" /\ ~ EntryClosed(o) /\ CancelEnter("queue", o, ord[o].enter.oid)
  <2>1. ord[o].enter.oid # 0 => EntryOf(ord[o].enter.oid, o)
    BY <1>2 DEF FillsInv, EntriesKnown
  <2> QED
    BY <1>1, <1>2, <1>5, <2>1, CancelEnterIs
<1>6. ASSUME NEW step \in {"save", "exit", "stop"}, run' = [run EXCEPT !["queue"].at = step, !["queue"].od = o]
      PROVE  Moves("queue", o, step) /\ run'["queue"].res = run["queue"].res
  BY <1>1, <1>6 DEF TypeOK, Work, Moves
<1> QED
  BY <1>1, <1>2, <1>3, <1>4, <1>5, <1>6

LEMMA NextSays ==
  ASSUME IInv, IInv', FillsInv, [Next]_vars
  PROVE  Says
<1>0. TypeOK /\ "trade" \in Threads /\ "queue" \in Threads
  BY DEF IInv, Threads
<1>1. ASSUME UNCHANGED exchange, run' = run PROVE Says
  BY <1>1 DEF Says, exchange, GoesOn, NowHeard, Heard
<1>2. CASE Strategy
  BY <1>1, <1>2 DEF Strategy, EnterOrder, ExitOrder, PostOrderExit, SetStopLoss
<1>3. CASE HandleOrderQueue
  <2>1. ASSUME UNCHANGED exchange, NEW o, NEW step \in {"save", "exit", "stop"}, Moves("queue", o, step),
               run'["queue"].res = run["queue"].res
        PROVE  Says
    BY <1>0, <2>1, GoSays DEF Moves, OnlyGoesOn, GoesOn, exchange
  <2>2. ASSUME NEW o, Moves("queue", o, "entered"), Created("queue", o, "enter") \/ Refused("queue")
        PROVE  Says
    BY <1>0, <2>2, CallSays
  <2>3. ASSUME NEW o, Moves("queue", o, "canceled"), OnlyGoesOn, NEW x,
               \/ /\ x \in DOMAIN exo /\ exo'[x].st = "canceled" /\ exo[x].kind = "enter"
                  /\ run'["queue"].res.ex = x /\ run'["queue"].res.st = "canceled"
                  /\ net' = net \cup {run'["queue"].res}
               \/ exo' = exo /\ net' = net /\ run'["queue"].res.ex = 0
        PROVE  Says
    <3>1. \A r \in NowHeard : r \in Heard \/ r = run'["queue"].res
      BY <2>3, <1>0, Kinds DEF Moves, NowHeard, Heard, Threads
    <3> QED
      BY <2>3, <3>1 DEF Says, Moves, OnlyGoesOn, GoesOn, Threads
  <2> QED
    BY <1>3, <2>1, <2>2, <2>3, QueueCalls
<1>4. ASSUME NEW t \in net, HandleMyTrade(t) PROVE Says
  <2>1. exo' = exo /\ net' \subseteq net
    BY <1>4 DEF HandleMyTrade
  <2>2. run' = run \/ \E o : run' = [run EXCEPT !["trade"] = [at |-> "wait", od |-> o, res |-> t]]
    BY <1>4 DEF HandleMyTrade
  <2>3. \A h \in Threads : run'[h] = run[h] \/ (run'[h].at = "wait" /\ run'[h].res = t)
    BY <1>0, <2>2 DEF TypeOK
  <2>4. \A r \in NowHeard : r \in Heard
    BY <1>0, <2>1, <2>3, Kinds DEF NowHeard, Heard
  <2> QED
    BY <1>0, <2>1, <2>3, <2>4 DEF Says, GoesOn
<1>5. CASE UpdateByMyTrade
  <2>1. UNCHANGED exchange /\ \E step \in {"cleanup", "stop", "save"} : Go("trade", step)
    BY <1>5, ZenonT(40) DEF UpdateByMyTrade
  <2> QED
    BY <1>0, <2>1, GoIs, GoSays DEF Steps, Moves, OnlyGoesOn, GoesOn, exchange
<1>6. ASSUME NEW g \in Threads, Handler(g) PROVE Says
  BY <1>6, HandlerCalls, GoSays, CallSays
<1>7. CASE Exchange
  <2>1. /\ OnlyGoesOn /\ UNCHANGED local
        /\ \E x \in DOMAIN exo : \E r :
             /\ net' = net \cup {r} /\ r.ex = x /\ r.st = exo'[x].st
             /\ exo'[x].st \in {"live", "filled", "canceled"}
             /\ exo[x].kind = "stop" => exo'[x].filled # 0
    BY <1>7, HappensIs
  <2> QED
    BY <2>1 DEF Says, OnlyGoesOn, GoesOn, local, NowHeard, Heard
<1>8. CASE UNCHANGED vars
  BY <1>1, <1>8 DEF vars, exchange
<1> QED
  BY <1>2, <1>3, <1>4, <1>5, <1>6, <1>7, <1>8 DEF Next

(* An exit is sent once *)

NowAt(g, o, steps) == run'[g].od = o /\ run'[g].at \in steps
\* The step asks for no further exit of p and sends none.
NoNewExit(p) ==
  /\ ord[p].exitTag => ord'[p].exitTag
  /\ p \in exitReq' => p \in exitReq \/ ~ ord[p].exitTag
  /\ ~ NowAt("trade", p, {"canceled", "exit", "exited", "stopped"}) /\ ~ NowAt("queue", p, {"stopped"})
  /\ NowAt("queue", p, {"canceled", "exit"}) => IsAt("queue", p, {"canceled", "exit"})
  /\ \E k \in {0, 1} : \A i \in DOMAIN queue' : queue'[i].act = "Exit" /\ queue'[i].od = p =>
       i \in Nat /\ i + k \in DOMAIN queue /\ queue[i + k] = queue'[i]
  /\ \A x \in DOMAIN exo' : exo'[x].od = p /\ exo'[x].kind # "enter" =>
       x \in DOMAIN exo /\ exo[x].od = p /\ exo[x].kind = exo'[x].kind

LEMMA NoNewExitStep ==
  ASSUME NEW p \in Orders, ExitOnce(p), NoNewExit(p)
  PROVE  ExitOnce(p)'
<1>1. \A x \in DOMAIN exo' : (IsExit(x, p)' => x \in DOMAIN exo /\ IsExit(x, p)) /\ (IsStop(x, p)' => x \in DOMAIN exo /\ IsStop(x, p))
  BY DEF NoNewExit, IsExit, IsStop
<1>2. PICK k \in {0, 1} : \A i \in DOMAIN queue' : Asks(i, p)' => i \in Nat /\ i + k \in DOMAIN queue /\ Asks(i + k, p)
  BY DEF NoNewExit, Asks
<1>3. (~ ord[p].exitTag \/ p \in exitReq)' => ~ ord[p].exitTag \/ p \in exitReq
  BY DEF NoNewExit
<1>4. IsAt("queue", p, {"canceled", "exit"})' => IsAt("queue", p, {"canceled", "exit"})
  BY DEF NoNewExit, IsAt, NowAt
<1>5. ~ IsAt("trade", p, {"canceled", "exit", "exited", "stopped"})' /\ ~ IsAt("queue", p, {"stopped"})'
  BY DEF NoNewExit, IsAt, NowAt
<1>6. /\ \A x, y \in DOMAIN exo' : IsExit(x, p)' /\ IsExit(y, p)' => x = y
      /\ \A x \in DOMAIN exo' : ~ IsStop(x, p)'
  BY <1>1 DEF ExitOnce
<1>7. \/ (~ ord[p].exitTag \/ p \in exitReq)' \/ IsAt("queue", p, {"canceled", "exit"})'
      \/ \E i \in DOMAIN queue' : Asks(i, p)'
      => \A x \in DOMAIN exo' : ~ IsExit(x, p)'
  BY <1>1, <1>2, <1>3, <1>4 DEF ExitOnce
<1>8. (~ ord[p].exitTag \/ p \in exitReq)' =>
        ~ IsAt("queue", p, {"canceled", "exit"})' /\ \A i \in DOMAIN queue' : ~ Asks(i, p)'
  BY <1>2, <1>3, <1>4 DEF ExitOnce
<1>9. \A i \in DOMAIN queue' : Asks(i, p)' =>
        ~ IsAt("queue", p, {"canceled", "exit"})' /\ \A j \in DOMAIN queue' : Asks(j, p)' => i = j
  BY <1>2, <1>4 DEF ExitOnce
<1> QED
  BY <1>5, <1>6, <1>7, <1>8, <1>9 DEF ExitOnce

\* What keeps the queue and the requests, on another order or with nothing of this one made.
LEMMA KeepsExits ==
  ASSUME NEW p \in Orders, ExitOnce(p), TypeOK, queue' = queue, exitReq' = exitReq,
         ord[p].exitTag => ord'[p].exitTag,
         \A g \in Threads : NowAt(g, p, {"canceled", "exit", "exited", "stopped"}) => run'[g] = run[g],
         \A x \in DOMAIN exo' : exo'[x].od = p /\ exo'[x].kind # "enter" =>
           x \in DOMAIN exo /\ exo[x].od = p /\ exo[x].kind = exo'[x].kind
  PROVE  ExitOnce(p)'
<1>1. \A i \in DOMAIN queue : i \in Nat /\ i + 0 = i
  BY DEF TypeOK
<1>2. \E k \in {0, 1} : \A i \in DOMAIN queue' : queue'[i].act = "Exit" /\ queue'[i].od = p =>
        i \in Nat /\ i + k \in DOMAIN queue /\ queue[i + k] = queue'[i]
  BY <1>1
<1>3. /\ ~ NowAt("trade", p, {"canceled", "exit", "exited", "stopped"}) /\ ~ NowAt("queue", p, {"stopped"})
      /\ NowAt("queue", p, {"canceled", "exit"}) => IsAt("queue", p, {"canceled", "exit"})
  BY DEF ExitOnce, NowAt, IsAt, Threads
<1> QED
  BY <1>2, <1>3, NoNewExitStep DEF NoNewExit

(* What the methods of an order do to its exit tag and to its stop loss. *)
KeepsTag(od, new) == (od.exitTag => new.exitTag) /\ new.stop = od.stop

LEMMA SetExitTag ==
  ASSUME NEW od \in InOutOrder, NEW now \in Nat
  PROVE  KeepsTag(od, SetExit(od, now))
BY DEF SetExit, InOutOrder, KeepsTag

LEMMA LocalExitTag ==
  ASSUME NEW od \in InOutOrder, NEW now \in Nat
  PROVE  KeepsTag(od, LocalExit(od, now))
<1>1. SetExit(od, now) \in InOutOrder /\ KeepsTag(od, SetExit(od, now))
  BY SetExitType, SetExitTag
<1>2. ASSUME NEW s \in InOutOrder, NEW f
      PROVE  KeepsTag(s, [s EXCEPT !.status = "FullExit", !.enter.st = "Closed",
                                   !.exit.st = "Closed", !.exit.filled = f])
  BY DEF InOutOrder, SubOrder, KeepsTag
<1>3. KeepsTag(SetExit(od, now), LocalExit(od, now))
  BY <1>1, <1>2 DEF LocalExit
<1> QED
  BY <1>1, <1>3 DEF KeepsTag

LEMMA EnterAnsweredTag ==
  ASSUME NEW od \in InOutOrder, NEW r \in Report
  PROVE  KeepsTag(od, EnterAnswered(od, r))
BY DEF EnterAnswered, InOutOrder, KeepsTag

LEMMA ExitAnsweredTag ==
  ASSUME NEW od \in InOutOrder, NEW r \in Report
  PROVE  KeepsTag(od, ExitAnswered(od, r))
BY DEF ExitAnswered, InOutOrder, KeepsTag

LEMMA ByMyTradeTag ==
  ASSUME NEW od \in InOutOrder, NEW t \in Report, NEW kind, NEW now \in Nat
  PROVE  KeepsTag(od, ByMyTrade(od, kind, t, now))
<1>1. ASSUME NEW d \in InOutOrder
      PROVE  KeepsTag(d, ExitTraded(d, t)) /\ KeepsTag(d, EnterTraded(d, t))
  BY DEF ExitTraded, EnterTraded, InOutOrder, KeepsTag
<1>2. SetExit(od, now) \in InOutOrder /\ KeepsTag(od, SetExit(od, now))
  BY SetExitType, SetExitTag
<1> QED
  BY <1>1, <1>2 DEF ByMyTrade, KeepsTag

\* An entry that is closed here while its cancel was answered.
EntryShut(od) == [od EXCEPT !.enter.st = "Closed"]
ClosedUnfilled(od, now) == [SetExit(EntryShut(od), now) EXCEPT !.status = "FullExit", !.exit.st = "Closed"]
LEMMA EntryShutIs ==
  ASSUME NEW od \in InOutOrder, NEW now \in Nat
  PROVE  /\ EntryShut(od) \in InOutOrder /\ ClosedUnfilled(od, now) \in InOutOrder
         /\ KeepsTag(od, EntryShut(od)) /\ KeepsTag(od, ClosedUnfilled(od, now))
         /\ EntryShut(od).enter.oid = od.enter.oid /\ ClosedUnfilled(od, now).enter.oid = od.enter.oid
         /\ EntryShut(od).status = od.status
<1>1. od.enter \in SubOrder /\ [od.enter EXCEPT !.st = "Closed"] \in SubOrder
      /\ [od.enter EXCEPT !.st = "Closed"].oid = od.enter.oid
  BY DEF InOutOrder, SubOrder
<1>2. EntryShut(od) = [od EXCEPT !.enter = [od.enter EXCEPT !.st = "Closed"]]
  BY DEF InOutOrder, EntryShut
<1>3. /\ EntryShut(od) \in InOutOrder /\ EntryShut(od).enter.oid = od.enter.oid
      /\ KeepsTag(od, EntryShut(od)) /\ EntryShut(od).status = od.status
  BY <1>1, <1>2 DEF InOutOrder, KeepsTag
<1> DEFINE set == SetExit(EntryShut(od), now)
           closed == [set EXCEPT !.status = "FullExit", !.exit.st = "Closed"]
<1>4. set \in InOutOrder /\ set.enter = EntryShut(od).enter /\ KeepsTag(EntryShut(od), set)
  BY <1>3, SetExitType, SetExitKeeps, SetExitTag
<1>5. closed = ClosedUnfilled(od, now)
  BY DEF ClosedUnfilled
<1> HIDE DEF set
<1>6. [set.exit EXCEPT !.st = "Closed"] \in SubOrder
  BY <1>4 DEF InOutOrder, SubOrder
<1>7. closed \in InOutOrder /\ closed.enter = set.enter /\ KeepsTag(set, closed)
  BY <1>4, <1>6 DEF InOutOrder, KeepsTag
<1> HIDE DEF closed
<1> QED
  BY <1>3, <1>4, <1>5, <1>7 DEF KeepsTag

(* What each step of a handler does to its order. *)

LEMMA EnterSubmittedIs ==
  ASSUME IInv, NEW g \in Threads, EnterSubmitted(g)
  PROVE  LET o == run[g].od
             r == run[g].res IN
         /\ run[g].at = "entered" /\ exo' = exo /\ \E step \in {"save", "stop"} : Moves(g, o, step)
         /\ KeepsTag(ord[o], ord'[o])
         /\ r.st # "err" => /\ ord'[o].enter.oid = r.ex
                            /\ ord'[o].enter.st = "Closed" => EntryClosed(o) \/ IsOrderDone(r)
<1> DEFINE o == run[g].od
           r == run[g].res
           od == IF r.st = "err" THEN LocalExit(ord[o], clock) ELSE EnterAnswered(ord[o], r)
<1>1. run[g].at = "entered" /\ UNCHANGED exchange /\ ord' = [ord EXCEPT ![o] = od]
  BY DEF EnterSubmitted, Become
<1>2. \E step \in {"save", "stop"} : Go(g, step)
  BY DEF EnterSubmitted
<1>3. o \in Orders /\ ord[o] \in InOutOrder /\ r \in Report /\ clock \in Nat /\ ord \in [Orders -> InOutOrder]
  BY <1>1, HandlerHolds DEF IInv, TypeOK
<1>4. ord'[o] = od
  BY <1>1, <1>3
<1>5. KeepsTag(ord[o], od)
  BY <1>3, LocalExitTag, EnterAnsweredTag
<1>6. LET new == EnterAnswered(ord[o], r) IN
      new.enter.oid = r.ex /\ (new.enter.st = "Closed" => EntryClosed(o) \/ IsOrderDone(r))
  BY <1>3 DEF EnterAnswered, Answered, InOutOrder, SubOrder, EntryClosed
<1> HIDE DEF o, r
<1>7. r.st # "err" => od = EnterAnswered(ord[o], r)
  OBVIOUS
<1> HIDE DEF od
<1> QED
  BY <1>1, <1>2, <1>4, <1>5, <1>6, <1>7, GoIs DEF exchange, Steps, o, r

LEMMA EnterCancelledIs ==
  ASSUME IInv, NEW g \in Threads, EnterCancelled(g)
  PROVE  LET o == run[g].od
             r == run[g].res IN
         /\ run[g].at = "canceled" /\ exo' = exo /\ \E step \in {"cleanup", "exit"} : Moves(g, o, step)
         /\ KeepsTag(ord[o], ord'[o])
         /\ ord'[o].enter.oid = IF r.st = "canceled" THEN r.ex ELSE ord[o].enter.oid
<1> DEFINE o == run[g].od
           r == run[g].res
           od == IF r.st = "canceled" THEN EnterAnswered(ord[o], r) ELSE ord[o]
           last == IF od.enter.filled = 0 THEN ClosedUnfilled(od, clock) ELSE EntryShut(od)
<1>1. run[g].at = "canceled" /\ UNCHANGED exchange /\ ord' = [ord EXCEPT ![o] = last]
  BY ZenonT(40) DEF EnterCancelled, Become, ClosedUnfilled, EntryShut
<1>2. \E step \in {"cleanup", "exit"} : Go(g, step)
  BY ZenonT(40) DEF EnterCancelled
<1>3. o \in Orders /\ ord[o] \in InOutOrder /\ r \in Report /\ clock \in Nat /\ ord \in [Orders -> InOutOrder]
  BY <1>1, HandlerHolds DEF IInv, TypeOK
<1>4. od \in InOutOrder /\ KeepsTag(ord[o], od) /\ od.enter.oid = IF r.st = "canceled" THEN r.ex ELSE ord[o].enter.oid
  BY <1>3, EnterAnsweredType, EnterAnsweredTag, EnterAnsweredEffect DEF KeepsTag
<1> HIDE DEF od
<1>5. KeepsTag(od, last) /\ last.enter.oid = od.enter.oid
  BY <1>3, <1>4, EntryShutIs
<1> HIDE DEF last
<1>6. ord'[o] = last
  BY <1>1, <1>3
<1>7. KeepsTag(ord[o], last)
  BY <1>4, <1>5 DEF KeepsTag
<1> QED
  BY <1>1, <1>2, <1>4, <1>5, <1>6, <1>7, GoIs DEF exchange, Steps

LEMMA SubmitExitIs ==
  ASSUME IInv, NEW g \in Threads, SubmitExit(g)
  PROVE  LET o == run[g].od IN
         /\ run[g].at = "exit" /\ KeepsTag(ord[o], ord'[o]) /\ ord'[o].enter = ord[o].enter
         /\ \/ exo' = exo /\ ord'[o].status = ord[o].status /\ Moves(g, o, "save")
            \/ exo' = exo /\ ord[o].status # "FullExit" /\ Moves(g, o, "cleanup")
            \/ /\ ord[o].status # "FullExit" /\ ord'[o].status = ord[o].status
               /\ Moves(g, o, "exited") /\ (Created(g, o, "exit") \/ Refused(g))
<1> DEFINE o == run[g].od
           amt == IF ord[o].exit.amt = 0 THEN ord[o].enter.filled ELSE ord[o].exit.amt
           od == [ord[o] EXCEPT !.exit.amt = amt, !.status = IF amt = 0 THEN "FullExit" ELSE @]
<1>1. /\ run[g].at = "exit"
      /\ \/ Go(g, "save") /\ UNCHANGED <<ord, exchange>>
         \/ /\ ord[o].status # "FullExit" /\ ord' = [ord EXCEPT ![o] = od]
            /\ \/ amt = 0 /\ Go(g, "cleanup") /\ UNCHANGED exchange
               \/ amt # 0 /\ CreateOrder(g, o, "exit", amt, "exited")
  BY DEF SubmitExit, Become
<1>2. o \in Orders /\ ord[o] \in InOutOrder /\ ord \in [Orders -> InOutOrder] /\ TypeOK
  BY <1>1, HandlerHolds DEF IInv, TypeOK
<1>3. amt \in 0 .. Amount
  BY <1>2 DEF InOutOrder, SubOrder
<1>4. KeepsTag(ord[o], od) /\ od.enter = ord[o].enter /\ (amt # 0 => od.status = ord[o].status)
  BY <1>2 DEF InOutOrder, KeepsTag
<1> HIDE DEF amt, od
<1>5. CASE Go(g, "save") /\ UNCHANGED <<ord, exchange>>
  BY <1>1, <1>5, GoIs DEF exchange, Steps, KeepsTag
<1>6. CASE ord' = [ord EXCEPT ![o] = od] /\ ord[o].status # "FullExit" /\ amt = 0 /\ Go(g, "cleanup") /\ UNCHANGED exchange
  <2>1. ord'[o] = od
    BY <1>2, <1>6
  <2> QED
    BY <1>1, <1>4, <1>6, <2>1, GoIs DEF exchange, Steps
<1>7. CASE ord' = [ord EXCEPT ![o] = od] /\ ord[o].status # "FullExit" /\ amt # 0 /\ CreateOrder(g, o, "exit", amt, "exited")
  <2>1. ord'[o] = od
    BY <1>2, <1>7
  <2>2. Moves(g, o, "exited") /\ (Created(g, o, "exit") \/ Refused(g))
    BY <1>2, <1>3, <1>7, CreateOrderIs DEF Steps
  <2> QED
    BY <1>1, <1>4, <1>7, <2>1, <2>2
<1> QED
  BY <1>1, <1>5, <1>6, <1>7

LEMMA ExitSubmittedIs ==
  ASSUME IInv, NEW g \in Threads, ExitSubmitted(g)
  PROVE  LET o == run[g].od
             r == run[g].res IN
         /\ run[g].at = "exited" /\ exo' = exo /\ KeepsTag(ord[o], ord'[o])
         /\ ord'[o].enter.oid = ord[o].enter.oid
         /\ Moves(g, o, IF r.st = "err" THEN "save" ELSE "cleanup")
         /\ r.st # "err" /\ ord'[o].status = "FullExit" =>
              ord[o].status = "FullExit" \/ r.st = "reduceOnly" \/ IsOrderDone(r)
<1> DEFINE o == run[g].od
           r == run[g].res
           od == CASE r.st = "err" -> ord[o]
                   [] r.st = "reduceOnly" -> LocalExit(ord[o], clock)
                   [] OTHER -> ExitAnswered(ord[o], r)
<1>1. run[g].at = "exited" /\ UNCHANGED exchange /\ ord' = [ord EXCEPT ![o] = od]
  BY DEF ExitSubmitted, Become
<1>2. Go(g, IF r.st = "err" THEN "save" ELSE "cleanup")
  BY DEF ExitSubmitted
<1>3. o \in Orders /\ ord[o] \in InOutOrder /\ r \in Report /\ clock \in Nat /\ ord \in [Orders -> InOutOrder]
  BY <1>1, HandlerHolds DEF IInv, TypeOK
<1>4. ord'[o] = od
  BY <1>1, <1>3
<1>5. \/ r.st = "err" /\ od = ord[o]
      \/ r.st = "reduceOnly" /\ od = LocalExit(ord[o], clock)
      \/ od = ExitAnswered(ord[o], r)
  OBVIOUS
<1> HIDE DEF od
<1>6. LET new == ExitAnswered(ord[o], r) IN
      new.enter = ord[o].enter /\ (new.status = "FullExit" => ord[o].status = "FullExit" \/ IsOrderDone(r))
  BY <1>3 DEF ExitAnswered, InOutOrder
<1>7. KeepsTag(ord[o], od) /\ od.enter.oid = ord[o].enter.oid
  BY <1>3, <1>5, <1>6, LocalExitTag, LocalExitCloses, ExitAnsweredTag DEF KeepsTag
<1>8. Moves(g, o, IF r.st = "err" THEN "save" ELSE "cleanup")
  BY <1>2, GoIs DEF Steps
<1> QED
  BY <1>1, <1>4, <1>5, <1>6, <1>7, <1>8 DEF exchange

LEMMA EditTriggerIs ==
  ASSUME IInv, NEW g \in Threads, EditTrigger(g)
  PROVE  LET o == run[g].od IN
         /\ run[g].at = "stop" /\ ord'[o].enter = ord[o].enter /\ ord'[o].status = ord[o].status
         /\ ord'[o].exitTag = ord[o].exitTag /\ ord'[o].stop.oid = ord[o].stop.oid
         /\ \/ exo' = exo /\ Moves(g, o, "save")
            \/ /\ o \in Stops /\ ord[o].status # "FullExit"
               /\ Moves(g, o, "stopped") /\ (Created(g, o, "stop") \/ Refused(g))
<1> DEFINE o == run[g].od
           od == [ord[o] EXCEPT !.stop.old = TRUE]
<1>1. /\ run[g].at = "stop"
      /\ \/ Go(g, "save") /\ UNCHANGED <<ord, exchange>>
         \/ /\ o \in Stops /\ ord[o].status # "FullExit" /\ ord' = [ord EXCEPT ![o].stop.old = TRUE]
            /\ CreateOrder(g, o, "stop", ord[o].enter.amt, "stopped")
  BY DEF EditTrigger
<1>2. o \in Orders /\ ord[o] \in InOutOrder /\ ord \in [Orders -> InOutOrder] /\ TypeOK
  BY <1>1, HandlerHolds DEF IInv, TypeOK
<1>3. ord[o].enter.amt \in 0 .. Amount
  BY <1>2 DEF InOutOrder, SubOrder
<1>4. od.enter = ord[o].enter /\ od.status = ord[o].status /\ od.exitTag = ord[o].exitTag /\ od.stop.oid = ord[o].stop.oid
  BY <1>2 DEF InOutOrder, StopState
<1>5. CASE Go(g, "save") /\ UNCHANGED <<ord, exchange>>
  BY <1>1, <1>5, GoIs DEF exchange, Steps
<1>6. CASE /\ o \in Stops /\ ord[o].status # "FullExit" /\ ord' = [ord EXCEPT ![o].stop.old = TRUE]
           /\ CreateOrder(g, o, "stop", ord[o].enter.amt, "stopped")
  <2>1. ord' = [ord EXCEPT ![o] = od]
    BY <1>2, <1>6
  <2> HIDE DEF od
  <2>2. ord'[o] = od
    BY <1>2, <2>1
  <2>3. Moves(g, o, "stopped") /\ (Created(g, o, "stop") \/ Refused(g))
    BY <1>2, <1>3, <1>6, CreateOrderIs DEF Steps
  <2> QED
    BY <1>1, <1>4, <1>6, <2>2, <2>3
<1> QED
  BY <1>1, <1>5, <1>6

LEMMA TriggerPutIs ==
  ASSUME IInv, NEW g \in Threads, TriggerPut(g)
  PROVE  LET o == run[g].od
             r == run[g].res IN
         /\ run[g].at = "stopped" /\ ord'[o].enter = ord[o].enter /\ ord'[o].status = ord[o].status
         /\ ord[o].exitTag => ord'[o].exitTag
         /\ \/ /\ r.st \in {"immediate", "err"} /\ exo' = exo /\ ord'[o].stop.oid = ord[o].stop.oid
               /\ \E step \in {"exit", "save"} : Moves(g, o, step)
            \/ ord'[o].stop.oid = r.ex /\ StopCancelled(ord[o].stop.oid) /\ Moves(g, o, "save")
<1> DEFINE o == run[g].od
           r == run[g].res
           put == [ord[o] EXCEPT !.stop.oid = r.ex]
<1>1. /\ run[g].at = "stopped"
      /\ \/ /\ r.st = "immediate" /\ Go(g, "exit") /\ exo' = exo
            /\ \E now \in Now : ord' = [ord EXCEPT ![o] = SetExit(@, now)]
         \/ r.st = "err" /\ Go(g, "save") /\ ord' = ord /\ exo' = exo
         \/ /\ ord' = [ord EXCEPT ![o].stop.oid = r.ex]
            /\ StopCancelled(ord[o].stop.oid) /\ Go(g, "save")
  BY DEF TriggerPut
<1>2. o \in Orders /\ ord[o] \in InOutOrder /\ ord \in [Orders -> InOutOrder] /\ Now \subseteq Nat
  BY <1>1, HandlerHolds DEF IInv, TypeOK, Now
<1>3. CASE /\ r.st = "immediate" /\ Go(g, "exit") /\ exo' = exo
           /\ \E now \in Now : ord' = [ord EXCEPT ![o] = SetExit(@, now)]
  <2>1. PICK now \in Nat : ord' = [ord EXCEPT ![o] = SetExit(@, now)]
    BY <1>2, <1>3
  <2>2. ord'[o] = SetExit(ord[o], now)
    BY <1>2, <2>1
  <2>3. /\ ord'[o].enter = ord[o].enter /\ ord'[o].status = ord[o].status
        /\ ord[o].exitTag => ord'[o].exitTag /\ ord'[o].stop = ord[o].stop
        /\ ord'[o].stop = ord[o].stop
    BY <1>2, <2>2, SetExitKeeps, SetExitTag DEF KeepsTag
  <2>4. Moves(g, o, "exit")
    BY <1>3, GoIs DEF Steps
  <2> QED
    BY <1>1, <1>3, <2>3, <2>4
<1>4. CASE r.st = "err" /\ Go(g, "save") /\ ord' = ord /\ exo' = exo
  BY <1>1, <1>4, GoIs DEF Steps
<1>5. CASE /\ ord' = [ord EXCEPT ![o].stop.oid = r.ex]
           /\ StopCancelled(ord[o].stop.oid) /\ Go(g, "save")
  <2>1. put.enter = ord[o].enter /\ put.status = ord[o].status /\ put.exitTag = ord[o].exitTag /\ put.stop.oid = r.ex
    BY <1>2 DEF InOutOrder, StopState
  <2>2. ord' = [ord EXCEPT ![o] = put]
    BY <1>2, <1>5
  <2> HIDE DEF put
  <2>3. ord'[o] = put
    BY <1>2, <2>2
  <2> QED
    BY <1>1, <1>5, <2>1, <2>3, GoIs DEF Steps
<1> QED
  BY <1>1, <1>3, <1>4, <1>5

LEMMA CancelTriggerOdsIs ==
  ASSUME IInv, NEW g \in Threads, CancelTriggerOds(g)
  PROVE  LET o == run[g].od IN
         /\ run[g].at = "cleanup" /\ ord'[o].enter = ord[o].enter /\ ord'[o].status = ord[o].status
         /\ ord'[o].exitTag = ord[o].exitTag /\ ord'[o].stop.oid = 0
         /\ StopCancelled(ord[o].stop.oid) /\ Moves(g, o, "save")
<1> DEFINE o == run[g].od
           put == [ord[o] EXCEPT !.stop.oid = 0]
<1>1. run[g].at = "cleanup" /\ ord' = [ord EXCEPT ![o].stop.oid = 0] /\ StopCancelled(ord[o].stop.oid) /\ Go(g, "save")
  BY DEF CancelTriggerOds
<1>2. o \in Orders /\ ord[o] \in InOutOrder /\ ord \in [Orders -> InOutOrder]
  BY <1>1, HandlerHolds DEF IInv, TypeOK
<1>3. put.enter = ord[o].enter /\ put.status = ord[o].status /\ put.exitTag = ord[o].exitTag /\ put.stop.oid = 0
  BY <1>2 DEF InOutOrder, StopState
<1>4. ord' = [ord EXCEPT ![o] = put]
  BY <1>1, <1>2
<1> HIDE DEF put
<1>5. ord'[o] = put
  BY <1>2, <1>4
<1> QED
  BY <1>1, <1>3, <1>5, GoIs DEF Steps

LEMMA SaveUnlockIs ==
  ASSUME IInv, NEW g \in Threads, SaveUnlock(g)
  PROVE  /\ run[g].at = "save" /\ ord' = ord /\ exo' = exo /\ run'[g].at = "idle"
         /\ \A h \in Threads \ {g} : run'[h] = run[h]
<1>1. run[g].at = "save" /\ run' = [run EXCEPT ![g] = Idle] /\ ord' = ord /\ UNCHANGED exchange /\ Idle.at = "idle"
  BY DEF SaveUnlock, Idle
<1>2. run'[g] = Idle /\ \A h \in Threads \ {g} : run'[h] = run[h]
  BY <1>1 DEF IInv, TypeOK
<1> QED
  BY <1>1, <1>2 DEF exchange

LEMMA StopSpentIs ==
  ASSUME NEW od \in InOutOrder, NEW t
  PROVE  LET new == StopSpent(od, t) IN
         /\ new.status = od.status /\ new.enter = od.enter /\ new.exitTag = od.exitTag
         /\ new.stop.oid = od.stop.oid \/ (new.stop.oid = 0 /\ od.stop.oid = t.ex)
BY DEF StopSpent, InOutOrder, StopState

\* What a trade does to the order: the entry it closes is done, and so is the order it closes.
LEMMA ByMyTradeIs ==
  ASSUME NEW od \in InOutOrder, NEW t \in Report, NEW kind, NEW now \in Nat
  PROVE  LET new == ByMyTrade(od, kind, t, now) IN
         /\ new \in InOutOrder /\ KeepsTag(od, new) /\ new.enter.oid = od.enter.oid
         /\ new.enter.st = "Closed" => od.enter.st = "Closed" \/ (kind = "enter" /\ t.st \notin {"live"})
         /\ new.status = "FullExit" =>
              od.status = "FullExit" \/ (kind = "enter" /\ od.enter.st # "Closed") \/ (kind # "enter" /\ t.st = "filled")
<1> DEFINE new == ByMyTrade(od, kind, t, now)
<1>1. new \in InOutOrder /\ KeepsTag(od, new)
  BY ByMyTradeType, ByMyTradeTag
<1>2. CASE kind = "enter"
  <2>1. new = EnterTraded(od, t)
    BY <1>2 DEF ByMyTrade
  <2> HIDE DEF new
  <2>2. CASE Skipped(od.enter, t)
    <3>1. new = od
      BY <2>1, <2>2 DEF EnterTraded
    <3> QED
      BY <1>1, <2>2, <3>1 DEF new
  <2>3. CASE ~ Skipped(od.enter, t)
    <3>1. od.enter.st # "Closed"
      BY <2>3 DEF Skipped
    <3>2. new.enter = Traded(od.enter, t)
      BY <2>1, <2>3 DEF EnterTraded, InOutOrder
    <3>3. od.enter \in SubOrder
      BY DEF InOutOrder
    <3>4. Traded(od.enter, t).oid = od.enter.oid /\ (Traded(od.enter, t).st = "Closed" => t.st # "live")
      BY <3>3 DEF Traded, SubOrder
    <3> QED
      BY <1>1, <1>2, <3>1, <3>2, <3>4 DEF new
  <2> QED
    BY <2>2, <2>3
<1>3. CASE kind # "enter"
  <2>1. ASSUME NEW d \in InOutOrder
        PROVE  /\ ExitTraded(d, t).enter = d.enter
               /\ ExitTraded(d, t).status = "FullExit" => d.status = "FullExit" \/ t.st = "filled"
    BY DEF ExitTraded, InOutOrder
  <2>2. SetExit(od, now) \in InOutOrder /\ SetExit(od, now).status = od.status /\ SetExit(od, now).enter = od.enter
    BY SetExitType, SetExitKeeps
  <2>3. new \in {od, ExitTraded(od, t), ExitTraded(SetExit(od, now), t)}
    BY <1>3 DEF ByMyTrade
  <2> HIDE DEF new
  <2>4. new.enter = od.enter /\ (new.status = "FullExit" => od.status = "FullExit" \/ t.st = "filled")
    BY <2>1, <2>2, <2>3
  <2> QED
    BY <1>1, <1>3, <2>4 DEF new
<1> QED
  BY <1>2, <1>3

LEMMA UpdateByMyTradeIs ==
  ASSUME IInv, UpdateByMyTrade
  PROVE  LET o == run["trade"].od
             t == run["trade"].res
             kind == exo[t.ex].kind
             new == ord'[o] IN
         /\ run["trade"].at = "wait" /\ LockFree(o) /\ exo' = exo
         /\ \E step \in {"cleanup", "stop", "save"} : Moves("trade", o, step)
         /\ ord[o].exitTag => new.exitTag
         /\ new.enter.oid = ord[o].enter.oid
         /\ new.enter.st = "Closed" => EntryClosed(o) \/ (kind = "enter" /\ t.st # "live")
         /\ new.stop.oid = ord[o].stop.oid \/ (new.stop.oid = 0 /\ ord[o].stop.oid = t.ex)
         /\ new.status = "FullExit" =>
              \/ ord[o].status = "FullExit"
              \/ /\ Moves("trade", o, "cleanup")
                 /\ (kind = "enter" /\ ~ EntryClosed(o)) \/ (kind # "enter" /\ t.st = "filled")
<1> DEFINE o == run["trade"].od
           t == run["trade"].res
           kind == exo[t.ex].kind
           od(now) == ByMyTrade(ord[o], kind, t, now)
           closes(now) == od(now).status = "FullExit" /\ od(now) # ord[o]
           last(now) == IF closes(now) THEN StopSpent(od(now), t) ELSE od(now)
           step(now) == IF closes(now) THEN "cleanup"
                        ELSE IF last(now).status = "FullEnter" /\ last(now) # db[o] THEN "stop" ELSE "save"
<1>1. run["trade"].at = "wait" /\ LockFree(o) /\ exo' = exo
  BY DEF UpdateByMyTrade, exchange
<1>2. PICK now \in Now : ord' = [ord EXCEPT ![o] = last(now)] /\ Go("trade", step(now))
  BY ZenonT(40) DEF UpdateByMyTrade
<1>3. /\ now \in Nat /\ o \in Orders /\ ord[o] \in InOutOrder /\ t \in Report /\ "trade" \in Threads
      /\ ord \in [Orders -> InOutOrder]
  BY OrdersNamed, Kinds DEF IInv, TypeOK, Now, Threads, Work
<1>4. step(now) \in {"cleanup", "stop", "save"} /\ (closes(now) => step(now) = "cleanup")
  OBVIOUS
<1>5. ord'[o] = last(now)
  BY <1>2, <1>3
<1>6. /\ od(now) \in InOutOrder /\ KeepsTag(ord[o], od(now)) /\ od(now).enter.oid = ord[o].enter.oid
      /\ od(now).enter.st = "Closed" => EntryClosed(o) \/ (kind = "enter" /\ t.st # "live")
      /\ od(now).status = "FullExit" =>
           \/ ord[o].status = "FullExit" \/ (kind = "enter" /\ ~ EntryClosed(o)) \/ (kind # "enter" /\ t.st = "filled")
  BY <1>3, ByMyTradeIs DEF EntryClosed
<1>7. od(now).status = "FullExit" => ord[o].status = "FullExit" \/ closes(now)
  OBVIOUS
<1>8. last(now) \in {od(now), StopSpent(od(now), t)}
  OBVIOUS
<1> HIDE DEF od, closes, last, step, kind
<1>9. /\ last(now).status = od(now).status /\ last(now).enter = od(now).enter /\ last(now).exitTag = od(now).exitTag
      /\ last(now).stop.oid = od(now).stop.oid \/ (last(now).stop.oid = 0 /\ od(now).stop.oid = t.ex)
  BY <1>6, <1>8, StopSpentIs
<1>10. Moves("trade", o, step(now))
  BY <1>2, <1>3, <1>4, GoIs DEF Steps
<1>11. ord[o].exitTag => ord'[o].exitTag
  BY <1>5, <1>6, <1>9 DEF KeepsTag
<1>12. ord'[o].stop.oid = ord[o].stop.oid \/ (ord'[o].stop.oid = 0 /\ ord[o].stop.oid = t.ex)
  BY <1>5, <1>6, <1>9 DEF KeepsTag
<1>13. ord'[o].status = "FullExit" =>
              \/ ord[o].status = "FullExit"
              \/ /\ Moves("trade", o, "cleanup")
                 /\ (kind = "enter" /\ ~ EntryClosed(o)) \/ (kind # "enter" /\ t.st = "filled")
  BY <1>4, <1>5, <1>6, <1>7, <1>9, <1>10
<1>14. /\ ord'[o].enter.oid = ord[o].enter.oid
       /\ ord'[o].enter.st = "Closed" => EntryClosed(o) \/ (kind = "enter" /\ t.st # "live")
  BY <1>5, <1>6, <1>9
<1> QED
  BY <1>1, <1>4, <1>10, <1>11, <1>12, <1>13, <1>14 DEF kind

\* The exchange goes on, and what is made there belongs to that order.
MakesFor(o) ==
  /\ \A x \in DOMAIN exo : x \in DOMAIN exo' /\ GoesOn(x)
  /\ \A x \in DOMAIN exo' : x \in DOMAIN exo \/ exo'[x].od = o
\* What is queued was queued before.
StillAsked(p) ==
  \E k \in {0, 1} : \A i \in DOMAIN queue' : queue'[i].act = "Exit" /\ queue'[i].od = p =>
    i \in Nat /\ i + k \in DOMAIN queue /\ queue[i + k] = queue'[i]

LEMMA CallMakes ==
  ASSUME NEW g, NEW o, NEW kind, Created(g, o, kind) \/ Refused(g)
  PROVE  MakesFor(o)
<1>1. CASE Created(g, o, kind)
  BY <1>1 DEF Created, MakesFor, GoesOn
<1>2. CASE Refused(g)
  BY <1>2 DEF Refused, MakesFor, GoesOn
<1> QED
  BY <1>1, <1>2

LEMMA HandlerMakes ==
  ASSUME IInv, NEW g \in Threads, Handler(g)
  PROVE  MakesFor(run[g].od)
<1>1. OnlyGoesOn => MakesFor(run[g].od)
  BY DEF OnlyGoesOn, MakesFor
<1> QED
  BY <1>1, HandlerCalls, CallMakes

LEMMA QueueMakes ==
  ASSUME IInv, FillsInv, HandleOrderQueue
  PROVE  MakesFor(Head(queue).od)
<1>1. OnlyGoesOn \/ exo' = exo => MakesFor(Head(queue).od)
  BY DEF OnlyGoesOn, MakesFor, GoesOn
<1> QED
  BY <1>1, QueueCalls, CallMakes DEF exchange

LEMMA QueueSame ==
  ASSUME TypeOK, queue' = queue
  PROVE  \A p : StillAsked(p)
<1>1. \A i \in DOMAIN queue : i \in Nat /\ i + 0 = i
  BY DEF TypeOK
<1> QED
  BY <1>1 DEF StillAsked

LEMMA QueueTaken ==
  ASSUME TypeOK, HandleOrderQueue
  PROVE  \A p : StillAsked(p)
<1>1. \A i \in DOMAIN queue' : i \in Nat /\ i + 1 \in DOMAIN queue /\ queue'[i] = queue[i + 1]
  BY Dequeued DEF HandleOrderQueue
<1> QED
  BY <1>1 DEF StillAsked

\* The orders a handler does not work on.
LEMMA OthersKeepExits ==
  ASSUME IInv, NEW g \in Threads, NEW o \in Orders, Handles(g, o), MakesFor(o), exitReq' = exitReq,
         NEW p \in Orders \ {o}, StillAsked(p), ExitOnce(p)
  PROVE  ExitOnce(p)'
<1>1. ord'[p] = ord[p]
  BY DEF Handles
<1>2. \A h \in Threads : \A steps : "idle" \notin steps /\ NowAt(h, p, steps) => IsAt(h, p, steps)
  BY DEF Handles, NowAt, IsAt, NowHolds
<1>3. /\ ~ NowAt("trade", p, {"canceled", "exit", "exited", "stopped"}) /\ ~ NowAt("queue", p, {"stopped"})
      /\ NowAt("queue", p, {"canceled", "exit"}) => IsAt("queue", p, {"canceled", "exit"})
  BY <1>2 DEF ExitOnce, Threads
<1>4. \A x \in DOMAIN exo' : exo'[x].od = p /\ exo'[x].kind # "enter" =>
        x \in DOMAIN exo /\ exo[x].od = p /\ exo[x].kind = exo'[x].kind
  BY DEF MakesFor, GoesOn
<1> QED
  BY <1>1, <1>3, <1>4, NoNewExitStep DEF NoNewExit, StillAsked

\* A step of a handler on its own order: the exit tag stays, and an exit is only gone on to.
LEMMA HandlerKeepsTag ==
  ASSUME IInv, NEW g \in Threads, Handler(g)
  PROVE  LET o == run[g].od IN
         /\ ord[o].exitTag => ord'[o].exitTag
         /\ run'[g].at = "exit" => run[g].at \in {"canceled", "stopped"}
<1> DEFINE o == run[g].od
<1>1. CASE EnterSubmitted(g)
  BY <1>1, EnterSubmittedIs DEF KeepsTag, Moves
<1>2. CASE EnterCancelled(g)
  BY <1>2, EnterCancelledIs DEF KeepsTag, Moves
<1>3. CASE SubmitExit(g)
  BY <1>3, SubmitExitIs DEF KeepsTag, Moves
<1>4. CASE ExitSubmitted(g)
  BY <1>4, ExitSubmittedIs DEF KeepsTag, Moves
<1>5. CASE EditTrigger(g)
  BY <1>5, EditTriggerIs DEF Moves
<1>6. CASE TriggerPut(g)
  BY <1>6, TriggerPutIs DEF Moves
<1>7. CASE CancelTriggerOds(g)
  BY <1>7, CancelTriggerOdsIs DEF Moves
<1>8. CASE SaveUnlock(g)
  BY <1>8, SaveUnlockIs
<1> QED
  BY <1>1, <1>2, <1>3, <1>4, <1>5, <1>6, <1>7, <1>8 DEF Handler

LEMMA HandlerKeepsExits ==
  ASSUME IInv, NEW g \in Threads, Handler(g), NEW p \in Orders \ Stops, ExitOnce(p)
  PROVE  ExitOnce(p)'
<1> DEFINE o == run[g].od
<1>0. TypeOK /\ o \in Orders /\ Handles(g, o) /\ MakesFor(o) /\ UNCHANGED <<exitReq, queue>>
  <2>1. UNCHANGED <<exitReq, queue>>
    BY DEF Handler, EnterSubmitted, EnterCancelled, SubmitExit, ExitSubmitted, EditTrigger, TriggerPut,
           CancelTriggerOds, SaveUnlock
  <2> QED
    BY <2>1, HandlerHandles, HandlerMakes, OrdersNamed DEF IInv
<1>1. \A q : StillAsked(q)
  BY <1>0, QueueSame
<1>2. CASE p # o
  BY <1>0, <1>1, <1>2, OthersKeepExits
<1>3. ASSUME p = o PROVE ExitOnce(p)'
  <2>1. /\ ord[p].exitTag => ord'[p].exitTag
        /\ run'[g].at = "exit" => run[g].at \in {"canceled", "stopped"}
    BY <1>3, HandlerKeepsTag
  <2>2. g = "trade" => run[g].at \notin {"canceled", "exit", "exited", "stopped"}
    BY <1>3 DEF ExitOnce, IsAt
  <2>3. g = "queue" => run[g].at # "stopped"
    BY <1>3 DEF ExitOnce, IsAt
  <2>4. ASSUME /\ OnlyGoesOn /\ net' = net /\ \A h \in Threads \ {g} : run'[h] = run[h]
               /\ run'[g].at \in {"idle", "save", "stop", "cleanup", "exit"}
        PROVE  ExitOnce(p)'
    <3>1. /\ ~ NowAt("trade", p, {"canceled", "exit", "exited", "stopped"}) /\ ~ NowAt("queue", p, {"stopped"})
      BY <2>1, <2>2, <2>3, <2>4 DEF ExitOnce, NowAt, IsAt, Threads
    <3>2. NowAt("queue", p, {"canceled", "exit"}) => IsAt("queue", p, {"canceled", "exit"})
      BY <1>3, <2>1, <2>3, <2>4 DEF NowAt, IsAt, Threads
    <3>3. \A x \in DOMAIN exo' : x \in DOMAIN exo /\ exo[x].od = exo'[x].od /\ exo[x].kind = exo'[x].kind
      BY <2>4 DEF OnlyGoesOn, GoesOn
    <3> QED
      BY <1>0, <1>1, <2>1, <3>1, <3>2, <3>3, NoNewExitStep DEF NoNewExit, StillAsked
  <2>5. ASSUME run[g].at = "exit", Moves(g, o, "exited"), Created(g, o, "exit") \/ Refused(g)
        PROVE  ExitOnce(p)'
    <3>1. g = "queue"
      BY <2>2, <2>5 DEF Threads
    <3>2. IsAt("queue", p, {"canceled", "exit"})
      BY <1>3, <2>5, <3>1 DEF IsAt
    <3>3. /\ \A x \in DOMAIN exo : ~ IsExit(x, p) /\ ~ IsStop(x, p)
          /\ ord[p].exitTag /\ p \notin exitReq /\ \A i \in DOMAIN queue : ~ Asks(i, p)
      BY <3>2 DEF ExitOnce
    <3>4. ord'[p].exitTag /\ p \notin exitReq' /\ \A i \in DOMAIN queue' : ~ Asks(i, p)'
      BY <1>0, <2>1, <3>3 DEF Asks
    <3>5. \A x \in DOMAIN exo' : ~ IsStop(x, p)' /\ (IsExit(x, p)' => x = Len(exo) + 1)
      BY <2>5, <3>3 DEF Created, Refused, IsStop, IsExit
    <3>6. /\ ~ IsAt("trade", p, {"canceled", "exit", "exited", "stopped"})'
          /\ ~ IsAt("queue", p, {"canceled", "exit", "stopped"})'
      BY <2>5, <3>1 DEF ExitOnce, IsAt, Moves, Threads
    <3> QED
      BY <3>4, <3>5, <3>6 DEF ExitOnce, IsAt
  <2>6. ~ (run[g].at = "stop" /\ Moves(g, o, "stopped"))
    <3>1. ~ EditTrigger(g) \/ ~ Moves(g, o, "stopped")
      BY <1>3, EditTriggerIs DEF Moves
    <3> QED
      BY <3>1 DEF Handler, EnterSubmitted, EnterCancelled, SubmitExit, ExitSubmitted, TriggerPut,
           CancelTriggerOds, SaveUnlock
  <2> QED
    BY <2>4, <2>5, <2>6, HandlerCalls
<1> QED
  BY <1>2, <1>3

LEMMA QueueKeepsExits ==
  ASSUME IInv, FillsInv, HandleOrderQueue, NEW p \in Orders \ Stops, ExitOnce(p)
  PROVE  ExitOnce(p)'
<1> DEFINE o == Head(queue).od
           act == Head(queue).act
<1>0. /\ TypeOK /\ Handles("queue", o) /\ MakesFor(o) /\ "queue" \in Threads /\ o \in Orders
      /\ UNCHANGED <<ord, exitReq>> /\ run["queue"].at = "idle" /\ queue # <<>> /\ queue' = Tail(queue)
  <2>1. queue # <<>> /\ queue' = Tail(queue)
    BY DEF HandleOrderQueue
  <2> QED
    BY <2>1, HandleOrderQueueHandles, QueueMakes, QueueCalls DEF IInv, Threads
<1>1. /\ \A q : StillAsked(q)
      /\ 1 \in DOMAIN queue /\ Head(queue) = queue[1]
      /\ \A i \in DOMAIN queue' : i \in Nat /\ i + 1 \in DOMAIN queue /\ queue'[i] = queue[i + 1]
  BY <1>0, QueueTaken, Dequeued
<1>2. CASE p # o
  BY <1>0, <1>1, <1>2, OthersKeepExits
<1>3. \A h \in Threads \ {"queue"} : run'[h] = run[h]
  BY <1>0 DEF Handles
<1>4. ~ NowAt("trade", p, {"canceled", "exit", "exited", "stopped"})
  BY <1>3 DEF ExitOnce, NowAt, IsAt, Threads
<1>5. ASSUME p = o, Moves("queue", o, "save") \/ Moves("queue", o, "stop") \/ Moves("queue", o, "entered"),
             \A x \in DOMAIN exo' : exo'[x].od = p /\ exo'[x].kind # "enter" =>
               x \in DOMAIN exo /\ exo[x].od = p /\ exo[x].kind = exo'[x].kind
      PROVE  ExitOnce(p)'
  <2>1. ~ NowAt("queue", p, {"stopped", "canceled", "exit"})
    BY <1>5 DEF NowAt, Moves
  <2> QED
    BY <1>0, <1>1, <1>4, <1>5, <2>1, NoNewExitStep DEF NoNewExit, StillAsked, NowAt
<1>6. ASSUME p = o, act = "Exit", Moves("queue", o, "exit") \/ Moves("queue", o, "canceled"),
             OnlyGoesOn
      PROVE  ExitOnce(p)'
  <2>1. Asks(1, p)
    BY <1>1, <1>6 DEF Asks
  <2>2. /\ \A x \in DOMAIN exo : ~ IsExit(x, p) /\ ~ IsStop(x, p)
        /\ ord[p].exitTag /\ p \notin exitReq /\ \A i \in DOMAIN queue : Asks(i, p) => i = 1
    BY <1>1, <2>1 DEF ExitOnce
  <2>3. ord'[p].exitTag /\ p \notin exitReq' /\ \A x \in DOMAIN exo' : ~ IsExit(x, p)' /\ ~ IsStop(x, p)'
    BY <1>0, <1>6, <2>2 DEF OnlyGoesOn, GoesOn, IsExit, IsStop
  <2>4. \A i \in DOMAIN queue' : ~ Asks(i, p)'
    <3>1. \A i \in DOMAIN queue' : i \in Nat /\ i + 1 # 1
      <4>1. \A i \in DOMAIN queue' : i # 0
        BY <1>0
      <4> QED
        BY <1>1, <4>1
    <3> QED
      BY <1>1, <2>2, <3>1 DEF Asks
  <2>5. ~ IsAt("queue", p, {"stopped"})' /\ ~ IsAt("trade", p, {"canceled", "exit", "exited", "stopped"})'
    BY <1>4, <1>6 DEF IsAt, NowAt, Moves
  <2> QED
    BY <2>3, <2>4, <2>5 DEF ExitOnce
<1>7. ASSUME p = o PROVE ExitOnce(p)'
  <2>1. CASE UNCHANGED exchange
    BY <1>0, <1>5, <1>6, <1>7, <2>1, QueueCalls DEF exchange, OnlyGoesOn, GoesOn, Moves
  <2>2. CASE Moves("queue", o, "entered") /\ (Created("queue", o, "enter") \/ Refused("queue"))
    BY <1>5, <1>7, <2>2 DEF Created, Refused
  <2>3. CASE act = "Exit" /\ Moves("queue", o, "canceled") /\ OnlyGoesOn
    BY <1>6, <1>7, <2>3
  <2> QED
    BY <2>1, <2>2, <2>3, QueueCalls
<1> QED
  BY <1>2, <1>7

LEMMA QuietKeepsExits ==
  ASSUME TypeOK, queue' = queue, \A x \in DOMAIN exo' : x \in DOMAIN exo /\ exo[x].od = exo'[x].od /\ exo[x].kind = exo'[x].kind,
         NEW p \in Orders, ord[p].exitTag => ord'[p].exitTag, p \in exitReq' => p \in exitReq \/ ~ ord[p].exitTag,
         \A g \in Threads : run'[g] = run[g] \/ run'[g].at = "wait", ExitOnce(p)
  PROVE  ExitOnce(p)'
<1>1. StillAsked(p)
  BY QueueSame
<1>2. /\ ~ NowAt("trade", p, {"canceled", "exit", "exited", "stopped"}) /\ ~ NowAt("queue", p, {"stopped"})
      /\ NowAt("queue", p, {"canceled", "exit"}) => IsAt("queue", p, {"canceled", "exit"})
  BY DEF ExitOnce, NowAt, IsAt, Threads
<1> QED
  BY <1>1, <1>2, NoNewExitStep DEF NoNewExit, StillAsked

LEMMA TradeKeepsExits ==
  ASSUME IInv, UpdateByMyTrade, NEW p \in Orders, ExitOnce(p)
  PROVE  ExitOnce(p)'
<1> DEFINE o == run["trade"].od
<1>0. TypeOK /\ Handles("trade", o) /\ o \in Orders /\ "trade" \in Threads /\ exo' = exo /\ UNCHANGED <<exitReq, queue>>
      /\ (ord[o].exitTag => ord'[o].exitTag) /\ \E step \in {"cleanup", "stop", "save"} : Moves("trade", o, step)
  <2>1. UNCHANGED <<exitReq, queue>>
    BY DEF UpdateByMyTrade
  <2> QED
    BY <2>1, UpdateByMyTradeHandles, UpdateByMyTradeIs DEF IInv, Threads
<1>1. StillAsked(p) /\ MakesFor(o)
  BY <1>0, QueueSame DEF MakesFor, GoesOn
<1>2. CASE p # o
  BY <1>0, <1>1, <1>2, OthersKeepExits
<1>3. CASE p = o
  <2>1. /\ ~ NowAt("trade", p, {"canceled", "exit", "exited", "stopped"}) /\ ~ NowAt("queue", p, {"stopped"})
        /\ NowAt("queue", p, {"canceled", "exit"}) => IsAt("queue", p, {"canceled", "exit"})
    BY <1>0 DEF ExitOnce, NowAt, IsAt, Threads, Moves
  <2> QED
    BY <1>0, <1>1, <1>3, <2>1, NoNewExitStep DEF NoNewExit, StillAsked
<1> QED
  BY <1>2, <1>3

\* A new order: nothing of it is anywhere yet.
LEMMA EnterOrderIs ==
  ASSUME IInv, NEW o \in Orders, EnterOrder(o)
  PROVE  /\ \A x \in DOMAIN exo : exo[x].od # o
         /\ \A g \in Threads : ~ Holds(g, o)
         /\ \A i \in DOMAIN queue : queue[i].od # o
         /\ o \notin exitReq /\ ord'[o].exitTag = FALSE /\ ord'[o].status = "Init" /\ ord'[o].enter.st = "Init"
         /\ \A p \in Orders \ {o} : ord'[p] = ord[p]
         /\ queue' = Append(queue, [od |-> o, act |-> "Enter"]) /\ UNCHANGED <<exitReq, run, exchange>>
<1>1. /\ ord[o].status = "None" /\ UNCHANGED <<exitReq, run, exchange>>
      /\ queue' = Append(queue, [od |-> o, act |-> "Enter"])
      /\ ord' = [ord EXCEPT ![o] = [NoOrder EXCEPT !.status = "Init", !.enter = NewSub(Amount, clock)]]
  BY DEF EnterOrder
<1>2. ~ Opened(o) /\ ord \in [Orders -> InOutOrder]
  BY <1>1 DEF Opened, IInv, TypeOK
<1>3. /\ \A x \in DOMAIN exo : exo[x].od # o
      /\ \A i \in DOMAIN queue : queue[i].od # o
      /\ \A g \in Threads : ~ Holds(g, o)
      /\ o \notin exitReq
  BY <1>2 DEF IInv, OnlyOpened, Working, Holds
<1>4. ord'[o] = [NoOrder EXCEPT !.status = "Init", !.enter = NewSub(Amount, clock)] /\ \A p \in Orders \ {o} : ord'[p] = ord[p]
  BY <1>1, <1>2
<1>5. ord'[o].exitTag = FALSE /\ ord'[o].status = "Init" /\ ord'[o].enter.st = "Init"
  BY <1>4 DEF NoOrder, NewSub
<1> QED
  BY <1>1, <1>3, <1>4, <1>5

LEMMA StrategyKeepsExits ==
  ASSUME IInv, Strategy, NEW p \in Orders, ExitOnce(p)
  PROVE  ExitOnce(p)'
<1>0. TypeOK /\ exo' = exo /\ run' = run /\ ord \in [Orders -> InOutOrder]
  BY DEF IInv, TypeOK, Strategy, EnterOrder, ExitOrder, PostOrderExit, SetStopLoss, exchange
<1>1. ASSUME NEW o \in Orders, EnterOrder(o) PROVE ExitOnce(p)'
  <2>1. CASE p = o
    <3>1. queue \in Seq(OdQItem) /\ [od |-> o, act |-> "Enter"] \in OdQItem
      BY <1>0 DEF TypeOK, OdQItem
    <3>2. \A i \in DOMAIN queue' : ~ (queue'[i].act = "Exit" /\ queue'[i].od = o)
      <4>1. queue' = Append(queue, [od |-> o, act |-> "Enter"]) /\ \A i \in DOMAIN queue : queue[i].od # o
        BY <1>1, EnterOrderIs
      <4>2. \A i \in DOMAIN queue' : \/ i \in DOMAIN queue /\ queue'[i] = queue[i]
                                    \/ queue'[i] = [od |-> o, act |-> "Enter"]
        BY <1>0, <3>1, <4>1, Appended
      <4> QED
        BY <4>1, <4>2
    <3>3. \A i \in DOMAIN queue' : ~ Asks(i, p)'
      BY <2>1, <3>2 DEF Asks
    <3>4. \A x \in DOMAIN exo' : ~ IsExit(x, p)' /\ ~ IsStop(x, p)'
      BY <1>0, <1>1, <2>1, EnterOrderIs DEF IsExit, IsStop
    <3>5. \A g \in Threads : \A steps : steps \cap {"idle", "wait"} = {} => ~ IsAt(g, p, steps)'
      BY <1>0, <1>1, <2>1, EnterOrderIs DEF IsAt, Holds
    <3> QED
      BY <3>3, <3>4, <3>5 DEF ExitOnce, Threads
  <2>2. CASE p # o
    <3>1. queue \in Seq(OdQItem) /\ [od |-> o, act |-> "Enter"] \in OdQItem
      BY <1>0 DEF TypeOK, OdQItem
    <3>2. ord'[p] = ord[p] /\ exitReq' = exitReq /\ queue' = Append(queue, [od |-> o, act |-> "Enter"])
      BY <1>1, <2>2, EnterOrderIs
    <3>3. \A i \in DOMAIN queue' : queue'[i].act = "Exit" => i \in Nat /\ i + 0 \in DOMAIN queue /\ queue[i + 0] = queue'[i]
      BY <1>0, <3>1, <3>2, Appended
    <3>4. StillAsked(p)
      BY <3>3 DEF StillAsked
    <3>5. /\ ~ NowAt("trade", p, {"canceled", "exit", "exited", "stopped"}) /\ ~ NowAt("queue", p, {"stopped"})
          /\ NowAt("queue", p, {"canceled", "exit"}) => IsAt("queue", p, {"canceled", "exit"})
      BY <1>0 DEF ExitOnce, NowAt, IsAt
    <3> QED
      BY <1>0, <3>2, <3>4, <3>5, NoNewExitStep DEF NoNewExit, StillAsked
  <2> QED
    BY <2>1, <2>2
<1>2. ASSUME NEW o \in Orders, ExitOrder(o) PROVE ExitOnce(p)'
  <2>1. ~ ord[o].exitTag /\ exitReq' = exitReq \cup {o} /\ ord' = ord /\ queue' = queue
    BY <1>2 DEF ExitOrder, Exitable
  <2> QED
    BY <1>0, <2>1, QuietKeepsExits
<1>3. ASSUME NEW o \in Orders, PostOrderExit(o) PROVE ExitOnce(p)'
  <2>1. /\ o \in exitReq /\ exitReq' = exitReq \ {o} /\ queue' = Append(queue, [od |-> o, act |-> "Exit"])
        /\ \E now \in Now : ord' = [ord EXCEPT ![o] = SetExit(@, now)]
    BY <1>3 DEF PostOrderExit
  <2>2. queue \in Seq(OdQItem) /\ [od |-> o, act |-> "Exit"] \in OdQItem
    BY <1>0 DEF TypeOK, OdQItem
  <2>3. ord'[o].exitTag /\ \A q \in Orders \ {o} : ord'[q] = ord[q]
    BY <1>0, <2>1 DEF SetExit, InOutOrder
  <2>4. CASE p = o
    <3>1. ~ IsAt("queue", p, {"canceled", "exit"}) /\ (\A i \in DOMAIN queue : ~ Asks(i, p)) /\ \A x \in DOMAIN exo : ~ IsExit(x, p)
      BY <2>1, <2>4 DEF ExitOnce
    <3>2. \A i \in DOMAIN queue' : Asks(i, p)' => i \notin DOMAIN queue
      <4>1. \A i \in DOMAIN queue' : i \in DOMAIN queue => queue'[i] = queue[i]
        BY <1>0, <2>1, <2>2, Appended
      <4> QED
        BY <3>1, <4>1 DEF Asks
    <3>3. \A i, j \in DOMAIN queue' : i \notin DOMAIN queue /\ j \notin DOMAIN queue => i = j
      <4>1. \A i, j \in DOMAIN queue' : i \notin DOMAIN queue => j <= i
        BY <1>0, <2>1, <2>2, Appended
      <4>2. \A i \in DOMAIN queue' : i \in Nat
        BY <1>0, <2>1, <2>2, Appended
      <4> QED
        BY <4>1, <4>2
    <3>4. \A g \in Threads : \A steps : IsAt(g, p, steps)' = IsAt(g, p, steps)
      BY <1>0 DEF IsAt
    <3>5. \A x \in DOMAIN exo' : x \in DOMAIN exo /\ IsExit(x, p)' = IsExit(x, p) /\ IsStop(x, p)' = IsStop(x, p)
      BY <1>0 DEF IsExit, IsStop
    <3>6. ord'[p].exitTag /\ p \notin exitReq'
      BY <2>1, <2>3, <2>4
    <3> QED
      BY <3>1, <3>2, <3>3, <3>4, <3>5, <3>6 DEF ExitOnce, Threads
  <2>5. CASE p # o
    <3>1. \A i \in DOMAIN queue' : queue'[i].od = p => i \in Nat /\ i + 0 \in DOMAIN queue /\ queue[i + 0] = queue'[i]
      BY <1>0, <2>1, <2>2, <2>5, Appended
    <3>2. StillAsked(p)
      BY <3>1 DEF StillAsked
    <3>3. /\ ~ NowAt("trade", p, {"canceled", "exit", "exited", "stopped"}) /\ ~ NowAt("queue", p, {"stopped"})
          /\ NowAt("queue", p, {"canceled", "exit"}) => IsAt("queue", p, {"canceled", "exit"})
      BY <1>0 DEF ExitOnce, NowAt, IsAt
    <3> QED
      BY <1>0, <2>1, <2>3, <2>5, <3>2, <3>3, NoNewExitStep DEF NoNewExit, StillAsked
  <2> QED
    BY <2>4, <2>5
<1>4. ASSUME NEW o \in Orders, SetStopLoss(o) PROVE ExitOnce(p)'
  <2>1. /\ exitReq' = exitReq /\ queue' = Append(queue, [od |-> o, act |-> "StopLoss"])
        /\ ord' = [ord EXCEPT ![o].stop.old = FALSE, ![o].stop.edits = @ + 1]
    BY <1>4 DEF SetStopLoss
  <2>2. queue \in Seq(OdQItem) /\ [od |-> o, act |-> "StopLoss"] \in OdQItem
    BY <1>0 DEF TypeOK, OdQItem
  <2>3. ord'[p].exitTag = ord[p].exitTag
    BY <1>0, <2>1 DEF InOutOrder
  <2>4. \A i \in DOMAIN queue' : queue'[i].act = "Exit" => i \in Nat /\ i + 0 \in DOMAIN queue /\ queue[i + 0] = queue'[i]
    BY <1>0, <2>1, <2>2, Appended
  <2>5. StillAsked(p)
    BY <2>4 DEF StillAsked
  <2>6. /\ ~ NowAt("trade", p, {"canceled", "exit", "exited", "stopped"}) /\ ~ NowAt("queue", p, {"stopped"})
        /\ NowAt("queue", p, {"canceled", "exit"}) => IsAt("queue", p, {"canceled", "exit"})
    BY <1>0 DEF ExitOnce, NowAt, IsAt
  <2> QED
    BY <1>0, <2>1, <2>3, <2>5, <2>6, NoNewExitStep DEF NoNewExit, StillAsked
<1> QED
  BY <1>1, <1>2, <1>3, <1>4 DEF Strategy

LEMMA NextKeepsExits == IInv /\ FillsInv /\ ExitsInv /\ [Next]_vars => ExitsInv'
<1> SUFFICES ASSUME IInv, FillsInv, [Next]_vars, NEW p \in Orders \ Stops, ExitOnce(p)
             PROVE  ExitOnce(p)'
  BY DEF ExitsInv
<1>0. TypeOK
  BY DEF IInv
<1>1. CASE Strategy
  BY <1>1, StrategyKeepsExits
<1>2. CASE HandleOrderQueue
  BY <1>2, QueueKeepsExits
<1>3. ASSUME NEW t \in net, HandleMyTrade(t) PROVE ExitOnce(p)'
  <2>1. exo' = exo /\ UNCHANGED <<ord, exitReq, queue>>
    BY <1>3 DEF HandleMyTrade
  <2>2. run' = run \/ \E o : run' = [run EXCEPT !["trade"] = [at |-> "wait", od |-> o, res |-> t]]
    BY <1>3 DEF HandleMyTrade
  <2>3. \A h \in Threads : run'[h] = run[h] \/ run'[h].at = "wait"
    BY <1>0, <2>2 DEF TypeOK
  <2> QED
    BY <1>0, <2>1, <2>3, QuietKeepsExits
<1>4. CASE UpdateByMyTrade
  BY <1>4, TradeKeepsExits
<1>5. ASSUME NEW g \in Threads, Handler(g) PROVE ExitOnce(p)'
  BY <1>5, HandlerKeepsExits
<1>6. CASE Exchange
  <2>1. OnlyGoesOn /\ UNCHANGED local
    BY <1>6, HappensIs
  <2> QED
    BY <1>0, <2>1, QuietKeepsExits DEF OnlyGoesOn, GoesOn, local
<1>7. CASE UNCHANGED vars
  BY <1>0, <1>7, QuietKeepsExits DEF vars
<1> QED
  BY <1>1, <1>2, <1>3, <1>4, <1>5, <1>6, <1>7 DEF Next

LEMMA InitExits == Init => ExitsInv
<1> SUFFICES ASSUME Init, NEW o \in Orders PROVE ExitOnce(o)
  BY DEF ExitsInv
<1>1. DOMAIN exo = {} /\ DOMAIN queue = {} /\ \A g \in Threads : run[g].at = "idle"
  BY DEF Init, Idle
<1> QED
  BY <1>1 DEF ExitOnce, IsAt, Threads

\* An exit is asked for in one place only and sent to the exchange once for an order
\* without a stop loss, whatever calls fail and whatever the exchange cancels
\* (the ExitTag of ExitOrder; submitExgOrder does not look whether it was sent before).
THEOREM ExitsHold == Spec => []ExitsInv
<1> QED
  BY InitExits, NextKeepsExits, InvariantHolds, FillsAgree, PTL DEF Spec

\* The exit of an order without a stop loss is sent to the exchange at most once, whatever
\* calls fail, whatever the exchange cancels and whichever handler sends it.
THEOREM ExitSentOnce == Spec => [](\A o \in Orders \ Stops : \A x, y \in ExgOrdersOf(o, "exit") : x = y)
<1>1. ExitsInv => \A o \in Orders \ Stops : \A x, y \in ExgOrdersOf(o, "exit") : x = y
  BY DEF ExitsInv, ExitOnce, IsExit, ExgOrdersOf
<1> QED
  BY <1>1, ExitsHold, PTL

(* A closed order leaves nothing at the exchange *)

Calls == {"entered", "canceled", "exited", "stopped", "cleanup"}

\* Nothing the invariant looks at happens to p; its orders at the exchange only go on.
LEMMA SameSettled ==
  ASSUME NEW p \in Orders, Settled(p),
         ord'[p].status = ord[p].status, ord'[p].enter = ord[p].enter, ord'[p].stop.oid = ord[p].stop.oid,
         \A g \in Threads : IsAt(g, p, Calls) \/ NowAt(g, p, Calls) => run'[g] = run[g],
         \A x \in DOMAIN exo' : exo'[x].od = p => x \in DOMAIN exo /\ GoesOn(x)
  PROVE  Settled(p)'
<1>1. \A x \in DOMAIN exo' : /\ EntryOf(x, p)' => EntryOf(x, p) /\ x \in DOMAIN exo
                             /\ IsExit(x, p)' => IsExit(x, p) /\ x \in DOMAIN exo
                             /\ Resting(x, p)' => Resting(x, p) /\ x \in DOMAIN exo
                             /\ exo'[x].od = p => x \in DOMAIN exo /\ exo[x].od = p /\ exo'[x].kind = exo[x].kind
                             /\ exo'[x].od = p /\ exo'[x].st = "live" => exo[x].st = "live"
  BY DEF GoesOn, EntryOf, IsExit, Resting, IsStop
<1>2. \A g \in Threads : \A steps \in SUBSET Calls : IsAt(g, p, steps)' => IsAt(g, p, steps) /\ run'[g] = run[g]
  BY DEF IsAt, NowAt
<1>3. \A g \in Threads : \A steps \in SUBSET Calls : IsAt(g, p, steps) => IsAt(g, p, steps)' /\ run'[g] = run[g]
  BY DEF IsAt
<1>4. {"entered"} \in SUBSET Calls /\ {"canceled"} \in SUBSET Calls /\ {"exited"} \in SUBSET Calls
      /\ {"stopped"} \in SUBSET Calls /\ {"cleanup"} \in SUBSET Calls
  BY DEF Calls
<1>5. EntryClosed(p)' => \A x \in DOMAIN exo' : EntryOf(x, p)' => exo'[x].st # "live"
  <2>1. \A x \in DOMAIN exo' : EntryOf(x, p)' => exo'[x].od = p
    BY DEF EntryOf
  <2> QED
    BY <1>1, <2>1 DEF Settled, EntryClosed
<1>6. \A g \in Threads : IsAt(g, p, {"canceled"})' =>
        \A x \in DOMAIN exo' : exo'[x].od = p => exo'[x].kind = "enter" /\ exo'[x].st # "live"
  BY <1>1, <1>2, <1>4 DEF Settled
<1>7. \A x \in DOMAIN exo' : EntryOf(x, p)' =>
        ord'[p].enter.oid = x \/ \E g \in Threads : IsAt(g, p, {"entered"})' /\ run'[g].res.ex = x
  BY <1>1, <1>3, <1>4 DEF Settled
<1>8. p \notin Stops /\ ord'[p].status = "FullExit" =>
        \A x \in DOMAIN exo' : IsExit(x, p)' => exo'[x].st # "live"
  <2>1. \A x \in DOMAIN exo' : IsExit(x, p)' => exo'[x].od = p
    BY DEF IsExit
  <2> QED
    BY <1>1, <2>1 DEF Settled
<1>9. p \notin Stops => \A g \in Threads : IsAt(g, p, {"exited"})' =>
        \A x \in DOMAIN exo' : IsExit(x, p)' => x = run'[g].res.ex
  BY <1>1, <1>2, <1>4 DEF Settled
<1>10. \A x \in DOMAIN exo' : Resting(x, p)' =>
         ord'[p].stop.oid = x \/ \E g \in Threads : IsAt(g, p, {"stopped"})' /\ run'[g].res.ex = x
  BY <1>1, <1>3, <1>4 DEF Settled
<1>11. ord'[p].status = "FullExit" /\ (\E x \in DOMAIN exo' : Resting(x, p)') =>
         \E g \in Threads : IsAt(g, p, {"cleanup"})'
  BY <1>1, <1>3, <1>4 DEF Settled
<1>12. \A g \in Threads : IsAt(g, p, {"stopped"})' => ord'[p].status # "FullExit"
  BY <1>2, <1>4 DEF Settled
<1> QED
  BY <1>5, <1>6, <1>7, <1>8, <1>9, <1>10, <1>11, <1>12 DEF Settled

\* The orders a handler does not work on.
LEMMA OthersSettled ==
  ASSUME NEW g \in Threads, NEW o \in Orders, Handles(g, o), MakesFor(o),
         NEW p \in Orders \ {o}, Settled(p)
  PROVE  Settled(p)'
<1>1. ord'[p] = ord[p]
  BY DEF Handles
<1>2. ~ NowAt(g, p, Calls) /\ ~ IsAt(g, p, Calls)
  BY DEF Handles, NowAt, IsAt, NowHolds, Holds, Calls
<1>3. \A h \in Threads : IsAt(h, p, Calls) \/ NowAt(h, p, Calls) => run'[h] = run[h]
  BY <1>2 DEF Handles
<1>4. \A x \in DOMAIN exo' : exo'[x].od = p => x \in DOMAIN exo /\ GoesOn(x)
  BY DEF MakesFor
<1> QED
  BY <1>1, <1>3, <1>4, SameSettled

LEMMA Alone ==
  ASSUME IInv, NEW g \in Threads, NEW o \in Orders, Holds(g, o) \/ LockFree(o), ord[o].status # "FullExit"
  PROVE  \A h \in Threads \ {g} : ~ Holds(h, o)
BY SharedOnlyWhenClosed

\* The other handler is where it was, on the order too.
LEMMA OthersAt ==
  ASSUME NEW g, NEW o, NEW p, NEW step, Moves(g, p, step)
  PROVE  \A h \in Threads \ {g} : \A steps : /\ run'[h] = run[h]
                                             /\ IsAt(h, o, steps)' = IsAt(h, o, steps)
BY DEF Moves, IsAt

LEMMA EnterSubmittedSettled ==
  ASSUME IInv, FillsInv, ReportsTell, NoCallFails, NEW g \in Threads, EnterSubmitted(g),
         NEW o \in Orders, run[g].od = o, Settled(o)
  PROVE  Settled(o)'
<1> DEFINE r == run[g].res
<1>1. /\ run[g].at = "entered" /\ exo' = exo
      /\ \E step \in {"save", "stop"} : Moves(g, o, step)
      /\ ord'[o].stop = ord[o].stop
  BY EnterSubmittedIs DEF KeepsTag
<1>2. r.st # "err"
  BY <1>1 DEF NoCallFails
<1>3. ord'[o].enter.oid = r.ex /\ (ord'[o].enter.st = "Closed" => EntryClosed(o) \/ IsOrderDone(r))
  BY <1>2, EnterSubmittedIs
<1>4. EntryOf(r.ex, o) /\ r \in Heard /\ r.ex # 0
  BY <1>1, <1>2, Kinds DEF FillsInv, EntriesKnown, IInv, EntryOf
<1>5. o \in Orders /\ Holds(g, o) /\ Untouched(o) /\ ~ EntryClosed(o)
  BY <1>1, HandlerHolds DEF IInv, LockedUntilClosed, Untouched, EntryClosed
<1>6. \A x \in DOMAIN exo : exo[x].od = o => exo[x].kind = "enter"
  BY <1>5 DEF IInv, EntryClosedFirst
<1>7. \A x \in DOMAIN exo : EntryOf(x, o) => x = r.ex
  BY <1>4 DEF FillsInv, EntriesKnown, EntryOf
<1>8. \A h \in Threads \ {g} : ~ Holds(h, o)
  BY <1>5, Alone DEF Untouched
<1>9. \A h \in Threads : ~ IsAt(h, o, Calls)'
  BY <1>1, <1>8 DEF IsAt, Calls, Moves, Holds
<1>10. IsOrderDone(r) => exo[r.ex].st # "live"
  BY <1>4 DEF ReportsTell, IsOrderDone
<1>11. \A x \in DOMAIN exo' : ~ IsExit(x, o)' /\ ~ Resting(x, o)' /\ EntryOf(x, o)' = EntryOf(x, o)
  BY <1>1, <1>6 DEF IsExit, Resting, IsStop, EntryOf
<1>12. EntryClosed(o)' => \A x \in DOMAIN exo' : EntryOf(x, o)' => exo'[x].st # "live"
  BY <1>1, <1>3, <1>5, <1>7, <1>10, <1>11 DEF EntryClosed
<1>13. \A x \in DOMAIN exo' : EntryOf(x, o)' => ord'[o].enter.oid = x
  BY <1>1, <1>3, <1>7, <1>11
<1> QED
  BY <1>9, <1>11, <1>12, <1>13 DEF Settled, IsAt, Calls

LEMMA EnterCancelledSettled ==
  ASSUME IInv, FillsInv, NEW g \in Threads, EnterCancelled(g),
         NEW o \in Orders, run[g].od = o, Settled(o)
  PROVE  Settled(o)'
<1> DEFINE r == run[g].res
<1>1. /\ run[g].at = "canceled" /\ exo' = exo
      /\ \E step \in {"cleanup", "exit"} : Moves(g, o, step)
      /\ ord'[o].enter.oid = IF r.st = "canceled" THEN r.ex ELSE ord[o].enter.oid
  BY EnterCancelledIs
<1>2. IsAt(g, o, {"canceled"}) /\ Holds(g, o)
  BY <1>1 DEF IsAt, Holds
<1>3. \A x \in DOMAIN exo : exo[x].od = o => exo[x].kind = "enter" /\ exo[x].st # "live"
  BY <1>2 DEF Settled
<1>4. ord[o].status # "FullExit"
  BY <1>1 DEF IInv, LockedUntilClosed
<1>5. \A h \in Threads \ {g} : ~ Holds(h, o)
  BY <1>2, <1>4, Alone
<1>6. \A h \in Threads : ~ IsAt(h, o, {"entered", "canceled", "exited", "stopped"})'
  BY <1>1, <1>5 DEF IsAt, Moves, Holds
<1>7. \A x \in DOMAIN exo' : ~ IsExit(x, o)' /\ ~ Resting(x, o)' /\ EntryOf(x, o)' = EntryOf(x, o)
  BY <1>1, <1>3 DEF IsExit, Resting, IsStop, EntryOf
<1>8. \A x \in DOMAIN exo' : EntryOf(x, o)' => exo'[x].st # "live"
  BY <1>1, <1>3 DEF EntryOf
<1>9. \A x \in DOMAIN exo' : EntryOf(x, o)' => ord'[o].enter.oid = x
  <2>1. \A h \in Threads : ~ IsAt(h, o, {"entered"})
    BY <1>1, <1>5 DEF IsAt, Holds
  <2>2. \A x \in DOMAIN exo : EntryOf(x, o) => ord[o].enter.oid = x
    BY <2>1 DEF Settled
  <2>3. r.st = "canceled" => EntryOf(r.ex, o)
    BY <1>1 DEF FillsInv, EntriesKnown
  <2>4. r.st = "canceled" => \A x \in DOMAIN exo : EntryOf(x, o) => x = r.ex
    BY <2>3 DEF FillsInv, EntriesKnown, EntryOf
  <2> QED
    BY <1>1, <1>7, <2>2, <2>4
<1> QED
  BY <1>6, <1>7, <1>8, <1>9 DEF Settled, IsAt

LEMMA SubmitExitSettled ==
  ASSUME IInv, NEW g \in Threads, SubmitExit(g),
         NEW o \in Orders, run[g].od = o, Settled(o), o \in Stops \/ ExitOnce(o)
  PROVE  Settled(o)'
<1>1. /\ run[g].at = "exit" /\ ord'[o].enter = ord[o].enter /\ ord'[o].stop.oid = ord[o].stop.oid
      /\ \/ exo' = exo /\ ord'[o].status = ord[o].status /\ Moves(g, o, "save")
         \/ exo' = exo /\ ord[o].status # "FullExit" /\ Moves(g, o, "cleanup")
         \/ /\ ord[o].status # "FullExit" /\ ord'[o].status = ord[o].status
            /\ Moves(g, o, "exited") /\ (Created(g, o, "exit") \/ Refused(g))
  BY SubmitExitIs DEF KeepsTag
<1>2. Holds(g, o) /\ EntryClosed(o)
  BY <1>1 DEF Holds, IInv, EntryClosedFirst
<1>3. o \notin Stops => \A x \in DOMAIN exo : ~ IsExit(x, o)
  <2>1. g = "trade" => o \in Stops
    BY <1>1 DEF ExitOnce, IsAt
  <2>2. g = "queue" => IsAt("queue", o, {"canceled", "exit"})
    BY <1>1 DEF IsAt
  <2> QED
    BY <2>1, <2>2 DEF ExitOnce, Threads
<1>4. CASE exo' = exo /\ ord'[o].status = ord[o].status /\ Moves(g, o, "save")
  <2>1. \A h \in Threads : IsAt(h, o, Calls) \/ NowAt(h, o, Calls) => run'[h] = run[h]
    BY <1>1, <1>4 DEF IsAt, NowAt, Moves, Calls
  <2> QED
    BY <1>1, <1>4, <2>1, SameSettled DEF GoesOn
<1>5. CASE exo' = exo /\ ord[o].status # "FullExit" /\ Moves(g, o, "cleanup")
  <2>1. \A h \in Threads \ {g} : ~ Holds(h, o)
    BY <1>2, <1>5, Alone
  <2>2. /\ \A h \in Threads : ~ IsAt(h, o, {"entered", "canceled", "exited", "stopped"})'
        /\ \A h \in Threads : ~ IsAt(h, o, {"entered", "canceled", "exited", "stopped"})
    BY <1>1, <1>5, <2>1 DEF IsAt, Moves, Holds
  <2>3. \A x \in DOMAIN exo' : /\ EntryOf(x, o)' = EntryOf(x, o) /\ IsExit(x, o)' = IsExit(x, o)
                               /\ Resting(x, o)' = Resting(x, o)
    BY <1>5 DEF EntryOf, IsExit, Resting, IsStop
  <2>4. \A x \in DOMAIN exo' : EntryOf(x, o)' => exo'[x].st # "live" /\ ord'[o].enter.oid = x
    BY <1>1, <1>2, <1>5, <2>2, <2>3 DEF Settled, IsAt
  <2>5. \A x \in DOMAIN exo' : Resting(x, o)' => ord'[o].stop.oid = x
    BY <1>1, <1>5, <2>2, <2>3 DEF Settled, IsAt
  <2>6. o \notin Stops => \A x \in DOMAIN exo' : ~ IsExit(x, o)'
    BY <1>3, <1>5, <2>3
  <2>7. IsAt(g, o, {"cleanup"})'
    BY <1>5 DEF IsAt, Moves
  <2> QED
    BY <2>2, <2>4, <2>5, <2>6, <2>7 DEF Settled, IsAt
<1>6. CASE /\ ord[o].status # "FullExit" /\ ord'[o].status = ord[o].status
           /\ Moves(g, o, "exited") /\ (Created(g, o, "exit") \/ Refused(g))
  <2>1. \A h \in Threads \ {g} : ~ Holds(h, o)
    BY <1>2, <1>6, Alone
  <2>2. /\ \A h \in Threads : ~ IsAt(h, o, {"entered", "canceled", "stopped"})'
        /\ \A h \in Threads : IsAt(h, o, {"exited"})' => h = g
        /\ \A h \in Threads : ~ IsAt(h, o, {"entered", "canceled", "stopped"})
    BY <1>1, <1>6, <2>1 DEF IsAt, Moves, Holds
  <2>3. \A x \in DOMAIN exo' : \/ /\ x \in DOMAIN exo /\ exo'[x] = exo[x]
                               \/ exo'[x].kind = "exit" /\ x = run'[g].res.ex
    BY <1>6 DEF Created, Refused
  <2>4. \A x \in DOMAIN exo' : EntryOf(x, o)' => EntryOf(x, o) /\ exo'[x] = exo[x]
    BY <2>3 DEF EntryOf
  <2>5. \A x \in DOMAIN exo' : Resting(x, o)' => x \in DOMAIN exo /\ Resting(x, o)
    BY <2>3 DEF Resting, IsStop
  <2>6. o \notin Stops => \A x \in DOMAIN exo' : IsExit(x, o)' => x = run'[g].res.ex
    BY <1>3, <2>3 DEF IsExit
  <2>7. \A x \in DOMAIN exo' : EntryOf(x, o)' => exo'[x].st # "live" /\ ord'[o].enter.oid = x
    <3>1. \A x \in DOMAIN exo : EntryOf(x, o) => exo[x].st # "live" /\ ord[o].enter.oid = x
      BY <1>2, <2>2 DEF Settled, IsAt
    <3>2. \A x : EntryOf(x, o) => x \in DOMAIN exo
      BY DEF EntryOf
    <3> QED
      BY <1>1, <2>4, <3>1, <3>2
  <2>8. \A x \in DOMAIN exo' : Resting(x, o)' => ord'[o].stop.oid = x
    BY <1>1, <2>2, <2>5 DEF Settled, IsAt
  <2> QED
    BY <1>6, <2>2, <2>6, <2>7, <2>8 DEF Settled, IsAt
<1> QED
  BY <1>1, <1>4, <1>5, <1>6

LEMMA ExitSubmittedSettled ==
  ASSUME IInv, ReportsTell, NoCallFails, NEW g \in Threads, ExitSubmitted(g),
         NEW o \in Orders, run[g].od = o, Settled(o)
  PROVE  Settled(o)'
<1> DEFINE r == run[g].res
<1>0. run[g].at = "exited" /\ r.st # "err"
  BY ExitSubmittedIs DEF NoCallFails
<1>1. /\ exo' = exo /\ Moves(g, o, "cleanup")
      /\ ord'[o].enter.oid = ord[o].enter.oid /\ ord'[o].stop.oid = ord[o].stop.oid
      /\ ord'[o].status = "FullExit" => ord[o].status = "FullExit" \/ r.st = "reduceOnly" \/ IsOrderDone(r)
  BY <1>0, ExitSubmittedIs DEF KeepsTag
<1>2. Holds(g, o) /\ EntryClosed(o) /\ ord[o].status # "FullExit"
  BY <1>0 DEF Holds, IInv, EntryClosedFirst, LockedUntilClosed
<1>3. \A h \in Threads \ {g} : ~ Holds(h, o)
  BY <1>2, Alone
<1>4. /\ \A h \in Threads : ~ IsAt(h, o, {"entered", "canceled", "exited", "stopped"})'
      /\ \A h \in Threads : ~ IsAt(h, o, {"entered", "canceled", "stopped"})
  BY <1>0, <1>1, <1>3 DEF IsAt, Moves, Holds
<1>5. \A x \in DOMAIN exo' : /\ EntryOf(x, o)' = EntryOf(x, o) /\ IsExit(x, o)' = IsExit(x, o)
                             /\ Resting(x, o)' = Resting(x, o)
  BY <1>1 DEF EntryOf, IsExit, Resting, IsStop
<1>6. \A x \in DOMAIN exo' : EntryOf(x, o)' => exo'[x].st # "live" /\ ord'[o].enter.oid = x
  BY <1>1, <1>2, <1>4, <1>5 DEF Settled, IsAt
<1>7. \A x \in DOMAIN exo' : Resting(x, o)' => ord'[o].stop.oid = x
  BY <1>1, <1>4, <1>5 DEF Settled, IsAt
<1>8. o \notin Stops /\ ord'[o].status = "FullExit" => \A x \in DOMAIN exo' : IsExit(x, o)' => exo'[x].st # "live"
  <2>1. o \notin Stops => \A x \in DOMAIN exo : IsExit(x, o) => x = r.ex
    BY <1>0 DEF Settled, IsAt
  <2>2. r \in Heard /\ \A x \in DOMAIN exo : x # 0
    BY Kinds DEF IInv
  <2>3. r.ex # 0 => r.st # "reduceOnly" /\ (IsOrderDone(r) => exo[r.ex].st # "live")
    BY <2>2 DEF ReportsTell, IsOrderDone
  <2> QED
    BY <1>1, <1>2, <1>5, <2>1, <2>2, <2>3
<1>9. IsAt(g, o, {"cleanup"})'
  BY <1>1 DEF IsAt, Moves
<1> QED
  BY <1>4, <1>6, <1>7, <1>8, <1>9 DEF Settled, IsAt

LEMMA EditTriggerSettled ==
  ASSUME IInv, NEW g \in Threads, EditTrigger(g),
         NEW o \in Orders, run[g].od = o, Settled(o)
  PROVE  Settled(o)'
<1>1. /\ run[g].at = "stop" /\ ord'[o].enter = ord[o].enter /\ ord'[o].status = ord[o].status
      /\ ord'[o].stop.oid = ord[o].stop.oid
      /\ \/ exo' = exo /\ Moves(g, o, "save")
         \/ /\ o \in Stops /\ ord[o].status # "FullExit"
            /\ Moves(g, o, "stopped") /\ (Created(g, o, "stop") \/ Refused(g))
  BY EditTriggerIs
<1>2. Holds(g, o) /\ EntryClosed(o)
  BY <1>1 DEF Holds, IInv, EntryClosedFirst
<1>3. CASE exo' = exo /\ Moves(g, o, "save")
  <2>1. \A h \in Threads : IsAt(h, o, Calls) \/ NowAt(h, o, Calls) => run'[h] = run[h]
    BY <1>1, <1>3 DEF IsAt, NowAt, Moves, Calls
  <2> QED
    BY <1>1, <1>3, <2>1, SameSettled DEF GoesOn
<1>4. CASE /\ o \in Stops /\ ord[o].status # "FullExit"
           /\ Moves(g, o, "stopped") /\ (Created(g, o, "stop") \/ Refused(g))
  <2>1. \A h \in Threads \ {g} : ~ Holds(h, o)
    BY <1>2, <1>4, Alone
  <2>2. /\ \A h \in Threads : ~ IsAt(h, o, {"entered", "canceled", "exited"})'
        /\ \A h \in Threads : ~ IsAt(h, o, {"entered", "canceled", "exited", "stopped"})
        /\ IsAt(g, o, {"stopped"})'
    BY <1>1, <1>4, <2>1 DEF IsAt, Moves, Holds
  <2>3. \A x \in DOMAIN exo' : \/ x \in DOMAIN exo /\ exo'[x] = exo[x]
                               \/ exo'[x].kind = "stop" /\ x = run'[g].res.ex
    BY <1>4 DEF Created, Refused
  <2>4. \A x \in DOMAIN exo' : EntryOf(x, o)' => EntryOf(x, o) /\ exo'[x] = exo[x]
    BY <2>3 DEF EntryOf
  <2>5. \A x \in DOMAIN exo' : Resting(x, o)' => (x \in DOMAIN exo /\ Resting(x, o)) \/ x = run'[g].res.ex
    BY <2>3 DEF Resting, IsStop
  <2>6. \A x \in DOMAIN exo' : EntryOf(x, o)' => exo'[x].st # "live" /\ ord'[o].enter.oid = x
    <3>1. \A x \in DOMAIN exo : EntryOf(x, o) => exo[x].st # "live" /\ ord[o].enter.oid = x
      BY <1>2, <2>2 DEF Settled, IsAt
    <3>2. \A x : EntryOf(x, o) => x \in DOMAIN exo
      BY DEF EntryOf
    <3> QED
      BY <1>1, <2>4, <3>1, <3>2
  <2>7. \A x \in DOMAIN exo' : Resting(x, o)' => ord'[o].stop.oid = x \/ x = run'[g].res.ex
    BY <1>1, <2>2, <2>5 DEF Settled, IsAt
  <2> QED
    BY <1>1, <1>4, <2>2, <2>6, <2>7 DEF Settled, IsAt
<1> QED
  BY <1>1, <1>3, <1>4

LEMMA TriggerPutSettled ==
  ASSUME IInv, ReportsTell, ~ Errors, NEW g \in Threads, TriggerPut(g),
         NEW o \in Orders, run[g].od = o, Settled(o)
  PROVE  Settled(o)'
<1> DEFINE r == run[g].res
           prev == ord[o].stop.oid
<1>1. /\ run[g].at = "stopped" /\ ord'[o].enter = ord[o].enter /\ ord'[o].status = ord[o].status
      /\ \/ /\ r.st \in {"immediate", "err"} /\ exo' = exo /\ ord'[o].stop.oid = prev
            /\ \E step \in {"exit", "save"} : Moves(g, o, step)
         \/ ord'[o].stop.oid = r.ex /\ StopCancelled(prev) /\ Moves(g, o, "save")
  BY TriggerPutIs
<1>2. Holds(g, o) /\ EntryClosed(o) /\ ord[o].status # "FullExit"
  BY <1>1 DEF Holds, IInv, EntryClosedFirst, Settled, IsAt, Entered
<1>3. \A h \in Threads \ {g} : ~ Holds(h, o)
  BY <1>2, Alone
<1>4. /\ \A h \in Threads : ~ IsAt(h, o, Calls)'
      /\ \A h \in Threads : ~ IsAt(h, o, {"entered", "canceled", "exited"})
      /\ \A h \in Threads : IsAt(h, o, {"stopped"}) => h = g
  BY <1>1, <1>3 DEF IsAt, Moves, Holds, Calls
<1>5. OnlyGoesOn
  BY <1>1, StopCancelledIs DEF IInv, OnlyGoesOn, GoesOn
<1>6. \A x \in DOMAIN exo' : /\ EntryOf(x, o)' => EntryOf(x, o) /\ (exo'[x].st = "live" => exo[x].st = "live")
                             /\ Resting(x, o)' => Resting(x, o)
                             /\ x \in DOMAIN exo
  BY <1>5 DEF OnlyGoesOn, GoesOn, EntryOf, Resting, IsStop
<1>7. \A x \in DOMAIN exo' : EntryOf(x, o)' => exo'[x].st # "live" /\ ord'[o].enter.oid = x
  BY <1>1, <1>2, <1>4, <1>6 DEF Settled, IsAt
<1>8. \A x \in DOMAIN exo' : Resting(x, o)' => ord'[o].stop.oid = x
  <2>1. \A x \in DOMAIN exo : Resting(x, o) => x = prev \/ x = r.ex
    BY <1>4 DEF Settled
  <2>2. r.st \in {"immediate", "err"} => r.ex = 0
    <3>1. r \in Heard
      BY Kinds DEF IInv
    <3> QED
      BY <3>1 DEF ReportsTell
  <2>3. \A x \in DOMAIN exo : x # 0
    BY Kinds DEF IInv
  <2>4. StopCancelled(prev) => \A x \in DOMAIN exo' : Resting(x, o)' => x # prev
    <3>1. ASSUME NEW x \in DOMAIN exo', StopCancelled(x), Resting(x, o)' PROVE FALSE
      <4>1. x \in DOMAIN exo /\ x # 0
        BY <1>6, <2>3, <3>1
      <4> QED
        BY <3>1, <4>1, StopCancelledIs DEF IInv, Resting, IsStop
    <3> QED
      BY <3>1
  <2> QED
    BY <1>1, <1>6, <2>1, <2>2, <2>3, <2>4
<1> QED
  BY <1>1, <1>2, <1>4, <1>7, <1>8 DEF Settled, IsAt, Calls

LEMMA CancelTriggerOdsSettled ==
  ASSUME IInv, ~ Errors, NEW g \in Threads, CancelTriggerOds(g),
         NEW o \in Orders, run[g].od = o, Settled(o)
  PROVE  Settled(o)'
<1> DEFINE prev == ord[o].stop.oid
<1>1. /\ run[g].at = "cleanup" /\ ord'[o].enter = ord[o].enter /\ ord'[o].status = ord[o].status
      /\ StopCancelled(prev) /\ Moves(g, o, "save")
  BY CancelTriggerOdsIs
<1>2. OnlyGoesOn
  BY <1>1, StopCancelledIs DEF IInv
<1>3. /\ \A h \in Threads \ {g} : run'[h] = run[h]
      /\ \A steps \in SUBSET {"entered", "canceled", "exited", "stopped"} : \A h \in Threads :
           IsAt(h, o, steps)' = IsAt(h, o, steps) /\ (IsAt(h, o, steps) => run'[h] = run[h])
  BY <1>1 DEF Moves, IsAt
<1>4. \A x \in DOMAIN exo' : /\ x \in DOMAIN exo /\ exo'[x].od = exo[x].od /\ exo'[x].kind = exo[x].kind
                             /\ exo'[x].st = "live" => exo[x].st = "live"
                             /\ EntryOf(x, o)' = EntryOf(x, o) /\ IsExit(x, o)' = IsExit(x, o)
                             /\ Resting(x, o)' => Resting(x, o)
  BY <1>2 DEF OnlyGoesOn, GoesOn, EntryOf, Resting, IsStop, IsExit
<1>5. \A x \in DOMAIN exo' : Resting(x, o)' => x # prev
  <2>1. ASSUME NEW x \in DOMAIN exo', StopCancelled(x), Resting(x, o)' PROVE FALSE
    <3>1. x \in DOMAIN exo /\ x # 0
      BY <1>4, Kinds DEF IInv
    <3> QED
      BY <2>1, <3>1, StopCancelledIs DEF IInv, Resting, IsStop
  <2> QED
    BY <1>1, <2>1
<1>6. \A x \in DOMAIN exo' : Resting(x, o)' => \E h \in Threads : IsAt(h, o, {"stopped"})' /\ run'[h].res.ex = x
  BY <1>3, <1>4, <1>5 DEF Settled
<1>7. \A h \in Threads : IsAt(h, o, {"stopped"})' => ord'[o].status # "FullExit"
  BY <1>1, <1>3 DEF Settled
<1>8. EntryClosed(o)' => \A x \in DOMAIN exo' : EntryOf(x, o)' => exo'[x].st # "live"
  BY <1>1, <1>4 DEF Settled, EntryClosed
<1>9. \A h \in Threads : IsAt(h, o, {"canceled"})' =>
        \A x \in DOMAIN exo' : exo'[x].od = o => exo'[x].kind = "enter" /\ exo'[x].st # "live"
  BY <1>3, <1>4 DEF Settled
<1>10. \A x \in DOMAIN exo' : EntryOf(x, o)' =>
         ord'[o].enter.oid = x \/ \E h \in Threads : IsAt(h, o, {"entered"})' /\ run'[h].res.ex = x
  BY <1>1, <1>3, <1>4 DEF Settled
<1>11. o \notin Stops /\ ord'[o].status = "FullExit" =>
         \A x \in DOMAIN exo' : IsExit(x, o)' => exo'[x].st # "live"
  BY <1>1, <1>4 DEF Settled
<1>12. o \notin Stops => \A h \in Threads : IsAt(h, o, {"exited"})' =>
         \A x \in DOMAIN exo' : IsExit(x, o)' => x = run'[h].res.ex
  BY <1>3, <1>4 DEF Settled
<1> QED
  BY <1>6, <1>7, <1>8, <1>9, <1>10, <1>11, <1>12 DEF Settled

LEMMA QueueSettled ==
  ASSUME IInv, FillsInv, ~ Errors, HandleOrderQueue,
         NEW o \in Orders, Head(queue).od = o, Settled(o)
  PROVE  Settled(o)'
<1> DEFINE act == Head(queue).act
           e == ord[o].enter.oid
<1>1. /\ run["queue"].at = "idle" /\ ord' = ord /\ "queue" \in Threads /\ LockFree(o)
      /\ 1 \in DOMAIN queue /\ queue[1] = Head(queue)
  <2>1. queue # <<>> /\ queue' = Tail(queue) /\ LockFree(o)
    BY DEF HandleOrderQueue
  <2> QED
    BY <2>1, QueueCalls, Dequeued DEF Threads, IInv
<1>2. \/ UNCHANGED exchange /\ \E step \in {"save", "exit", "stop"} : Moves("queue", o, step)
      \/ act = "Enter" /\ Moves("queue", o, "entered") /\ (Created("queue", o, "enter") \/ Refused("queue"))
      \/ /\ act = "Exit" /\ ~ EntryClosed(o) /\ Moves("queue", o, "canceled") /\ OnlyGoesOn
         /\ \/ e \in DOMAIN exo /\ exo'[e].st = "canceled"
            \/ exo' = exo /\ (e = 0 \/ exo[e].st # "live")
  BY QueueCalls
<1>3. CASE UNCHANGED exchange /\ \E step \in {"save", "exit", "stop"} : Moves("queue", o, step)
  <2>1. exo' = exo
    BY <1>3 DEF exchange
  <2>2. \A h \in Threads : IsAt(h, o, Calls) \/ NowAt(h, o, Calls) => run'[h] = run[h]
    BY <1>1, <1>3 DEF IsAt, NowAt, Moves, Calls
  <2> QED
    BY <1>1, <2>1, <2>2, SameSettled DEF GoesOn
<1>4. CASE act = "Enter" /\ Moves("queue", o, "entered") /\ (Created("queue", o, "enter") \/ Refused("queue"))
  <2>1. /\ Untouched(o) /\ \A h \in Threads : ~ Holds(h, o)
        /\ \A x \in DOMAIN exo : exo[x].od # o
    BY <1>1, <1>4 DEF IInv, EnterOnce
  <2>2. \A x \in DOMAIN exo' : exo'[x].od = o => exo'[x].kind = "enter" /\ x = run'["queue"].res.ex
    BY <1>4, <2>1 DEF Created, Refused
  <2>3. \A x \in DOMAIN exo' : ~ IsExit(x, o)' /\ ~ Resting(x, o)'
    BY <2>2 DEF IsExit, Resting, IsStop
  <2>4. \A h \in Threads : ~ IsAt(h, o, {"canceled", "exited", "stopped"})'
    BY <1>4, <2>1 DEF IsAt, Moves, Holds
  <2>5. IsAt("queue", o, {"entered"})' /\ ~ EntryClosed(o)'
    BY <1>1, <1>4, <2>1 DEF IsAt, Moves, Untouched, EntryClosed
  <2>6. \A x \in DOMAIN exo' : EntryOf(x, o)' => x = run'["queue"].res.ex
    BY <2>2 DEF EntryOf
  <2> QED
    BY <1>1, <2>3, <2>4, <2>5, <2>6 DEF Settled, IsAt
<1>5. CASE /\ act = "Exit" /\ ~ EntryClosed(o) /\ Moves("queue", o, "canceled") /\ OnlyGoesOn
           /\ \/ e \in DOMAIN exo /\ exo'[e].st = "canceled"
              \/ exo' = exo /\ (e = 0 \/ exo[e].st # "live")
  <2>1. /\ \A x \in DOMAIN exo : exo[x].od = o => exo[x].kind = "enter"
        /\ ord[o].status # "FullExit"
    BY <1>5 DEF IInv, EntryClosedFirst, Entered
  <2>2. \A h \in Threads : ~ Holds(h, o)
    BY <1>1, <2>1 DEF IInv, LockedUntilClosed, LockFree
  <2>3. \A x \in DOMAIN exo : exo[x].od = o => x = e /\ x # 0
    <3>1. \A h \in Threads : ~ IsAt(h, o, {"entered"})
      BY <2>2 DEF IsAt, Holds
    <3>2. \A x \in DOMAIN exo : x # 0
      BY Kinds DEF IInv
    <3> QED
      BY <2>1, <3>1, <3>2 DEF Settled, EntryOf
  <2>4. \A x \in DOMAIN exo' : exo'[x].od = o => x = e /\ exo'[x].kind = "enter" /\ exo'[x].st # "live"
    BY <1>5, <2>1, <2>3 DEF OnlyGoesOn, GoesOn
  <2>5. \A x \in DOMAIN exo' : ~ IsExit(x, o)' /\ ~ Resting(x, o)'
    BY <2>4 DEF IsExit, Resting, IsStop
  <2>6. \A h \in Threads : ~ IsAt(h, o, {"exited", "stopped"})'
    BY <1>5, <2>2 DEF IsAt, Moves, Holds
  <2>7. \A x \in DOMAIN exo' : EntryOf(x, o)' => exo'[x].st # "live" /\ ord'[o].enter.oid = x
    BY <1>1, <2>4 DEF EntryOf
  <2> QED
    BY <2>4, <2>5, <2>6, <2>7 DEF Settled, IsAt
<1> QED
  BY <1>2, <1>3, <1>4, <1>5

LEMMA TradeSettled ==
  ASSUME IInv, FillsInv, ReportsTell, UpdateByMyTrade,
         NEW o \in Orders, run["trade"].od = o, Settled(o), o \in Stops \/ ExitOnce(o)
  PROVE  Settled(o)'
<1> DEFINE t == run["trade"].res
           kind == exo[t.ex].kind
           g == "trade"
<1>1. /\ run[g].at = "wait" /\ LockFree(o) /\ exo' = exo /\ g \in Threads
      /\ \E step \in {"cleanup", "stop", "save"} : Moves(g, o, step)
      /\ ord'[o].enter.oid = ord[o].enter.oid
      /\ ord'[o].enter.st = "Closed" => EntryClosed(o) \/ (kind = "enter" /\ t.st # "live")
      /\ ord'[o].stop.oid = ord[o].stop.oid \/ (ord'[o].stop.oid = 0 /\ ord[o].stop.oid = t.ex)
      /\ ord'[o].status = "FullExit" =>
           \/ ord[o].status = "FullExit"
           \/ /\ Moves(g, o, "cleanup")
              /\ (kind = "enter" /\ ~ EntryClosed(o)) \/ (kind # "enter" /\ t.st = "filled")
  BY UpdateByMyTradeIs DEF Threads
<1>2. t.ex \in DOMAIN exo /\ exo[t.ex].od = o /\ t \in Heard /\ t.ex # 0 /\ kind \in {"enter", "exit", "stop"}
  <2>1. t.ex \in DOMAIN exo /\ exo[t.ex].od = o
    BY <1>1 DEF IInv, IdsNameOrders
  <2> QED
    BY <1>1, <2>1, Kinds DEF IInv, ExgOrder
<1>3. t.st # "live" => exo[t.ex].st # "live"
  BY <1>2 DEF ReportsTell
<1>4. \A h \in Threads \ {g} : run'[h] = run[h]
  BY <1>1 DEF Moves
<1>5. \A steps \in SUBSET {"entered", "canceled", "exited", "stopped"} : \A h \in Threads :
        IsAt(h, o, steps)' = IsAt(h, o, steps) /\ (IsAt(h, o, steps) => run'[h] = run[h])
  <2>1. \A steps \in SUBSET {"entered", "canceled", "exited", "stopped"} : ~ IsAt(g, o, steps)' /\ ~ IsAt(g, o, steps)
    BY <1>1 DEF IsAt, Moves
  <2> QED
    BY <1>4, <2>1 DEF IsAt
<1>6. \A x \in DOMAIN exo' : /\ x \in DOMAIN exo /\ EntryOf(x, o)' = EntryOf(x, o) /\ IsExit(x, o)' = IsExit(x, o)
                             /\ Resting(x, o)' = Resting(x, o)
  BY <1>1 DEF EntryOf, Resting, IsStop, IsExit
<1>7. EntryClosed(o)' => \A x \in DOMAIN exo' : EntryOf(x, o)' => exo'[x].st # "live"
  <2>1. CASE EntryClosed(o)
    BY <1>1, <1>6, <2>1 DEF Settled
  <2>2. CASE kind = "enter" /\ t.st # "live"
    <3>1. EntryOf(t.ex, o)
      BY <1>2, <2>2 DEF EntryOf
    <3>2. \A x \in DOMAIN exo : EntryOf(x, o) => x = t.ex
      BY <3>1 DEF FillsInv, EntriesKnown, EntryOf
    <3> QED
      BY <1>1, <1>3, <1>6, <2>2, <3>2
  <2> QED
    BY <1>1, <2>1, <2>2 DEF EntryClosed
<1>8. \A h \in Threads : IsAt(h, o, {"canceled"})' =>
        \A x \in DOMAIN exo' : exo'[x].od = o => exo'[x].kind = "enter" /\ exo'[x].st # "live"
  BY <1>1, <1>5 DEF Settled
<1>9. \A x \in DOMAIN exo' : EntryOf(x, o)' =>
         ord'[o].enter.oid = x \/ \E h \in Threads : IsAt(h, o, {"entered"})' /\ run'[h].res.ex = x
  BY <1>1, <1>5, <1>6 DEF Settled
<1>10. o \notin Stops /\ ord'[o].status = "FullExit" =>
         \A x \in DOMAIN exo' : IsExit(x, o)' => exo'[x].st # "live"
  <2>1. CASE ord[o].status = "FullExit"
    BY <1>1, <1>6, <2>1 DEF Settled
  <2>2. CASE kind = "enter" /\ ~ EntryClosed(o)
    <3>1. \A x \in DOMAIN exo : ~ IsExit(x, o)
      BY <2>2 DEF IInv, EntryClosedFirst, IsExit
    <3> QED
      BY <1>6, <3>1
  <2>3. CASE o \notin Stops /\ kind # "enter" /\ t.st = "filled"
    <3>1. \A x, y \in DOMAIN exo : IsExit(x, o) /\ IsExit(y, o) => x = y
      BY <2>3 DEF ExitOnce
    <3>2. ~ IsStop(t.ex, o)
      BY <1>2, <2>3 DEF ExitOnce
    <3>3. IsExit(t.ex, o)
      BY <1>2, <2>3, <3>2 DEF IsStop, IsExit
    <3>4. \A x \in DOMAIN exo : IsExit(x, o) => x = t.ex
      BY <1>2, <3>1, <3>3
    <3> QED
      BY <1>1, <1>3, <1>6, <2>3, <3>4
  <2> QED
    BY <1>1, <2>1, <2>2, <2>3
<1>11. o \notin Stops => \A h \in Threads : IsAt(h, o, {"exited"})' =>
         \A x \in DOMAIN exo' : IsExit(x, o)' => x = run'[h].res.ex
  BY <1>5, <1>6 DEF Settled
<1>12. \A x \in DOMAIN exo' : Resting(x, o)' =>
         ord'[o].stop.oid = x \/ \E h \in Threads : IsAt(h, o, {"stopped"})' /\ run'[h].res.ex = x
  <2>1. ~ Resting(t.ex, o)
    BY <1>1, <1>2 DEF ReportsTell, Resting, IsStop
  <2>2. \A x \in DOMAIN exo' : Resting(x, o)' => x # t.ex
    BY <1>6, <2>1
  <2> QED
    BY <1>1, <1>5, <1>6, <2>2 DEF Settled
<1>13. ord'[o].status = "FullExit" /\ (\E x \in DOMAIN exo' : Resting(x, o)') =>
         \E h \in Threads : IsAt(h, o, {"cleanup"})'
  <2>1. CASE ord[o].status = "FullExit" /\ \E x \in DOMAIN exo' : Resting(x, o)'
    <3>1. PICK h \in Threads : IsAt(h, o, {"cleanup"})
      BY <1>6, <2>1 DEF Settled
    <3>2. h # g
      BY <1>1, <3>1 DEF IsAt
    <3> QED
      BY <1>4, <3>1, <3>2 DEF IsAt
  <2>2. CASE Moves(g, o, "cleanup")
    BY <1>1, <2>2 DEF Moves, IsAt
  <2> QED
    BY <1>1, <2>1, <2>2
<1>14. \A h \in Threads : IsAt(h, o, {"stopped"})' => ord'[o].status # "FullExit"
  <2>1. \A h \in Threads : ~ IsAt(h, o, {"stopped"})
    <3>1. ASSUME NEW h \in Threads, IsAt(h, o, {"stopped"}) PROVE FALSE
      <4>1. h # g /\ Holds(h, o) /\ ord[o].status # "FullExit"
        BY <1>1, <3>1 DEF IsAt, Holds, Settled
      <4> QED
        BY <1>1, <4>1, SharedOnlyWhenClosed
    <3> QED
      BY <3>1
  <2> QED
    BY <1>5, <2>1
<1> QED
  BY <1>7, <1>8, <1>9, <1>10, <1>11, <1>12, <1>13, <1>14 DEF Settled

LEMMA QuietSettled ==
  ASSUME NEW p \in Orders, Settled(p), ord'[p].status = ord[p].status, ord'[p].enter = ord[p].enter,
         ord'[p].stop.oid = ord[p].stop.oid, OnlyGoesOn,
         \A g \in Threads : run'[g] = run[g] \/ (run[g].at = "idle" /\ run'[g].at = "wait")
  PROVE  Settled(p)'
<1>1. \A g \in Threads : IsAt(g, p, Calls) \/ NowAt(g, p, Calls) => run'[g] = run[g]
  BY DEF IsAt, NowAt, Calls
<1> QED
  BY <1>1, SameSettled DEF OnlyGoesOn

LEMMA StrategySettled ==
  ASSUME IInv, Strategy, NEW p \in Orders, Settled(p)
  PROVE  Settled(p)'
<1>0. TypeOK /\ exo' = exo /\ run' = run /\ ord \in [Orders -> InOutOrder] /\ OnlyGoesOn
  BY DEF IInv, TypeOK, Strategy, EnterOrder, ExitOrder, PostOrderExit, SetStopLoss, exchange, OnlyGoesOn, GoesOn
<1>1. ASSUME NEW o \in Orders, EnterOrder(o) PROVE Settled(p)'
  <2>1. CASE p # o
    BY <1>0, <1>1, <2>1, EnterOrderIs, QuietSettled
  <2>2. CASE p = o
    <3>1. \A x \in DOMAIN exo' : exo'[x].od # p
      BY <1>0, <1>1, <2>2, EnterOrderIs
    <3>2. \A g \in Threads : ~ IsAt(g, p, Calls)'
      BY <1>0, <1>1, <2>2, EnterOrderIs DEF IsAt, Holds, Calls
    <3>3. \A x \in DOMAIN exo' : ~ EntryOf(x, p)' /\ ~ IsExit(x, p)' /\ ~ Resting(x, p)'
      BY <3>1 DEF EntryOf, IsExit, Resting, IsStop
    <3> QED
      BY <3>1, <3>2, <3>3 DEF Settled, IsAt, Calls
  <2> QED
    BY <2>1, <2>2
<1>2. ASSUME NEW o \in Orders, ExitOrder(o) PROVE Settled(p)'
  BY <1>0, <1>2, QuietSettled DEF ExitOrder
<1>3. ASSUME NEW o \in Orders, PostOrderExit(o) PROVE Settled(p)'
  <2>1. PICK now \in Now : ord' = [ord EXCEPT ![o] = SetExit(@, now)]
    BY <1>3 DEF PostOrderExit
  <2>2. now \in Nat
    BY <1>0 DEF Now, TypeOK
  <2>3. LET od == SetExit(ord[o], now) IN od.status = ord[o].status /\ od.enter = ord[o].enter /\ od.stop = ord[o].stop
    BY <1>0, <2>2, SetExitKeeps, SetExitTag DEF KeepsTag
  <2>4. ord'[p].status = ord[p].status /\ ord'[p].enter = ord[p].enter /\ ord'[p].stop.oid = ord[p].stop.oid
    BY <1>0, <2>1, <2>3
  <2> QED
    BY <1>0, <2>4, QuietSettled
<1>4. ASSUME NEW o \in Orders, SetStopLoss(o) PROVE Settled(p)'
  <2>1. ord' = [ord EXCEPT ![o].stop.old = FALSE, ![o].stop.edits = @ + 1]
    BY <1>4 DEF SetStopLoss
  <2>2. ord'[p].status = ord[p].status /\ ord'[p].enter = ord[p].enter /\ ord'[p].stop.oid = ord[p].stop.oid
    BY <1>0, <2>1 DEF InOutOrder, StopState
  <2> QED
    BY <1>0, <2>2, QuietSettled
<1> QED
  BY <1>1, <1>2, <1>3, <1>4 DEF Strategy

LEMMA HandlerSettled ==
  ASSUME IInv, FillsInv, ReportsTell, NoCallFails, ~ Errors, NEW g \in Threads, Handler(g),
         NEW o \in Orders, run[g].od = o, Settled(o), o \in Stops \/ ExitOnce(o)
  PROVE  Settled(o)'
<1>1. CASE SaveUnlock(g)
  <2>1. \A h \in Threads : IsAt(h, o, Calls) \/ NowAt(h, o, Calls) => run'[h] = run[h]
    BY <1>1, SaveUnlockIs DEF IsAt, NowAt, Calls
  <2>2. ord' = ord /\ exo' = exo
    BY <1>1, SaveUnlockIs
  <2> QED
    BY <2>1, <2>2, SameSettled DEF GoesOn
<1> QED
  BY <1>1, EnterSubmittedSettled, EnterCancelledSettled, SubmitExitSettled, ExitSubmittedSettled,
     EditTriggerSettled, TriggerPutSettled, CancelTriggerOdsSettled DEF Handler

LEMMA NextSettled == ~ Errors /\ IInv /\ FillsInv /\ ExitsInv /\ SettledInv /\ [Next]_vars => SettledInv'
<1> SUFFICES ASSUME ~ Errors, IInv, FillsInv, ExitsInv, SettledInv, [Next]_vars PROVE SettledInv'
  OBVIOUS
<1>0. TypeOK /\ ReportsTell /\ NoCallFails /\ IInv'
  BY NextIInv DEF IInv, SettledInv
<1>1. ReportsTell' /\ NoCallFails'
  BY <1>0, NextSays, SaysStep
<1>2. ASSUME NEW p \in Orders PROVE Settled(p)'
  <2>0. Settled(p) /\ (p \in Stops \/ ExitOnce(p))
    BY DEF SettledInv, ExitsInv
  <2>1. CASE Strategy
    BY <2>0, <2>1, StrategySettled
  <2>2. CASE HandleOrderQueue
    <3>1. PICK o \in Orders : o = Head(queue).od
      BY <1>0, <2>2, HandleOrderQueueHandles
    <3>2. CASE p = o
      BY <2>0, <2>2, <3>1, <3>2, QueueSettled
    <3>3. CASE p # o
      <4>1. Handles("queue", o) /\ MakesFor(o) /\ "queue" \in Threads
        BY <1>0, <2>2, <3>1, HandleOrderQueueHandles, QueueMakes DEF Threads
      <4> QED
        BY <2>0, <3>3, <4>1, OthersSettled
    <3> QED
      BY <3>2, <3>3
  <2>3. ASSUME NEW t \in net, HandleMyTrade(t) PROVE Settled(p)'
    <3>1. exo' = exo /\ ord' = ord /\ run["trade"].at = "idle"
      BY <2>3 DEF HandleMyTrade
    <3>2. run' = run \/ \E o : run' = [run EXCEPT !["trade"] = [at |-> "wait", od |-> o, res |-> t]]
      BY <2>3 DEF HandleMyTrade
    <3>3. \A h \in Threads : run'[h] = run[h] \/ (run[h].at = "idle" /\ run'[h].at = "wait")
      BY <1>0, <3>1, <3>2 DEF TypeOK
    <3> QED
      BY <2>0, <3>1, <3>3, QuietSettled DEF OnlyGoesOn, GoesOn
  <2>4. CASE UpdateByMyTrade
    <3>1. PICK o \in Orders : o = run["trade"].od
      BY <1>0, <2>4, UpdateByMyTradeHandles
    <3>2. CASE p = o
      BY <1>0, <2>0, <2>4, <3>1, <3>2, TradeSettled
    <3>3. CASE p # o
      <4>1. Handles("trade", o) /\ MakesFor(o) /\ "trade" \in Threads
        BY <1>0, <2>4, <3>1, UpdateByMyTradeHandles, UpdateByMyTradeIs DEF Threads, MakesFor, GoesOn
      <4> QED
        BY <2>0, <3>3, <4>1, OthersSettled
    <3> QED
      BY <3>2, <3>3
  <2>5. ASSUME NEW g \in Threads, Handler(g) PROVE Settled(p)'
    <3>1. PICK o \in Orders : o = run[g].od
      BY <1>0, OrdersNamed
    <3>2. CASE p = o
      BY <1>0, <2>0, <2>5, <3>1, <3>2, HandlerSettled
    <3>3. CASE p # o
      <4>1. Handles(g, o) /\ MakesFor(o)
        BY <1>0, <2>5, <3>1, HandlerHandles, HandlerMakes
      <4> QED
        BY <2>0, <3>3, <4>1, OthersSettled
    <3> QED
      BY <3>2, <3>3
  <2>6. CASE Exchange
    <3>1. OnlyGoesOn /\ UNCHANGED local
      BY <2>6, HappensIs
    <3> QED
      BY <2>0, <3>1, QuietSettled DEF local
  <2>7. CASE UNCHANGED vars
    BY <2>0, <2>7, QuietSettled DEF vars, OnlyGoesOn, GoesOn
  <2> QED
    BY <2>1, <2>2, <2>3, <2>4, <2>5, <2>6, <2>7 DEF Next
<1> QED
  BY <1>1, <1>2 DEF SettledInv

LEMMA InitSettled == Init => SettledInv
<1> SUFFICES ASSUME Init PROVE SettledInv
  OBVIOUS
<1>1. DOMAIN exo = {} /\ net = {} /\ \A g \in Threads : run[g] = Idle
  BY DEF Init
<1>2. Idle.at = "idle" /\ Idle.res.ex = 0
  BY DEF Idle, Failed
<1>3. \A r \in Heard : r.ex = 0
  BY <1>1, <1>2 DEF Heard
<1>4. ReportsTell
  BY <1>1, <1>2, <1>3 DEF ReportsTell, Threads
<1>5. NoCallFails
  BY <1>1, <1>2 DEF NoCallFails
<1>6. \A o \in Orders : Settled(o)
  BY <1>1, <1>2 DEF Settled, IsAt, EntryOf
<1> QED
  BY <1>4, <1>5, <1>6 DEF SettledInv

\* While the exchange answers every call, what a closed order had at the exchange is
\* known to it or to the handler that is still cleaning up.
THEOREM SettledHolds ==
  ASSUME ~ Errors
  PROVE  Spec => []SettledInv
<1>1. IInv /\ FillsInv /\ ExitsInv /\ SettledInv /\ [Next]_vars => SettledInv'
  BY NextSettled
<1> QED
  BY <1>1, InitSettled, InvariantHolds, FillsAgree, ExitsHold, PTL DEF Spec

\* A fully exited order leaves no untouched stop order behind, however often its stop
\* loss was moved and whatever trade raced the move (editTriggerOd, cancelTriggerOds).
THEOREM StopsClosed ==
  ASSUME ~ Errors
  PROVE  Spec => []ClosedLeavesNoStop
<1>1. IInv /\ SettledInv => ClosedLeavesNoStop
  <2> SUFFICES ASSUME IInv, SettledInv, NEW o \in Orders, Calm(o), ord[o].status = "FullExit",
                      NEW x \in ExgOrdersOf(o, "stop"), exo[x].st = "live"
               PROVE  exo[x].filled > 0
    BY DEF ClosedLeavesNoStop
  <2>1. x \in DOMAIN exo /\ IsStop(x, o) /\ exo[x].filled \in 0 .. Amount
    BY Kinds DEF ExgOrdersOf, IsStop, IInv
  <2>2. \A g \in Threads : ~ IsAt(g, o, {"cleanup"})
    BY DEF Calm, IsAt
  <2>3. ~ Resting(x, o)
    BY <2>1, <2>2 DEF SettledInv, Settled
  <2> QED
    BY <2>1, <2>3, ConstantsAssumption DEF Resting
<1> QED
  BY <1>1, SettledHolds, InvariantHolds, PTL

\* The entry of a fully exited order, and its exit when it has no stop loss, is not live
\* at the exchange any more, also while trades and answers of it are still under way
\* (tryExitPendingEnter cancels the entry before the exit is sent).
THEOREM ClosedHasNoLive ==
  ASSUME ~ Errors
  PROVE  Spec => [](\A o \in Orders : ord[o].status = "FullExit" =>
                      /\ \A x \in ExgOrdersOf(o, "enter") : exo[x].st # "live"
                      /\ o \notin Stops => \A x \in ExgOrdersOf(o, "exit") : exo[x].st # "live")
<1>1. IInv /\ SettledInv =>
        \A o \in Orders : ord[o].status = "FullExit" =>
          /\ \A x \in ExgOrdersOf(o, "enter") : exo[x].st # "live"
          /\ o \notin Stops => \A x \in ExgOrdersOf(o, "exit") : exo[x].st # "live"
  <2> SUFFICES ASSUME IInv, SettledInv, NEW o \in Orders, ord[o].status = "FullExit"
               PROVE  /\ \A x \in ExgOrdersOf(o, "enter") : exo[x].st # "live"
                      /\ o \notin Stops => \A x \in ExgOrdersOf(o, "exit") : exo[x].st # "live"
    OBVIOUS
  <2>1. EntryClosed(o) /\ Settled(o)
    BY DEF IInv, EntryClosedFirst, Entered, SettledInv
  <2> QED
    BY <2>1 DEF Settled, ExgOrdersOf, EntryOf, IsExit
<1> QED
  BY <1>1, SettledHolds, InvariantHolds, PTL

\* Without stop losses a calm order that is fully exited left nothing live there.
THEOREM OrdersClosed ==
  ASSUME ~ Errors, Stops = {}
  PROVE  Spec => []ClosedLeavesNoOrder
<1>1. (\A o \in Orders : ord[o].status = "FullExit" =>
          /\ \A x \in ExgOrdersOf(o, "enter") : exo[x].st # "live"
          /\ o \notin Stops => \A x \in ExgOrdersOf(o, "exit") : exo[x].st # "live")
      => ClosedLeavesNoOrder
  BY DEF ClosedLeavesNoOrder
<1> QED
  BY <1>1, ClosedHasNoLive, PTL

\* Without stop losses neither order is sent twice, counted as the runs count them.
THEOREM SentOnce ==
  ASSUME Stops = {}
  PROVE  Spec => []SubmittedOnce
<1>1. ASSUME NEW S, \A x, y \in S : x = y
      PROVE  Cardinality(S) <= 1
  <2>1. CASE S = {}
    BY <2>1, FS_EmptySet
  <2>2. CASE \E x : S = {x}
    <3>1. PICK x : S = {x}
      BY <2>2
    <3>2. Cardinality({x}) = 1
      BY FS_Singleton, Zenon
    <3> QED
      BY <3>1, <3>2
  <2> QED
    BY <1>1, <2>1, <2>2
<1>2. (\A o \in Orders : \A x, y \in ExgOrdersOf(o, "enter") : x = y)
      /\ (\A o \in Orders \ Stops : \A x, y \in ExgOrdersOf(o, "exit") : x = y)
      => SubmittedOnce
  BY <1>1 DEF SubmittedOnce
<1> QED
  BY <1>2, EntrySentOnce, ExitSentOnce, PTL
-----------------------------------------------------------------------------
(* Every fill is known *)

\* The step of the exchange: n is all it tells, no order that was done changes, and an
\* entry that is new or changed is the one n tells of.
Tells(n) ==
  /\ clock <= clock'
  /\ \A r \in NowHeard : r \in Heard \/ r.ex = 0 \/ r = n
  /\ \A x \in DOMAIN exo :
       /\ x \in DOMAIN exo' /\ exo'[x].od = exo[x].od /\ exo'[x].kind = exo[x].kind
       /\ exo[x].st # "live" => exo'[x] = exo[x]
  /\ n.ex # 0 => /\ clock' = clock + 1 /\ n.at = clock' /\ n.ex \in DOMAIN exo'
                 /\ n.filled = exo'[n.ex].filled /\ n.st = exo'[n.ex].st
  /\ \A x \in DOMAIN exo' : exo'[x].kind = "enter" =>
       \/ x \in DOMAIN exo /\ exo'[x] = exo[x]
       \/ /\ x \notin DOMAIN exo => Untouched(exo'[x].od)
          /\ exo'[x].st = "canceled" => ord[exo'[x].od].exitTag
          /\ exo'[x].st = "filled" => exo'[x].filled # 0
          /\ n.ex = x /\ (n \in net' \/ (x \notin DOMAIN exo /\ exo'[x].filled = 0 /\ exo'[x].st = "live"))

LEMMA SilentTells ==
  ASSUME IInv, \A x \in DOMAIN exo : /\ x \in DOMAIN exo' /\ exo'[x].od = exo[x].od /\ exo'[x].kind = exo[x].kind
                                     /\ exo[x].st # "live" \/ exo[x].kind # "stop" => exo'[x] = exo[x],
         DOMAIN exo' = DOMAIN exo, net' \subseteq net, clock' = clock,
         \A h \in Threads : run'[h].res \in Heard \/ run'[h].res.ex = 0
  PROVE  \E n : Tells(n)
<1>1. Failed("err").ex = 0
  BY DEF Failed
<1>2. \A r \in NowHeard : r \in Heard \/ r.ex = 0
  BY DEF NowHeard, Heard
<1>3. clock <= clock'
  BY DEF IInv, TypeOK
<1>4. \A x \in DOMAIN exo' : exo'[x].kind = "enter" => x \in DOMAIN exo /\ exo'[x] = exo[x]
  OBVIOUS
<1>5. Tells(Failed("err"))
  BY <1>1, <1>2, <1>3, <1>4 DEF Tells
<1> QED
  BY <1>5

LEMMA CreateTells ==
  ASSUME IInv, NEW g \in Threads, NEW o \in Orders, NEW kind \in {"enter", "exit", "stop"},
         NEW amt \in 0 .. Amount, NEW next, CreateOrder(g, o, kind, amt, next),
         kind = "enter" => amt # 0 /\ Untouched(o)
  PROVE  \E n : Tells(n)
<1> DEFINE E(f) == [od |-> o, kind |-> kind, amt |-> amt, filled |-> f,
                    st |-> IF f = amt THEN "filled" ELSE "live"]
           R(f) == ReportOf(Len(exo) + 1, E(f))
<1>0. TypeOK /\ exo \in Seq(ExgOrder) /\ run \in [Threads -> Work] /\ clock \in Nat
  BY DEF IInv, TypeOK
<1>1. CASE \E f \in 0 .. amt :
             /\ exo' = Append(exo, E(f))
             /\ clock' = clock + 1
             /\ net' = IF f > 0 THEN net \cup {R(f)} ELSE net
             /\ run' = [run EXCEPT ![g] = [at |-> next, od |-> o, res |-> R(f)]]
  <2>1. PICK f \in 0 .. amt :
             /\ exo' = Append(exo, E(f))
             /\ clock' = clock + 1
             /\ net' = IF f > 0 THEN net \cup {R(f)} ELSE net
             /\ run' = [run EXCEPT ![g] = [at |-> next, od |-> o, res |-> R(f)]]
    BY <1>1
  <2>2. /\ E(f).od = o /\ E(f).kind = kind /\ E(f).filled = f /\ E(f).st \in {"live", "filled"}
        /\ E(f).st = "filled" => f = amt
        /\ f = amt => E(f).st = "filled"
    OBVIOUS
  <2>3. R(f).ex = Len(exo) + 1 /\ R(f).at = clock + 1 /\ R(f).filled = f /\ R(f).st = E(f).st
    BY DEF ReportOf
  <2> HIDE DEF E, R
  <2>4. /\ DOMAIN exo' = DOMAIN exo \cup {Len(exo) + 1}
        /\ Len(exo) + 1 \notin DOMAIN exo /\ Len(exo) + 1 # 0
        /\ \A x \in DOMAIN exo : exo'[x] = exo[x]
        /\ exo'[Len(exo) + 1] = E(f)
    BY <1>0, <2>1
  <2>5. run'[g].res = R(f) /\ \A h \in Threads \ {g} : run'[h] = run[h]
    BY <1>0, <2>1
  <2>6. \A r \in NowHeard : r \in Heard \/ r = R(f)
    BY <2>1, <2>5 DEF Heard, NowHeard
  <2>7. clock <= clock' /\ (f > 0 \/ f = 0) /\ f \in Nat
    BY <1>0, <2>1
  <2>8. f > 0 => R(f) \in net'
    BY <2>1
  <2>9. kind = "enter" =>
          /\ Untouched(o) /\ E(f).st # "canceled" /\ (E(f).st = "filled" => f # 0)
          /\ R(f) \in net' \/ (f = 0 /\ E(f).st = "live")
    BY <2>2, <2>7, <2>8
  <2>10. Tells(R(f))
    BY <2>1, <2>2, <2>3, <2>4, <2>6, <2>7, <2>9 DEF Tells
  <2> QED
    BY <2>10
<1>2. CASE \E code \in {"err", "reduceOnly", "immediate"} :
             /\ run' = [run EXCEPT ![g] = [at |-> next, od |-> o, res |-> Failed(code)]]
             /\ UNCHANGED exchange
  <2>1. PICK code \in {"err", "reduceOnly", "immediate"} :
             /\ run' = [run EXCEPT ![g] = [at |-> next, od |-> o, res |-> Failed(code)]]
             /\ UNCHANGED exchange
    BY <1>2
  <2>2. run'[g].res = Failed(code) /\ \A h \in Threads \ {g} : run'[h] = run[h]
    BY <1>0, <2>1
  <2>3. \A h \in Threads : run'[h].res \in Heard \/ run'[h].res.ex = 0
    BY <2>2 DEF Heard, Failed
  <2> QED
    BY <2>1, <2>3, SilentTells DEF exchange
<1> QED
  BY <1>1, <1>2 DEF CreateOrder

LEMMA ReplacedTells ==
  ASSUME IInv, NEW x \in DOMAIN exo, NEW e \in ExgOrder, e.od = exo[x].od, e.kind = exo[x].kind,
         exo[x].st = "live", e.st = "canceled" => e.kind # "enter" \/ ord[e.od].exitTag,
         e.st = "filled" => e.filled # 0,
         exo' = [exo EXCEPT ![x] = e], clock' = clock + 1, net' = net \cup {ReportOf(x, e)},
         \A h \in Threads : run'[h].res \in Heard \cup {ReportOf(x, e)}
  PROVE  Tells(ReportOf(x, e))
<1>0. TypeOK /\ exo \in Seq(ExgOrder) /\ clock \in Nat
  BY DEF IInv, TypeOK
<1>1. DOMAIN exo' = DOMAIN exo /\ exo'[x] = e /\ \A y \in DOMAIN exo \ {x} : exo'[y] = exo[y]
  BY <1>0
<1>2. ReportOf(x, e).ex = x /\ ReportOf(x, e).at = clock' /\ ReportOf(x, e).filled = e.filled /\ ReportOf(x, e).st = e.st
  BY DEF ReportOf
<1>3. \A r \in NowHeard : r \in Heard \/ r = ReportOf(x, e)
  BY DEF NowHeard, Heard
<1>4. clock <= clock' /\ ReportOf(x, e) \in net'
  BY <1>0
<1> QED
  BY <1>1, <1>2, <1>3, <1>4 DEF Tells

LEMMA CancelTells ==
  ASSUME IInv, NEW g \in Threads, NEW o \in Orders, NEW x, CancelEnter(g, o, x),
         x # 0 => EntryOf(x, o), ord[o].exitTag
  PROVE  \E n : Tells(n)
<1> DEFINE e == [exo[x] EXCEPT !.st = "canceled"]
           r == ReportOf(x, e)
<1>0. exo \in Seq(ExgOrder) /\ run \in [Threads -> Work]
  BY DEF IInv, TypeOK
<1>1. CASE /\ Cancellable(x)
           /\ exo' = [exo EXCEPT ![x] = e]
           /\ clock' = clock + 1
           /\ net' = net \cup {r}
           /\ run' = [run EXCEPT ![g] = [at |-> "canceled", od |-> o, res |-> r]]
  <2>1. x \in DOMAIN exo /\ EntryOf(x, o) /\ exo[x] \in ExgOrder /\ exo[x].st = "live"
    BY <1>0, <1>1 DEF Cancellable, EntryOf
  <2>2. e \in ExgOrder /\ e.od = exo[x].od /\ e.kind = exo[x].kind /\ e.st = "canceled" /\ e.od = o
    BY <2>1 DEF ExgOrder, EntryOf
  <2>3. run'[g].res = r /\ \A h \in Threads \ {g} : run'[h] = run[h]
    BY <1>0, <1>1
  <2>4. \A h \in Threads : run'[h].res \in Heard \cup {ReportOf(x, e)}
    BY <2>3 DEF Heard
  <2> HIDE DEF e
  <2>5. Tells(ReportOf(x, e))
    BY <1>1, <2>1, <2>2, <2>4, ReplacedTells
  <2> QED
    BY <2>5
<1>2. CASE /\ run' = [run EXCEPT ![g] = [at |-> "canceled", od |-> o, res |-> Failed("err")]]
           /\ UNCHANGED exchange
  <2>1. run'[g].res = Failed("err") /\ \A h \in Threads \ {g} : run'[h] = run[h]
    BY <1>0, <1>2
  <2>2. \A h \in Threads : run'[h].res \in Heard \/ run'[h].res.ex = 0
    BY <2>1 DEF Heard, Failed
  <2> QED
    BY <1>2, <2>2, SilentTells DEF exchange
<1> QED
  BY <1>1, <1>2 DEF CancelEnter

LEMMA FillTells ==
  ASSUME IInv, NEW x \in DOMAIN exo, Fill(x)
  PROVE  \E n : Tells(n)
<1> DEFINE more == [exo[x] EXCEPT !.filled = @ + 1]
           st == IF exo[x].filled + 1 = exo[x].amt THEN "filled" ELSE exo[x].st
           e == [exo[x] EXCEPT !.filled = @ + 1,
                               !.st = IF exo[x].filled + 1 = exo[x].amt THEN "filled" ELSE @]
<1>0. TypeOK /\ exo \in Seq(ExgOrder)
  BY DEF IInv, TypeOK
<1>1. Happens(x, e) /\ exo[x].st = "live"
  BY DEF Fill
<1>2. exo[x] \in ExgOrder /\ exo[x].filled < exo[x].amt /\ exo[x].amt \in 0 .. Amount /\ exo[x].filled \in 0 .. Amount
  BY <1>0, <1>1, Kinds DEF IInv, IdsNameOrders, ExgOrder
<1>3. exo[x].filled + 1 \in 0 .. Amount /\ exo[x].filled + 1 # 0
  BY <1>2, ConstantsAssumption
<1>4. more \in ExgOrder /\ more.od = exo[x].od /\ more.kind = exo[x].kind
  BY <1>2, <1>3 DEF ExgOrder
<1>5. more.filled = exo[x].filled + 1 /\ st \in {"live", "filled"}
  BY <1>1, <1>2 DEF ExgOrder
<1>6. e = [more EXCEPT !.st = st]
  BY <1>2 DEF ExgOrder
<1> HIDE DEF more, st, e
<1>7. e \in ExgOrder /\ e.od = exo[x].od /\ e.kind = exo[x].kind /\ e.filled # 0 /\ e.st \in {"live", "filled"}
  BY <1>3, <1>4, <1>5, <1>6 DEF ExgOrder
<1>8. /\ exo' = [exo EXCEPT ![x] = e] /\ clock' = clock + 1 /\ net' = net \cup {ReportOf(x, e)}
      /\ \A h \in Threads : run'[h].res \in Heard \cup {ReportOf(x, e)}
  BY <1>1 DEF Happens, local, Heard
<1>9. Tells(ReportOf(x, e))
  BY <1>1, <1>7, <1>8, ReplacedTells
<1> QED
  BY <1>9

LEMMA StopTells ==
  ASSUME IInv, NEW o \in Orders, OwnIds(o), StopCancelled(ord[o].stop.oid), UNCHANGED <<net, clock>>,
         \A h \in Threads : run'[h].res \in Heard \/ run'[h].res.ex = 0
  PROVE  \E n : Tells(n)
<1> DEFINE x == ord[o].stop.oid
           e == [exo[x] EXCEPT !.st = "canceled"]
<1>0. exo \in Seq(ExgOrder)
  BY DEF IInv, TypeOK
<1>1. CASE Cancellable(x) /\ exo' = [exo EXCEPT ![x].st = "canceled"]
  <2>1. x \in DOMAIN exo /\ exo[x] \in ExgOrder /\ exo[x].kind = "stop" /\ exo[x].st = "live"
    BY <1>0, <1>1 DEF Cancellable, OwnIds, IsStop
  <2>2. e.od = exo[x].od /\ e.kind = exo[x].kind
    BY <2>1 DEF ExgOrder
  <2>3. exo' = [exo EXCEPT ![x] = e]
    BY <1>1
  <2> HIDE DEF e
  <2>4. DOMAIN exo' = DOMAIN exo /\ exo'[x] = e /\ \A y \in DOMAIN exo \ {x} : exo'[y] = exo[y]
    BY <1>0, <2>1, <2>3
  <2> QED
    BY <2>1, <2>2, <2>4, SilentTells
<1>2. CASE exo' = exo
  BY <1>2, SilentTells
<1> QED
  BY <1>1, <1>2 DEF StopCancelled

LEMMA GoHears ==
  ASSUME IInv, NEW g \in Threads, NEW step \in Steps, Go(g, step)
  PROVE  \A h \in Threads : run'[h].res \in Heard
<1>1. run'[g].res = run[g].res /\ \A h \in Threads \ {g} : run'[h] = run[h]
  BY GoIs DEF Moves
<1> QED
  BY <1>1 DEF Heard

LEMMA HandlerTells ==
  ASSUME IInv, NEW g \in Threads, Handler(g), OwnIds(run[g].od)
  PROVE  \E n : Tells(n)
<1> DEFINE o == run[g].od
<1>0. TypeOK /\ o \in Orders /\ ord[o] \in InOutOrder
  BY OrdersNamed, Kinds DEF IInv
<1>1. ASSUME UNCHANGED exchange, NEW step \in Steps, Go(g, step) PROVE \E n : Tells(n)
  BY <1>1, GoHears, SilentTells DEF exchange
<1>2. ASSUME EnterSubmitted(g) PROVE \E n : Tells(n)
  <2>1. UNCHANGED exchange /\ \E step \in {"save", "stop"} : Go(g, step)
    BY <1>2 DEF EnterSubmitted
  <2> QED
    BY <2>1, <1>1 DEF Steps
<1>3. ASSUME EnterCancelled(g) PROVE \E n : Tells(n)
  <2>1. UNCHANGED exchange /\ \E step \in {"cleanup", "exit"} : Go(g, step)
    BY <1>3 DEF EnterCancelled
  <2> QED
    BY <2>1, <1>1 DEF Steps
<1>4. ASSUME ExitSubmitted(g) PROVE \E n : Tells(n)
  <2>1. UNCHANGED exchange /\ \E step \in {"save", "cleanup"} : Go(g, step)
    BY <1>4 DEF ExitSubmitted
  <2> QED
    BY <2>1, <1>1 DEF Steps
<1>5. ASSUME SaveUnlock(g) PROVE \E n : Tells(n)
  <2>1. UNCHANGED exchange /\ run' = [run EXCEPT ![g] = Idle]
    BY <1>5 DEF SaveUnlock
  <2>2. \A h \in Threads : run'[h] = run[h] \/ run'[h] = Idle
    BY <1>0, <2>1 DEF TypeOK
  <2>3. Idle.res.ex = 0
    BY DEF Idle, Failed
  <2>4. \A h \in Threads : run'[h].res \in Heard \/ run'[h].res.ex = 0
    BY <2>2, <2>3 DEF Heard
  <2> QED
    BY <2>1, <2>4, SilentTells DEF exchange
<1>6. ASSUME SubmitExit(g) PROVE \E n : Tells(n)
  <2> DEFINE amt == IF ord[o].exit.amt = 0 THEN ord[o].enter.filled ELSE ord[o].exit.amt
  <2>1. amt \in 0 .. Amount
    BY <1>0 DEF InOutOrder, SubOrder
  <2>2. \/ UNCHANGED exchange /\ \E step \in {"save", "cleanup"} : Go(g, step)
        \/ CreateOrder(g, o, "exit", amt, "exited")
    BY <1>6 DEF SubmitExit
  <2> QED
    BY <1>0, <1>1, <2>1, <2>2, CreateTells DEF Steps
<1>7. ASSUME EditTrigger(g) PROVE \E n : Tells(n)
  <2>1. ord[o].enter.amt \in 0 .. Amount
    BY <1>0 DEF InOutOrder, SubOrder
  <2>2. \/ UNCHANGED exchange /\ Go(g, "save")
        \/ CreateOrder(g, o, "stop", ord[o].enter.amt, "stopped")
    BY <1>7 DEF EditTrigger
  <2> QED
    BY <1>0, <1>1, <2>1, <2>2, CreateTells DEF Steps
<1>8. ASSUME TriggerPut(g) PROVE \E n : Tells(n)
  <2>1. UNCHANGED <<net, clock>> /\ (exo' = exo \/ StopCancelled(ord[o].stop.oid))
    BY <1>8 DEF TriggerPut
  <2>2. UNCHANGED <<net, clock>> /\ \E step \in {"exit", "save"} : Go(g, step)
    BY <1>8 DEF TriggerPut
  <2>3. \A h \in Threads : run'[h].res \in Heard
    BY <2>2, GoHears DEF Steps
  <2> QED
    BY <1>0, <2>1, <2>2, <2>3, SilentTells, StopTells
<1>9. ASSUME CancelTriggerOds(g) PROVE \E n : Tells(n)
  <2>1. UNCHANGED <<net, clock>> /\ StopCancelled(ord[o].stop.oid) /\ Go(g, "save")
    BY <1>9 DEF CancelTriggerOds
  <2>2. \A h \in Threads : run'[h].res \in Heard
    BY <2>1, GoHears DEF Steps
  <2> QED
    BY <1>0, <2>1, <2>2, StopTells
<1> QED
  BY <1>2, <1>3, <1>4, <1>5, <1>6, <1>7, <1>8, <1>9 DEF Handler

LEMMA QueueTells ==
  ASSUME IInv, FillsInv, HandleOrderQueue, OwnIds(Head(queue).od), TagFirst(Head(queue).od)
  PROVE  \E n : Tells(n)
<1> DEFINE o == Head(queue).od
           act == Head(queue).act
<1>0. TypeOK /\ o \in Orders /\ ord[o] \in InOutOrder /\ queue # <<>>
  BY HandleOrderQueueHandles, Kinds DEF IInv, HandleOrderQueue
<1>1. /\ 1 \in DOMAIN queue /\ Head(queue) = queue[1] /\ "queue" \in Threads
      /\ act \in {"Enter", "Exit", "StopLoss"}
  BY <1>0, Dequeued, OrdersNamed DEF HandleOrderQueue, Threads, OdQItem
<1>2. \/ UNCHANGED exchange /\ \E step : run' = [run EXCEPT !["queue"].at = step, !["queue"].od = o]
      \/ act = "Enter" /\ CreateOrder("queue", o, "enter", ord[o].enter.amt, "entered")
      \/ act = "Exit" /\ CancelEnter("queue", o, ord[o].enter.oid)
  BY <1>1 DEF HandleOrderQueue
<1>3. ASSUME UNCHANGED exchange, NEW step, run' = [run EXCEPT !["queue"].at = step, !["queue"].od = o]
      PROVE  \E n : Tells(n)
  <2>1. \A h \in Threads : run'[h].res = run[h].res
    BY <1>0, <1>3 DEF TypeOK, Work
  <2>2. \A h \in Threads : run'[h].res \in Heard
    BY <2>1 DEF Heard
  <2> QED
    BY <1>3, <2>2, SilentTells DEF exchange
<1>4. CASE act = "Enter" /\ CreateOrder("queue", o, "enter", ord[o].enter.amt, "entered")
  <2>1. Untouched(o) /\ Opened(o)
    BY <1>1, <1>4 DEF IInv, EnterOnce, OnlyOpened
  <2>2. ord[o].enter.amt \in 0 .. Amount /\ ord[o].enter.amt # 0
    BY <2>1, ConstantsAssumption DEF OwnIds
  <2> QED
    BY <1>0, <1>1, <1>4, <2>1, <2>2, CreateTells
<1>5. CASE act = "Exit" /\ CancelEnter("queue", o, ord[o].enter.oid)
  <2>1. Asks(1, o)
    BY <1>1, <1>5 DEF Asks
  <2>2. ord[o].exitTag
    BY <1>1, <2>1 DEF TagFirst
  <2>3. ord[o].enter.oid # 0 => EntryOf(ord[o].enter.oid, o)
    BY <1>0 DEF FillsInv, EntriesKnown
  <2> QED
    BY <1>0, <1>1, <1>5, <2>2, <2>3, CancelTells
<1> QED
  BY <1>2, <1>3, <1>4, <1>5

\* What the exchange does in one step is told by one report.
LEMMA NextTells ==
  ASSUME IInv, FillsInv, CountedInv, ~ Expires, [Next]_vars
  PROVE  \E n : Tells(n)
<1>0. TypeOK
  BY DEF IInv
<1>1. ASSUME UNCHANGED exchange, run' = run PROVE \E n : Tells(n)
  BY <1>1, SilentTells DEF exchange, Heard
<1>2. CASE Strategy
  BY <1>1, <1>2 DEF Strategy, EnterOrder, ExitOrder, PostOrderExit, SetStopLoss
<1>3. CASE HandleOrderQueue
  BY <1>0, <1>3, HandleOrderQueueHandles, QueueTells DEF CountedInv
<1>4. ASSUME NEW t \in net, HandleMyTrade(t) PROVE \E n : Tells(n)
  <2>1. exo' = exo /\ net' \subseteq net /\ clock' = clock
    BY <1>4 DEF HandleMyTrade
  <2>2. run' = run \/ \E o : run' = [run EXCEPT !["trade"] = [at |-> "wait", od |-> o, res |-> t]]
    BY <1>4 DEF HandleMyTrade
  <2>3. \A h \in Threads : run'[h] = run[h] \/ run'[h].res = t
    BY <1>0, <2>2 DEF TypeOK
  <2>4. \A h \in Threads : run'[h].res \in Heard
    BY <2>3 DEF Heard
  <2> QED
    BY <2>1, <2>4, SilentTells
<1>5. CASE UpdateByMyTrade
  <2>1. UNCHANGED exchange /\ \E step \in {"cleanup", "stop", "save"} : Go("trade", step)
    BY <1>5, ZenonT(40) DEF UpdateByMyTrade
  <2>2. \A h \in Threads : run'[h].res \in Heard
    BY <2>1, GoHears DEF Steps, Threads
  <2> QED
    BY <2>1, <2>2, SilentTells DEF exchange
<1>6. ASSUME NEW g \in Threads, Handler(g) PROVE \E n : Tells(n)
  <2>1. run[g].od \in Orders
    BY <1>0, OrdersNamed
  <2>2. OwnIds(run[g].od)
    BY <2>1 DEF CountedInv
  <2> QED
    BY <1>6, <2>2, HandlerTells
<1>7. CASE Exchange
  BY <1>7, FillTells DEF Exchange, Expire
<1>8. CASE UNCHANGED vars
  BY <1>1, <1>8 DEF vars, exchange
<1> QED
  BY <1>2, <1>3, <1>4, <1>5, <1>6, <1>7, <1>8 DEF Next

\* What becomes of an entry: it stays, or it takes what a report says.
Stays(o, e) ==
  /\ e.filled = ord[o].enter.filled /\ e.upd = ord[o].enter.upd
  /\ e.st = "Closed" => EntryClosed(o)
Takes(o, e, r) ==
  /\ EntryOf(r.ex, o) /\ ord[o].enter.upd <= r.at /\ e.upd = r.at /\ e.filled = r.filled
  /\ e.st = "Closed" => EntryClosed(o) \/ r.st = "filled"
\* What becomes of an order: the stamp of its entry goes on, and unless it is asked to
\* exit it is not exited.
Advances(o, new) ==
  /\ ord[o].exitTag => new.exitTag
  /\ new.enter.amt = ord[o].enter.amt
  /\ ord[o].enter.upd <= new.enter.upd /\ new.enter.upd <= clock
  /\ EntryClosed(o) => new.enter.st = "Closed"
  /\ ~ new.exitTag =>
       /\ new.status # "FullExit" /\ new.exit.st = "None"
       /\ Stays(o, new.enter) \/ \E r \in Heard : Takes(o, new.enter, r)

LEMMA SameAdvances ==
  ASSUME IInv, NEW o \in Orders, OwnIds(o), TagFirst(o), NEW new, new.enter = ord[o].enter,
         ord[o].exitTag => new.exitTag,
         ~ new.exitTag => new.status = ord[o].status /\ new.exit.st = ord[o].exit.st
  PROVE  Advances(o, new)
<1>1. ord[o].enter.upd \in Nat
  BY Kinds DEF IInv
<1> QED
  BY <1>1 DEF Advances, Stays, OwnIds, TagFirst, EntryClosed

LEMMA TaggedAdvances ==
  ASSUME NEW o \in Orders, NEW new, new.exitTag, new.enter.amt = ord[o].enter.amt,
         ord[o].enter.upd <= new.enter.upd, new.enter.upd <= clock,
         EntryClosed(o) => new.enter.st = "Closed"
  PROVE  Advances(o, new)
BY DEF Advances

\* A report of the entry is not accepted with less than is counted.
LEMMA AnsweredTakes ==
  ASSUME IInv, FillsInv, StampsFit, NEW o \in Orders, OwnIds(o), NEW r \in Heard, EntryOf(r.ex, o)
  PROVE  LET e == Answered(ord[o].enter, r) IN
         /\ e.amt = ord[o].enter.amt /\ ord[o].enter.upd <= e.upd /\ e.upd <= clock
         /\ \/ e.upd = ord[o].enter.upd /\ e.filled = ord[o].enter.filled /\ e.st = ord[o].enter.st
            \/ /\ ord[o].enter.upd <= r.at /\ e.upd = r.at /\ e.filled = r.filled
               /\ e.st = "Closed" => EntryClosed(o) \/ IsOrderDone(r)
<1> DEFINE sub == ord[o].enter
           e == Answered(sub, r)
<1>1. /\ sub \in SubOrder /\ r \in Report /\ sub.upd \in Nat /\ r.at \in Nat /\ clock \in Nat
      /\ sub.filled \in 0 .. Amount /\ r.filled \in 0 .. Amount
  BY Kinds DEF IInv
<1>2. sub.upd <= clock /\ r.at <= clock
  BY DEF OwnIds, FillsInv, ReportsAgree
<1>3. CASE sub.upd > r.at
  <2>1. e.filled = sub.filled /\ e.upd = sub.upd /\ e.amt = sub.amt /\ e.st = sub.st
    BY <1>1, <1>3 DEF Answered, SubOrder
  <2> HIDE DEF e
  <2> QED
    BY <1>1, <1>2, <2>1 DEF e
<1>4. CASE ~ (sub.upd > r.at)
  <2>1. /\ e.filled = (IF r.filled > 0 THEN r.filled ELSE sub.filled) /\ e.upd = r.at /\ e.amt = sub.amt
        /\ e.st = "Closed" => sub.st = "Closed" \/ IsOrderDone(r)
    BY <1>1, <1>4 DEF Answered, SubOrder
  <2>2. sub.upd <= r.at
    BY <1>1, <1>4
  <2>3. sub.filled <= r.filled
    BY <1>1, <2>2 DEF FillsInv, NotAhead, EntryOf
  <2>4. e.filled = r.filled
    BY <1>1, <2>1, <2>3
  <2> HIDE DEF e
  <2> QED
    BY <1>1, <1>2, <2>1, <2>2, <2>4 DEF e, EntryClosed
<1> QED
  BY <1>3, <1>4

\* A report of a done entry that was not asked to exit says that it is filled.
LEMMA DoneIsFilled ==
  ASSUME IInv, StampsFit, NEW o \in Orders, OwnIds(o), TagFirst(o), NEW r \in Heard, EntryOf(r.ex, o),
         ~ ord[o].exitTag
  PROVE  /\ r.st \in {"live", "filled"}
         /\ r.st = "filled" => r.filled # 0 /\ exo[r.ex].st = "filled" /\ r.filled = exo[r.ex].filled
<1>1. r.ex \in DOMAIN exo /\ r.ex # 0
  BY Kinds DEF IInv, EntryOf
<1>2. exo[r.ex].st # "canceled" /\ (exo[r.ex].st = "filled" => exo[r.ex].filled # 0)
  BY <1>1 DEF TagFirst, OwnIds
<1>3. r.st \in {"live", "filled", "canceled"} /\ (r.st # "live" => exo[r.ex].st = r.st /\ exo[r.ex].filled = r.filled)
  BY <1>1 DEF StampsFit
<1> QED
  BY <1>2, <1>3

LEMMA AnsweredAdvances ==
  ASSUME IInv, FillsInv, StampsFit, NEW o \in Orders, OwnIds(o), TagFirst(o), NEW r \in Heard,
         EntryOf(r.ex, o), ~ EntryClosed(o)
  PROVE  Advances(o, EnterAnswered(ord[o], r))
<1> DEFINE new == EnterAnswered(ord[o], r)
           e == Answered(ord[o].enter, r)
<1>1. ord[o] \in InOutOrder /\ r \in Report
  BY Kinds DEF IInv
<1>2. /\ new.enter = e /\ new.exitTag = ord[o].exitTag /\ new.exit = ord[o].exit
      /\ new.status = "FullExit" => ord[o].status = "FullExit" \/ (IsOrderDone(r) /\ r.filled = 0)
  BY <1>1 DEF EnterAnswered, InOutOrder
<1>3. /\ e.amt = ord[o].enter.amt /\ ord[o].enter.upd <= e.upd /\ e.upd <= clock
      /\ \/ e.upd = ord[o].enter.upd /\ e.filled = ord[o].enter.filled /\ e.st = ord[o].enter.st
         \/ /\ ord[o].enter.upd <= r.at /\ e.upd = r.at /\ e.filled = r.filled
            /\ e.st = "Closed" => EntryClosed(o) \/ IsOrderDone(r)
  BY AnsweredTakes
<1> HIDE DEF new, e
<1>4. ASSUME ~ new.exitTag
      PROVE  /\ new.status # "FullExit" /\ new.exit.st = "None"
             /\ Stays(o, new.enter) \/ Takes(o, new.enter, r)
  <2>1. ~ ord[o].exitTag
    BY <1>2, <1>4
  <2>2. r.st \in {"live", "filled"} /\ (r.st = "filled" => r.filled # 0)
    BY <2>1, DoneIsFilled
  <2>3. new.status # "FullExit" /\ new.exit.st = "None"
    BY <1>2, <2>1, <2>2 DEF TagFirst, IsOrderDone
  <2>4. Stays(o, new.enter) \/ Takes(o, new.enter, r)
    BY <1>2, <1>3, <2>2 DEF Stays, Takes, IsOrderDone, EntryClosed
  <2> QED
    BY <2>3, <2>4
<1>5. Advances(o, new)
  BY <1>2, <1>3, <1>4 DEF Advances
<1> QED
  BY <1>5 DEF new

LEMMA TradedAdvances ==
  ASSUME IInv, FillsInv, StampsFit, NEW o \in Orders, OwnIds(o), TagFirst(o), NEW r \in Heard,
         EntryOf(r.ex, o)
  PROVE  LET new == EnterTraded(ord[o], r) IN
         /\ Advances(o, new) /\ new.exit = ord[o].exit
         /\ r.at <= new.enter.upd \/ new.enter.st = "Closed"
<1> DEFINE new == EnterTraded(ord[o], r)
           sub == ord[o].enter
<1>1. /\ ord[o] \in InOutOrder /\ r \in Report /\ sub \in SubOrder /\ sub.upd \in Nat /\ r.at \in Nat
      /\ sub.filled \in 0 .. Amount /\ r.filled \in 0 .. Amount
  BY Kinds DEF IInv
<1>2. CASE Skipped(sub, r)
  <2>1. new = ord[o]
    BY <1>2 DEF EnterTraded
  <2>2. Advances(o, ord[o])
    BY <1>1, SameAdvances
  <2>3. r.at <= sub.upd \/ sub.st = "Closed"
    BY <1>1, <1>2 DEF Skipped
  <2> QED
    BY <2>1, <2>2, <2>3
<1>3. CASE ~ Skipped(sub, r)
  <2>1. /\ new.enter = Traded(sub, r) /\ new.exitTag = ord[o].exitTag /\ new.exit = ord[o].exit
        /\ new.status = "FullExit" => ord[o].status = "FullExit" \/ r.st = "canceled"
    BY <1>1, <1>3 DEF EnterTraded, InOutOrder
  <2> DEFINE e == new.enter
  <2>2. /\ e.upd = r.at /\ e.amt = sub.amt /\ (r.st # "canceled" => e.filled = r.filled)
        /\ e.st = "Closed" => r.st \in {"filled", "canceled"}
    BY <1>1, <2>1 DEF Traded, SubOrder
  <2>3. sub.upd <= r.at /\ r.at <= clock /\ ~ EntryClosed(o) /\ r.at <= r.at
    BY <1>1, <1>3 DEF Skipped, FillsInv, ReportsAgree, EntryClosed
  <2> HIDE DEF new
  <2>4. ASSUME ~ new.exitTag
        PROVE  new.status # "FullExit" /\ new.exit.st = "None" /\ Takes(o, e, r)
    <3>1. r.st \in {"live", "filled"} /\ ~ ord[o].exitTag
      BY <2>1, <2>4, DoneIsFilled
    <3> QED
      BY <2>1, <2>2, <2>3, <3>1 DEF TagFirst, Takes
  <2>5. Advances(o, new)
    BY <2>1, <2>2, <2>3, <2>4 DEF Advances
  <2> QED
    BY <2>1, <2>2, <2>3, <2>5 DEF new
<1> QED
  BY <1>2, <1>3

(* What a step makes of an order. *)

\* The exit order that is known stays the one it was, or is forgotten.
KeepsExit(od, new) == new.exit.oid \in {0, od.exit.oid}

LEMMA SetExitOid ==
  ASSUME NEW od \in InOutOrder, NEW now \in Nat
  PROVE  KeepsExit(od, SetExit(od, now)) /\ SetExit(od, now).exitTag
BY DEF SetExit, NewSub, InOutOrder, KeepsExit

LEMMA LocalExitOid ==
  ASSUME NEW od \in InOutOrder, NEW now \in Nat
  PROVE  LET new == LocalExit(od, now) IN
         /\ KeepsExit(od, new) /\ new.exitTag
         /\ new.enter.amt = od.enter.amt /\ new.enter.upd = od.enter.upd /\ new.enter.st = "Closed"
<1> DEFINE set == SetExit(od, now)
           new == LocalExit(od, now)
           f == od.enter.filled
<1>1. set \in InOutOrder /\ set.enter = od.enter /\ KeepsExit(od, set) /\ set.exitTag
  BY SetExitType, SetExitKeeps, SetExitOid
<1>2. new = [set EXCEPT !.status = "FullExit", !.enter.st = "Closed", !.exit.st = "Closed", !.exit.filled = f]
  BY DEF LocalExit
<1> HIDE DEF set, new, f
<1>3. /\ new.exit.oid = set.exit.oid /\ new.exitTag = set.exitTag /\ new.enter.amt = set.enter.amt
      /\ new.enter.upd = set.enter.upd /\ new.enter.st = "Closed"
  BY <1>1, <1>2 DEF InOutOrder, SubOrder
<1>4. KeepsExit(od, new) /\ new.exitTag
  BY <1>1, <1>3 DEF KeepsExit
<1> QED
  BY <1>1, <1>3, <1>4 DEF new

LEMMA EntryShutOid ==
  ASSUME NEW od \in InOutOrder, NEW now \in Nat, NEW new \in {EntryShut(od), ClosedUnfilled(od, now)}
  PROVE  /\ KeepsExit(od, new) /\ (od.exitTag => new.exitTag)
         /\ new.enter.amt = od.enter.amt /\ new.enter.upd = od.enter.upd /\ new.enter.st = "Closed"
<1> DEFINE shut == EntryShut(od)
           set == SetExit(shut, now)
<1>1. /\ shut \in InOutOrder /\ shut.exit = od.exit /\ shut.exitTag = od.exitTag
      /\ shut.enter.amt = od.enter.amt /\ shut.enter.upd = od.enter.upd /\ shut.enter.st = "Closed"
  BY EntryShutIs DEF EntryShut, InOutOrder, SubOrder
<1> HIDE DEF shut
<1>2. set \in InOutOrder /\ set.enter = shut.enter /\ KeepsExit(shut, set) /\ set.exitTag
  BY <1>1, SetExitType, SetExitKeeps, SetExitOid
<1>3. ClosedUnfilled(od, now) = [set EXCEPT !.status = "FullExit", !.exit.st = "Closed"]
  BY DEF ClosedUnfilled, shut
<1> HIDE DEF set
<1>4. /\ ClosedUnfilled(od, now).enter = set.enter /\ ClosedUnfilled(od, now).exitTag
      /\ ClosedUnfilled(od, now).exit.oid = set.exit.oid
  BY <1>2, <1>3 DEF InOutOrder, SubOrder
<1> QED
  BY <1>1, <1>2, <1>4 DEF KeepsExit, shut

LEMMA ByMyTradeOid ==
  ASSUME NEW od \in InOutOrder, NEW t \in Report, NEW kind, NEW now \in Nat
  PROVE  /\ KeepsExit(od, ByMyTrade(od, kind, t, now))
         /\ kind # "enter" => \/ ByMyTrade(od, kind, t, now) = od
                              \/ ByMyTrade(od, kind, t, now).exitTag \/ od.exit.st # "None"
<1>1. ASSUME NEW d \in InOutOrder
      PROVE  /\ KeepsExit(d, ExitTraded(d, t)) /\ ExitTraded(d, t).exitTag = d.exitTag
             /\ KeepsExit(d, EnterTraded(d, t))
  <2>1. d.exit \in SubOrder /\ Traded(d.exit, t).oid = d.exit.oid
    BY DEF InOutOrder, SubOrder, Traded
  <2>2. EnterTraded(d, t).exit = d.exit
    BY DEF EnterTraded, InOutOrder
  <2>3. ExitTraded(d, t).exit \in {d.exit, Traded(d.exit, t)} /\ ExitTraded(d, t).exitTag = d.exitTag
    BY DEF ExitTraded, InOutOrder
  <2> QED
    BY <2>1, <2>2, <2>3 DEF KeepsExit
<1>2. SetExit(od, now) \in InOutOrder /\ KeepsExit(od, SetExit(od, now)) /\ SetExit(od, now).exitTag
  BY SetExitType, SetExitOid
<1>3. KeepsExit(od, od)
  BY DEF KeepsExit
<1> QED
  BY <1>1, <1>2, <1>3 DEF ByMyTrade, KeepsExit

\* The order goes on, and the exchange orders it knows are those it knew or the one a
\* handler of it was told of.
Follows(p) ==
  /\ Advances(p, ord'[p])
  /\ \/ ord'[p].exit.oid \in {0, ord[p].exit.oid}
     \/ \E g \in Threads : IsAt(g, p, {"exited"}) /\ ord'[p].exit.oid = run[g].res.ex
  /\ \/ ord'[p].stop.oid \in {0, ord[p].stop.oid}
     \/ \E g \in Threads : IsAt(g, p, {"stopped"}) /\ ord'[p].stop.oid = run[g].res.ex

LEMMA SameFollows ==
  ASSUME IInv, NEW p \in Orders, OwnIds(p), TagFirst(p), ord'[p] = ord[p]
  PROVE  Follows(p)
BY SameAdvances DEF Follows


LEMMA EnterSubmittedFollows ==
  ASSUME IInv, FillsInv, CountedInv, NEW g \in Threads, EnterSubmitted(g)
  PROVE  Follows(run[g].od)
<1> DEFINE o == run[g].od
           r == run[g].res
           od == IF r.st = "err" THEN LocalExit(ord[o], clock) ELSE EnterAnswered(ord[o], r)
<1>1. run[g].at = "entered" /\ ord' = [ord EXCEPT ![o] = od]
  BY DEF EnterSubmitted, Become
<1>2. /\ o \in Orders /\ ord[o] \in InOutOrder /\ r \in Report /\ r \in Heard /\ clock \in Nat
      /\ ord \in [Orders -> InOutOrder] /\ ord[o].enter.upd \in Nat
  BY <1>1, HandlerHolds, Kinds DEF IInv, TypeOK
<1>3. StampsFit /\ OwnIds(o) /\ TagFirst(o) /\ ~ EntryClosed(o)
  BY <1>1, <1>2 DEF CountedInv, IInv, LockedUntilClosed, Untouched, EntryClosed
<1>4. ord'[o] = od /\ (r.st = "err" => od = LocalExit(ord[o], clock)) /\ (r.st # "err" => od = EnterAnswered(ord[o], r))
  BY <1>1, <1>2
<1>5. KeepsTag(ord[o], ord'[o])
  BY EnterSubmittedIs
<1> HIDE DEF od
<1>6. CASE r.st = "err"
  <2>1. /\ KeepsExit(ord[o], od) /\ od.exitTag
        /\ od.enter.amt = ord[o].enter.amt /\ od.enter.upd = ord[o].enter.upd /\ od.enter.st = "Closed"
    BY <1>2, <1>4, <1>6, LocalExitOid
  <2>2. ord[o].enter.upd <= od.enter.upd /\ od.enter.upd <= clock
    BY <1>2, <1>3, <2>1 DEF OwnIds
  <2>3. Advances(o, od)
    BY <1>2, <2>1, <2>2, TaggedAdvances
  <2> QED
    BY <1>4, <1>5, <2>1, <2>3 DEF Follows, KeepsTag, KeepsExit
<1>7. CASE r.st # "err"
  <2>1. EntryOf(r.ex, o)
    BY <1>1, <1>7 DEF FillsInv, EntriesKnown
  <2>2. Advances(o, od)
    BY <1>2, <1>3, <1>4, <1>7, <2>1, AnsweredAdvances
  <2>3. od.exit = ord[o].exit
    BY <1>2, <1>4, <1>7 DEF EnterAnswered, InOutOrder
  <2> QED
    BY <1>4, <1>5, <2>2, <2>3 DEF Follows, KeepsTag
<1> QED
  BY <1>6, <1>7

LEMMA EnterCancelledFollows ==
  ASSUME IInv, FillsInv, CountedInv, NEW g \in Threads, EnterCancelled(g)
  PROVE  Follows(run[g].od)
<1> DEFINE o == run[g].od
           r == run[g].res
           od == IF r.st = "canceled" THEN EnterAnswered(ord[o], r) ELSE ord[o]
           last == IF od.enter.filled = 0 THEN ClosedUnfilled(od, clock) ELSE EntryShut(od)
<1>1. run[g].at = "canceled" /\ ord' = [ord EXCEPT ![o] = last]
  BY ZenonT(40) DEF EnterCancelled, Become, ClosedUnfilled, EntryShut
<1>2. /\ o \in Orders /\ ord[o] \in InOutOrder /\ r \in Report /\ r \in Heard /\ clock \in Nat
      /\ ord \in [Orders -> InOutOrder] /\ ord[o].enter.upd \in Nat
  BY <1>1, HandlerHolds, Kinds DEF IInv, TypeOK
<1>3. StampsFit /\ OwnIds(o) /\ ord[o].exitTag
  BY <1>1, <1>2 DEF CountedInv, TagFirst, IsAt
<1>4. od = ord[o] \/ (r.st = "canceled" /\ od = EnterAnswered(ord[o], r))
  OBVIOUS
<1>5. last \in {EntryShut(od), ClosedUnfilled(od, clock)}
  OBVIOUS
<1>6. KeepsTag(ord[o], ord'[o])
  BY EnterCancelledIs
<1> HIDE DEF od, last
<1>7. /\ od \in InOutOrder /\ od.exitTag /\ od.exit = ord[o].exit /\ od.enter.amt = ord[o].enter.amt
      /\ ord[o].enter.upd <= od.enter.upd /\ od.enter.upd <= clock
  <2>1. CASE od = ord[o]
    BY <1>2, <1>3, <2>1 DEF OwnIds
  <2>2. CASE r.st = "canceled" /\ od = EnterAnswered(ord[o], r)
    <3>1. EntryOf(r.ex, o)
      BY <1>1, <2>2 DEF FillsInv, EntriesKnown
    <3>2. od.enter = Answered(ord[o].enter, r) /\ od.exitTag = ord[o].exitTag /\ od.exit = ord[o].exit
      BY <1>2, <2>2 DEF EnterAnswered, InOutOrder
    <3>3. od \in InOutOrder
      BY <1>2, <2>2, EnterAnsweredType
    <3>4. od.enter.amt = ord[o].enter.amt /\ ord[o].enter.upd <= od.enter.upd /\ od.enter.upd <= clock
      BY <1>2, <1>3, <3>1, <3>2, AnsweredTakes
    <3> QED
      BY <1>3, <3>2, <3>3, <3>4
  <2> QED
    BY <1>4, <2>1, <2>2
<1>8. /\ KeepsExit(od, last) /\ last.exitTag
      /\ last.enter.amt = od.enter.amt /\ last.enter.upd = od.enter.upd /\ last.enter.st = "Closed"
  BY <1>2, <1>5, <1>7, EntryShutOid
<1>9. Advances(o, last)
  BY <1>2, <1>7, <1>8, TaggedAdvances
<1>10. ord'[o] = last
  BY <1>1, <1>2
<1> QED
  BY <1>6, <1>7, <1>8, <1>9, <1>10 DEF Follows, KeepsTag, KeepsExit


LEMMA SubmitExitFollows ==
  ASSUME IInv, CountedInv, NEW g \in Threads, SubmitExit(g)
  PROVE  Follows(run[g].od)
<1> DEFINE o == run[g].od
           amt == IF ord[o].exit.amt = 0 THEN ord[o].enter.filled ELSE ord[o].exit.amt
           od == [ord[o] EXCEPT !.exit.amt = amt, !.status = IF amt = 0 THEN "FullExit" ELSE @]
<1>1. run[g].at = "exit" /\ (ord' = ord \/ ord' = [ord EXCEPT ![o] = od])
  BY DEF SubmitExit, Become
<1>2. o \in Orders /\ ord[o] \in InOutOrder /\ ord \in [Orders -> InOutOrder]
  BY <1>1, HandlerHolds DEF IInv, TypeOK
<1>3. OwnIds(o) /\ TagFirst(o) /\ ord[o].exitTag
  BY <1>1, <1>2 DEF CountedInv, TagFirst, IsAt
<1>4. KeepsTag(ord[o], ord'[o]) /\ ord'[o].enter = ord[o].enter
  BY SubmitExitIs
<1>5. od.exit.oid = ord[o].exit.oid
  BY <1>2 DEF InOutOrder, SubOrder
<1> HIDE DEF od, amt
<1>6. ord'[o] \in {ord[o], od}
  BY <1>1, <1>2
<1>7. Advances(o, ord'[o])
  BY <1>2, <1>3, <1>4, SameAdvances DEF KeepsTag
<1> QED
  BY <1>4, <1>5, <1>6, <1>7 DEF Follows, KeepsTag

LEMMA ExitSubmittedFollows ==
  ASSUME IInv, CountedInv, NEW g \in Threads, ExitSubmitted(g)
  PROVE  Follows(run[g].od)
<1> DEFINE o == run[g].od
           r == run[g].res
           od == CASE r.st = "err" -> ord[o]
                   [] r.st = "reduceOnly" -> LocalExit(ord[o], clock)
                   [] OTHER -> ExitAnswered(ord[o], r)
<1>1. run[g].at = "exited" /\ ord' = [ord EXCEPT ![o] = od]
  BY DEF ExitSubmitted, Become
<1>2. /\ o \in Orders /\ ord[o] \in InOutOrder /\ r \in Report /\ clock \in Nat
      /\ ord \in [Orders -> InOutOrder] /\ ord[o].enter.upd \in Nat
  BY <1>1, HandlerHolds, Kinds DEF IInv, TypeOK
<1>3. OwnIds(o) /\ TagFirst(o) /\ ord[o].exitTag
  BY <1>1, <1>2 DEF CountedInv, TagFirst, IsAt
<1>4. od \in {ord[o], LocalExit(ord[o], clock), ExitAnswered(ord[o], r)}
  OBVIOUS
<1>5. KeepsTag(ord[o], ord'[o])
  BY ExitSubmittedIs
<1> HIDE DEF od
<1>6. ord'[o] = od
  BY <1>1, <1>2
<1>7. CASE od = ord[o]
  BY <1>2, <1>3, <1>6, <1>7, SameFollows
<1>8. CASE od = LocalExit(ord[o], clock)
  <2>1. /\ KeepsExit(ord[o], od) /\ od.exitTag
        /\ od.enter.amt = ord[o].enter.amt /\ od.enter.upd = ord[o].enter.upd /\ od.enter.st = "Closed"
    BY <1>2, <1>8, LocalExitOid
  <2>2. ord[o].enter.upd <= od.enter.upd /\ od.enter.upd <= clock
    BY <1>2, <1>3, <2>1 DEF OwnIds
  <2>3. Advances(o, od)
    BY <1>2, <2>1, <2>2, TaggedAdvances
  <2> QED
    BY <1>5, <1>6, <2>1, <2>3 DEF Follows, KeepsTag, KeepsExit
<1>9. CASE od = ExitAnswered(ord[o], r)
  <2>1. od.enter = ord[o].enter /\ od.exitTag = ord[o].exitTag /\ od.exit.oid = r.ex
    BY <1>2, <1>9 DEF ExitAnswered, Answered, InOutOrder, SubOrder
  <2>2. Advances(o, od)
    BY <1>2, <1>3, <2>1, SameAdvances
  <2> QED
    BY <1>1, <1>5, <1>6, <2>1, <2>2 DEF Follows, KeepsTag, IsAt
<1> QED
  BY <1>4, <1>7, <1>8, <1>9

LEMMA StopStepFollows ==
  ASSUME IInv, CountedInv, NEW g \in Threads, EditTrigger(g) \/ TriggerPut(g) \/ CancelTriggerOds(g)
  PROVE  Follows(run[g].od)
<1> DEFINE o == run[g].od
<1>1. CASE EditTrigger(g)
  <2>1. run[g].at = "stop" /\ (ord' = ord \/ ord' = [ord EXCEPT ![o].stop.old = TRUE])
    BY <1>1 DEF EditTrigger
  <2>2. o \in Orders /\ ord[o] \in InOutOrder /\ ord \in [Orders -> InOutOrder]
    BY <2>1, HandlerHolds DEF IInv, TypeOK
  <2>3. ord'[o].exit = ord[o].exit
    BY <2>1, <2>2 DEF InOutOrder
  <2>4. /\ ord'[o].enter = ord[o].enter /\ ord'[o].status = ord[o].status
        /\ ord'[o].exitTag = ord[o].exitTag /\ ord'[o].stop.oid = ord[o].stop.oid
    BY <1>1, EditTriggerIs
  <2>5. Advances(o, ord'[o])
    BY <2>2, <2>3, <2>4, SameAdvances DEF CountedInv
  <2> QED
    BY <2>3, <2>4, <2>5 DEF Follows
<1>2. CASE CancelTriggerOds(g)
  <2>1. run[g].at = "cleanup" /\ ord' = [ord EXCEPT ![o].stop.oid = 0]
    BY <1>2 DEF CancelTriggerOds
  <2>2. o \in Orders /\ ord[o] \in InOutOrder /\ ord \in [Orders -> InOutOrder]
    BY <2>1, HandlerHolds DEF IInv, TypeOK
  <2>3. ord'[o].exit = ord[o].exit
    BY <2>1, <2>2 DEF InOutOrder
  <2>4. /\ ord'[o].enter = ord[o].enter /\ ord'[o].status = ord[o].status
        /\ ord'[o].exitTag = ord[o].exitTag /\ ord'[o].stop.oid = 0
    BY <1>2, CancelTriggerOdsIs
  <2>5. Advances(o, ord'[o])
    BY <2>2, <2>3, <2>4, SameAdvances DEF CountedInv
  <2> QED
    BY <2>3, <2>4, <2>5 DEF Follows
<1>3. CASE TriggerPut(g)
  <2>1. /\ run[g].at = "stopped"
        /\ \/ \E now \in Now : ord' = [ord EXCEPT ![o] = SetExit(@, now)]
           \/ ord' = ord
           \/ ord' = [ord EXCEPT ![o].stop.oid = run[g].res.ex]
    BY <1>3 DEF TriggerPut
  <2>2. o \in Orders /\ ord[o] \in InOutOrder /\ ord \in [Orders -> InOutOrder] /\ Now \subseteq Nat
    BY <2>1, HandlerHolds DEF IInv, TypeOK, Now
  <2>3. /\ ord'[o].enter = ord[o].enter /\ ord'[o].status = ord[o].status /\ (ord[o].exitTag => ord'[o].exitTag)
        /\ ord'[o].stop.oid = ord[o].stop.oid \/ ord'[o].stop.oid = run[g].res.ex
    BY <1>3, TriggerPutIs
  <2>4. /\ ord'[o].exit.oid \in {0, ord[o].exit.oid}
        /\ ord'[o].exitTag \/ ord'[o].exit = ord[o].exit
    <3>1. CASE \E now \in Now : ord' = [ord EXCEPT ![o] = SetExit(@, now)]
      BY <2>2, <3>1, SetExitOid DEF KeepsExit
    <3>2. CASE ord' = ord \/ ord' = [ord EXCEPT ![o].stop.oid = run[g].res.ex]
      <4>1. ord'[o].exit = ord[o].exit
        BY <2>2, <3>2 DEF InOutOrder
      <4> QED
        BY <4>1
    <3> QED
      BY <2>1, <3>1, <3>2
  <2>5. Advances(o, ord'[o])
    BY <2>2, <2>3, <2>4, SameAdvances DEF CountedInv
  <2> QED
    BY <2>1, <2>3, <2>4, <2>5 DEF Follows, IsAt
<1> QED
  BY <1>1, <1>2, <1>3

LEMMA HandlerFollows ==
  ASSUME IInv, FillsInv, CountedInv, NEW g \in Threads, Handler(g), NEW p \in Orders
  PROVE  Follows(p)
<1>1. TypeOK /\ OwnIds(p) /\ TagFirst(p) /\ Handles(g, run[g].od)
  BY HandlerHandles DEF IInv, CountedInv
<1>2. CASE p # run[g].od
  BY <1>1, <1>2, SameFollows DEF Handles
<1>3. CASE p = run[g].od
  <2>1. CASE SaveUnlock(g)
    BY <1>1, <1>3, <2>1, SameFollows DEF SaveUnlock
  <2> QED
    BY <1>3, <2>1, EnterSubmittedFollows, EnterCancelledFollows, SubmitExitFollows, ExitSubmittedFollows,
       StopStepFollows DEF Handler
<1> QED
  BY <1>2, <1>3


\* A trade that is applied, too; one of the entry is then not newer than the entry knows.
LEMMA TradeFollows ==
  ASSUME IInv, FillsInv, CountedInv, UpdateByMyTrade, NEW p \in Orders
  PROVE  LET t == run["trade"].res IN
         /\ Follows(p)
         /\ EntryOf(t.ex, p) => t.at <= ord'[p].enter.upd \/ ord'[p].enter.st = "Closed"
<1> DEFINE o == run["trade"].od
           t == run["trade"].res
           kind == exo[t.ex].kind
           od(now) == ByMyTrade(ord[o], kind, t, now)
           closes(now) == od(now).status = "FullExit" /\ od(now) # ord[o]
           last(now) == IF closes(now) THEN StopSpent(od(now), t) ELSE od(now)
<1>0. /\ TypeOK /\ OwnIds(p) /\ TagFirst(p) /\ StampsFit /\ Handles("trade", o)
      /\ run["trade"].at = "wait" /\ "trade" \in Threads /\ exo[t.ex].od = o
  BY UpdateByMyTradeHandles, UpdateByMyTradeIs DEF IInv, CountedInv, Threads, IdsNameOrders
<1>1. CASE p # o
  BY <1>0, <1>1, SameFollows DEF Handles, EntryOf
<1>2. CASE p = o
  <2>1. PICK now \in Now : ord' = [ord EXCEPT ![o] = last(now)]
    BY ZenonT(40) DEF UpdateByMyTrade
  <2>2. /\ now \in Nat /\ ord[o] \in InOutOrder /\ t \in Report /\ t \in Heard
        /\ ord \in [Orders -> InOutOrder]
    BY <1>0, <1>2, Kinds DEF TypeOK, Now
  <2>3. ord'[o] = last(now)
    BY <1>2, <2>1, <2>2
  <2>4. last(now) \in {od(now), StopSpent(od(now), t)}
    OBVIOUS
  <2>5. od(now) \in InOutOrder /\ KeepsExit(ord[o], od(now)) /\ KeepsTag(ord[o], od(now))
    BY <2>2, ByMyTradeIs, ByMyTradeOid
  <2>6. kind = "enter" => od(now) = EnterTraded(ord[o], t)
    BY DEF ByMyTrade
  <2>7. kind # "enter" => /\ od(now).enter = ord[o].enter
                          /\ od(now) = ord[o] \/ od(now).exitTag \/ ord[o].exit.st # "None"
    BY <2>2, ByMyTradeEffect, ByMyTradeOid
  <2>8. ord'[o].stop.oid \in {0, ord[o].stop.oid} /\ (ord[o].exitTag => ord'[o].exitTag)
    BY UpdateByMyTradeIs
  <2> HIDE DEF od, last, closes
  <2>9. LET d == od(now) IN
        last(now).status = d.status /\ last(now).enter = d.enter /\ last(now).exitTag = d.exitTag /\ last(now).exit = d.exit
    BY <2>4, <2>5 DEF StopSpent, InOutOrder
  <2>10. Advances(o, od(now))
    <3>1. CASE kind = "enter"
      <4>1. EntryOf(t.ex, o)
        BY <1>0, <3>1 DEF EntryOf, IInv, IdsNameOrders
      <4> QED
        BY <1>0, <1>2, <2>2, <2>6, <3>1, <4>1, TradedAdvances
    <3>2. CASE kind # "enter"
      <4>1. od(now) = ord[o] \/ od(now).exitTag
        BY <1>0, <1>2, <2>5, <2>7, <3>2 DEF TagFirst, KeepsTag
      <4> QED
        BY <1>0, <1>2, <2>5, <2>7, <3>2, <4>1, SameAdvances DEF KeepsTag
    <3> QED
      BY <3>1, <3>2
  <2>11. Advances(o, last(now))
    BY <2>9, <2>10 DEF Advances
  <2>12. EntryOf(t.ex, o) => t.at <= od(now).enter.upd \/ od(now).enter.st = "Closed"
    <3>1. EntryOf(t.ex, o) => kind = "enter"
      BY DEF EntryOf
    <3> QED
      BY <1>0, <1>2, <2>2, <2>6, <3>1, TradedAdvances
  <2>13. Follows(o)
    BY <2>3, <2>5, <2>8, <2>9, <2>11 DEF Follows, KeepsExit
  <2> QED
    BY <1>2, <2>3, <2>9, <2>12, <2>13
<1> QED
  BY <1>1, <1>2

LEMMA StrategyFollows ==
  ASSUME IInv, CountedInv, Strategy, NEW p \in Orders, ~ EnterOrder(p)
  PROVE  Follows(p)
<1>0. TypeOK /\ OwnIds(p) /\ TagFirst(p) /\ ord \in [Orders -> InOutOrder] /\ ord[p] \in InOutOrder
  BY DEF IInv, TypeOK, CountedInv
<1>1. ASSUME NEW o \in Orders, EnterOrder(o) PROVE Follows(p)
  BY <1>0, <1>1, EnterOrderIs, SameFollows
<1>2. ASSUME NEW o \in Orders, ExitOrder(o) PROVE Follows(p)
  BY <1>0, <1>2, SameFollows DEF ExitOrder
<1>3. ASSUME NEW o \in Orders, PostOrderExit(o) PROVE Follows(p)
  <2>1. PICK now \in Now : ord' = [ord EXCEPT ![o] = SetExit(@, now)]
    BY <1>3 DEF PostOrderExit
  <2>2. CASE p # o
    BY <1>0, <2>1, <2>2, SameFollows
  <2>3. CASE p = o
    <3>1. now \in Nat /\ ord'[p] = SetExit(ord[p], now)
      BY <1>0, <2>1, <2>3 DEF TypeOK, Now
    <3>2. /\ KeepsExit(ord[p], ord'[p]) /\ ord'[p].exitTag /\ KeepsTag(ord[p], ord'[p])
          /\ ord'[p].enter = ord[p].enter
      BY <1>0, <3>1, SetExitOid, SetExitTag, SetExitKeeps
    <3>3. Advances(p, ord'[p])
      BY <1>0, <3>2, SameAdvances
    <3> QED
      BY <3>2, <3>3 DEF Follows, KeepsExit, KeepsTag
  <2> QED
    BY <2>2, <2>3
<1>4. ASSUME NEW o \in Orders, SetStopLoss(o) PROVE Follows(p)
  <2>1. ord' = [ord EXCEPT ![o].stop.old = FALSE, ![o].stop.edits = @ + 1]
    BY <1>4 DEF SetStopLoss
  <2>2. /\ ord'[p].enter = ord[p].enter /\ ord'[p].exit = ord[p].exit /\ ord'[p].exitTag = ord[p].exitTag
        /\ ord'[p].status = ord[p].status /\ ord'[p].stop.oid = ord[p].stop.oid
    BY <1>0, <2>1 DEF InOutOrder, StopState
  <2>3. Advances(p, ord'[p])
    BY <1>0, <2>2, SameAdvances
  <2> QED
    BY <2>2, <2>3 DEF Follows
<1> QED
  BY <1>1, <1>2, <1>3, <1>4 DEF Strategy

LEMMA NextFollows ==
  ASSUME IInv, FillsInv, CountedInv, [Next]_vars, NEW p \in Orders, ~ (Strategy /\ EnterOrder(p))
  PROVE  Follows(p)
<1>1. OwnIds(p) /\ TagFirst(p)
  BY DEF CountedInv
<1>2. ord' = ord => Follows(p)
  BY <1>1, SameFollows
<1> QED
  BY <1>2, StrategyFollows, TradeFollows, HandlerFollows
     DEF Next, HandleOrderQueue, HandleMyTrade, Exchange, Fill, Expire, Happens, local, vars


\* What is saved is the order as it is now, and only opened orders change.
LEMMA NextSaves ==
  ASSUME IInv, [Next]_vars, NEW p \in Orders
  PROVE  /\ db'[p] = db[p] \/ db'[p] = ord'[p]
         /\ ord'[p] = ord[p] \/ Opened(p) \/ (Strategy /\ EnterOrder(p))
<1>0. TypeOK /\ ord \in [Orders -> InOutOrder] /\ db \in [Orders -> InOutOrder]
  BY DEF IInv, TypeOK
<1>1. ASSUME NEW g \in Threads, Handler(g) PROVE (db'[p] = db[p] \/ db'[p] = ord'[p]) /\ (ord'[p] = ord[p] \/ Opened(p))
  <2> DEFINE o == run[g].od
  <2>1. Handles(g, o) /\ o \in Orders /\ Opened(o)
    <3>1. run[g].at \notin {"idle", "wait"}
      BY <1>1 DEF Handler, EnterSubmitted, EnterCancelled, SubmitExit, ExitSubmitted, EditTrigger, TriggerPut,
                  CancelTriggerOds, SaveUnlock
    <3> QED
      BY <1>0, <1>1, <3>1, HandlerHandles, OrdersNamed DEF IInv, OnlyOpened, Working
  <2>2. ASSUME NEW od, Become(o, od) PROVE db'[p] = db[p] \/ db'[p] = ord'[p]
    BY <1>0, <2>1, <2>2 DEF Become
  <2>3. ASSUME db' = db PROVE db'[p] = db[p]
    BY <2>3
  <2>4. CASE EnterSubmitted(g)
    BY <2>1, <2>2, <2>4 DEF EnterSubmitted, Handles
  <2>5. CASE EnterCancelled(g)
    <3>1. \E od : Become(o, od)
      BY <2>5, ZenonT(40) DEF EnterCancelled
    <3> QED
      BY <2>1, <2>2, <3>1 DEF Handles
  <2>6. CASE SubmitExit(g)
    <3>1. (ord' = ord /\ db' = db) \/ \E od : Become(o, od)
      BY <2>6 DEF SubmitExit
    <3> QED
      BY <2>1, <2>2, <3>1 DEF Handles
  <2>7. CASE ExitSubmitted(g)
    <3>1. \E od : Become(o, od)
      BY <2>7 DEF ExitSubmitted
    <3> QED
      BY <2>1, <2>2, <3>1 DEF Handles
  <2>8. CASE EditTrigger(g) \/ TriggerPut(g) \/ CancelTriggerOds(g)
    BY <2>1, <2>8 DEF EditTrigger, TriggerPut, CancelTriggerOds, Handles
  <2>9. CASE SaveUnlock(g)
    <3>1. db' = (IF IsDirty(o) THEN [db EXCEPT ![o] = ord[o]] ELSE db) /\ ord' = ord
      BY <2>9 DEF SaveUnlock
    <3> QED
      BY <1>0, <3>1
  <2> QED
    BY <1>1, <2>4, <2>5, <2>6, <2>7, <2>8, <2>9 DEF Handler
<1>2. CASE UpdateByMyTrade
  <2> DEFINE o == run["trade"].od
  <2>1. Handles("trade", o) /\ o \in Orders /\ Opened(o)
    <3>1. run["trade"].at = "wait"
      BY <1>2 DEF UpdateByMyTrade
    <3> QED
      BY <1>0, <1>2, <3>1, UpdateByMyTradeHandles DEF IInv, OnlyOpened, IdsNameOrders
  <2>2. PICK od : ord' = [ord EXCEPT ![o] = od] /\ (db' = db \/ db' = [db EXCEPT ![o] = od])
    BY <1>2, ZenonT(40) DEF UpdateByMyTrade
  <2> QED
    BY <1>0, <2>1, <2>2
<1>3. ASSUME NEW o \in Orders, EnterOrder(o) PROVE (db'[p] = db[p] \/ db'[p] = ord'[p]) /\ (ord'[p] = ord[p] \/ p = o)
  BY <1>0, <1>3 DEF EnterOrder
<1>4. ASSUME NEW o \in Orders, PostOrderExit(o) PROVE (db'[p] = db[p] \/ db'[p] = ord'[p]) /\ (ord'[p] = ord[p] \/ Opened(p))
  <2>1. o \in exitReq /\ db' = [db EXCEPT ![o] = ord'[o]] /\ \E od : ord' = [ord EXCEPT ![o] = od]
    BY <1>4 DEF PostOrderExit
  <2> QED
    BY <1>0, <2>1 DEF IInv, OnlyOpened
<1>5. ASSUME NEW o \in Orders, SetStopLoss(o) PROVE (db'[p] = db[p] \/ db'[p] = ord'[p]) /\ (ord'[p] = ord[p] \/ Opened(p))
  <2>1. db' = db /\ ord[o].status = "FullEnter" /\ \E od : ord' = [ord EXCEPT ![o] = od]
    <3>1. ord' = [ord EXCEPT ![o].stop.old = FALSE, ![o].stop.edits = @ + 1]
      BY <1>5 DEF SetStopLoss
    <3> QED
      BY <1>5, <3>1 DEF SetStopLoss
  <2> QED
    BY <1>0, <2>1 DEF Opened
<1>6. UNCHANGED <<ord, db>> => (db'[p] = db[p] \/ db'[p] = ord'[p]) /\ ord'[p] = ord[p]
  OBVIOUS
<1>7. CASE Strategy
  BY <1>3, <1>4, <1>5, <1>6, <1>7 DEF Strategy, ExitOrder
<1> QED
  BY <1>1, <1>2, <1>6, <1>7 DEF Next, HandleOrderQueue, HandleMyTrade, Exchange, Fill, Expire, Happens, local, vars

\* An exit is queued for an order that is asked to exit.
LEMMA NextAsks ==
  ASSUME IInv, [Next]_vars, NEW p \in Orders, ord[p].exitTag => ord'[p].exitTag
  PROVE  StillAsked(p) \/ ord'[p].exitTag
<1>0. TypeOK /\ queue \in Seq(OdQItem) /\ ord \in [Orders -> InOutOrder]
  BY DEF IInv, TypeOK
<1>1. ASSUME NEW item \in OdQItem, queue' = Append(queue, item), item.act # "Exit" \/ item.od # p PROVE StillAsked(p)
  <2>1. \A i \in DOMAIN queue' : queue'[i].act = "Exit" /\ queue'[i].od = p =>
          i \in Nat /\ i + 0 \in DOMAIN queue /\ queue[i + 0] = queue'[i]
    BY <1>0, <1>1, Appended
  <2> QED
    BY <2>1 DEF StillAsked
<1>2. queue' = queue => StillAsked(p)
  BY <1>0, QueueSame
<1>3. ASSUME NEW o \in Orders, EnterOrder(o) PROVE StillAsked(p)
  <2>1. queue' = Append(queue, [od |-> o, act |-> "Enter"]) /\ [od |-> o, act |-> "Enter"] \in OdQItem
    BY <1>3 DEF EnterOrder, OdQItem
  <2> QED
    BY <1>1, <2>1
<1>4. ASSUME NEW o \in Orders, SetStopLoss(o) PROVE StillAsked(p)
  <2>1. queue' = Append(queue, [od |-> o, act |-> "StopLoss"]) /\ [od |-> o, act |-> "StopLoss"] \in OdQItem
    BY <1>4 DEF SetStopLoss, OdQItem
  <2> QED
    BY <1>1, <2>1
<1>5. ASSUME NEW o \in Orders, PostOrderExit(o) PROVE StillAsked(p) \/ ord'[p].exitTag
  <2>1. queue' = Append(queue, [od |-> o, act |-> "Exit"]) /\ [od |-> o, act |-> "Exit"] \in OdQItem
        /\ \E now \in Now : ord' = [ord EXCEPT ![o] = SetExit(@, now)]
    BY <1>5 DEF PostOrderExit, OdQItem
  <2>2. CASE p # o
    BY <1>1, <2>1, <2>2
  <2>3. CASE p = o
    BY <1>0, <2>1, <2>3, SetExitOid DEF Now, TypeOK
  <2> QED
    BY <2>2, <2>3
<1>6. HandleOrderQueue => StillAsked(p)
  BY <1>0, QueueTaken
<1>7. CASE Strategy
  BY <1>2, <1>3, <1>4, <1>5, <1>7 DEF Strategy, ExitOrder
<1>8. ASSUME NEW g \in Threads, Handler(g) PROVE queue' = queue
  BY <1>8, ZenonT(60) DEF Handler, EnterSubmitted, EnterCancelled, SubmitExit, ExitSubmitted, EditTrigger, TriggerPut,
                  CancelTriggerOds, SaveUnlock
<1>9. UpdateByMyTrade => queue' = queue
  BY ZenonT(40) DEF UpdateByMyTrade
<1> QED
  BY <1>2, <1>6, <1>7, <1>8, <1>9 DEF Next, HandleMyTrade, Exchange, Fill, Expire, Happens, local, vars


\* Where a handler may go on an order that is not asked to exit, and what it is told of.
Going(p) ==
  \A g \in Threads :
    /\ NowAt(g, p, {"canceled", "exit", "exited"}) =>
         IsAt(g, p, {"canceled", "exit", "exited"}) \/ ord'[p].exitTag
    /\ NowAt(g, p, {"exited"}) =>
         \/ run'[g] = run[g] \/ run'[g].res.ex = 0
         \/ run'[g].res.ex \in DOMAIN exo' /\ exo'[run'[g].res.ex].od = p
    /\ NowAt(g, p, {"stopped"}) =>
         \/ run'[g] = run[g] \/ run'[g].res.ex = 0
         \/ run'[g].res.ex \in DOMAIN exo' /\ exo'[run'[g].res.ex].od = p /\ exo'[run'[g].res.ex].kind = "stop"

LEMMA SameGoes ==
  ASSUME NEW p, \A g \in Threads : run'[g] = run[g] \/ run'[g].at \in {"idle", "wait", "save", "stop", "cleanup"}
  PROVE  Going(p)
BY DEF Going, NowAt, IsAt

LEMMA HandlerGoesOn ==
  ASSUME IInv, CountedInv, NEW g \in Threads, Handler(g), NEW p \in Orders
  PROVE  Going(p)
<1> DEFINE o == run[g].od
<1>1. Handles(g, o) /\ o \in Orders
  BY HandlerHandles, OrdersNamed DEF IInv
<1>2. \A h \in Threads \ {g} : run'[h] = run[h]
  BY <1>1 DEF Handles
<1>3. ASSUME run'[g].at = "exit" PROVE ord'[o].exitTag
  <2>1. CASE EnterCancelled(g)
    <3>1. IsAt(g, o, {"canceled", "exit", "exited"})
      BY <2>1 DEF EnterCancelled, IsAt
    <3>2. ord[o].exitTag
      BY <1>1, <3>1 DEF CountedInv, TagFirst
    <3> QED
      BY <3>2, HandlerKeepsTag
  <2>2. CASE TriggerPut(g)
    <3>1. run[g].at = "stopped" /\ TypeOK /\ ord \in [Orders -> InOutOrder]
      BY <2>2 DEF TriggerPut, IInv, TypeOK
    <3>2. run[g].res.st = "immediate" \/ Go(g, "save")
      BY <2>2 DEF TriggerPut
    <3>3. Go(g, "save") => run'[g].at = "save"
      BY <3>1 DEF Go, TypeOK, Work
    <3>4. run[g].res.st = "immediate"
      BY <1>3, <3>2, <3>3
    <3>5. \E now \in Now : ord' = [ord EXCEPT ![o] = SetExit(@, now)]
      BY <2>2, <3>4 DEF TriggerPut
    <3> QED
      BY <1>1, <3>1, <3>5, SetExitOid DEF Now, TypeOK
  <2>3. run[g].at \in {"canceled", "stopped"}
    BY <1>3, HandlerKeepsTag
  <2> QED
    BY <2>1, <2>2, <2>3 DEF Handler, EnterSubmitted, SubmitExit, ExitSubmitted, EditTrigger, CancelTriggerOds, SaveUnlock
<1>4. CASE /\ run'[g].at \in {"idle", "save", "stop", "cleanup", "exit"}
  BY <1>1, <1>2, <1>3, <1>4 DEF Going, NowAt, IsAt, Handles
<1>5. CASE run[g].at = "exit" /\ Moves(g, o, "exited") /\ (Created(g, o, "exit") \/ Refused(g))
  BY <1>2, <1>5 DEF Going, NowAt, IsAt, Moves, Created, Refused
<1>6. CASE run[g].at = "stop" /\ Moves(g, o, "stopped") /\ (Created(g, o, "stop") \/ Refused(g))
  BY <1>2, <1>6 DEF Going, NowAt, IsAt, Moves, Created, Refused
<1> QED
  BY <1>4, <1>5, <1>6, HandlerCalls

LEMMA QueueGoesOn ==
  ASSUME IInv, FillsInv, CountedInv, HandleOrderQueue, NEW p \in Orders
  PROVE  Going(p)
<1> DEFINE o == Head(queue).od
           act == Head(queue).act
<1>1. /\ Handles("queue", o) /\ o \in Orders /\ ord' = ord /\ "queue" \in Threads
      /\ \A h \in Threads \ {"queue"} : run'[h] = run[h]
  BY HandleOrderQueueHandles, QueueCalls DEF IInv, Handles, Threads
<1>2. act = "Exit" => ord[o].exitTag
  <2>1. 1 \in DOMAIN queue /\ Head(queue) = queue[1]
    BY Dequeued DEF IInv, HandleOrderQueue
  <2> QED
    BY <1>1, <2>1 DEF CountedInv, TagFirst, Asks
<1>3. run'["queue"].od = o /\ (act = "Exit" \/ run'["queue"].at \in {"save", "stop", "entered"})
  BY QueueCalls DEF Moves
<1>4. run'["queue"].at \in {"save", "exit", "stop", "entered", "canceled"}
  BY QueueCalls DEF Moves
<1> QED
  BY <1>1, <1>2, <1>3, <1>4 DEF Going, NowAt, IsAt

LEMMA NextGoes ==
  ASSUME IInv, FillsInv, CountedInv, [Next]_vars, NEW p \in Orders
  PROVE  Going(p)
<1>0. TypeOK
  BY DEF IInv
<1>1. run' = run => Going(p)
  BY SameGoes
<1>2. CASE Strategy
  BY <1>1, <1>2 DEF Strategy, EnterOrder, ExitOrder, PostOrderExit, SetStopLoss
<1>3. ASSUME NEW t \in net, HandleMyTrade(t) PROVE Going(p)
  <2>1. run' = run \/ \E o : run' = [run EXCEPT !["trade"] = [at |-> "wait", od |-> o, res |-> t]]
    BY <1>3 DEF HandleMyTrade
  <2>2. \A h \in Threads : run'[h] = run[h] \/ run'[h].at = "wait"
    BY <1>0, <2>1 DEF TypeOK
  <2> QED
    BY <2>2, SameGoes
<1>4. CASE UpdateByMyTrade
  <2>1. \E step \in {"cleanup", "stop", "save"} : Moves("trade", run["trade"].od, step)
    BY <1>4, UpdateByMyTradeIs
  <2> QED
    BY <2>1, SameGoes DEF Moves
<1> QED
  BY <1>1, <1>2, <1>3, <1>4, HandlerGoesOn, QueueGoesOn DEF Next, Exchange, Fill, Expire, Happens, local, vars


(* The parts of the invariant. *)

LEMMA OwnIdsStep ==
  ASSUME IInv, CountedInv, [Next]_vars, NEW p \in Orders, ~ (Strategy /\ EnterOrder(p)),
         Follows(p), Going(p), NEW n, Tells(n)
  PROVE  OwnIds(p)'
<1>1. /\ OwnIds(p) /\ Advances(p, ord'[p])
      /\ \A x \in DOMAIN exo : x \in DOMAIN exo' /\ exo'[x].od = exo[x].od /\ exo'[x].kind = exo[x].kind
  BY DEF CountedInv, Follows, Tells
<1>2. NowOpened(p) => db'[p].status # "None" /\ ord'[p].enter.amt = Amount
  <2>1. /\ db'[p] = db[p] \/ db'[p] = ord'[p]
        /\ ord'[p] = ord[p] \/ Opened(p)
    BY NextSaves
  <2> QED
    BY <1>1, <2>1 DEF OwnIds, Advances, Opened, NowOpened
<1>3. ord'[p].enter.upd <= clock'
  <2>1. ord'[p].enter.upd <= clock /\ clock <= clock'
    BY <1>1 DEF Advances, Tells
  <2>2. clock \in Nat /\ (TypeOK' => ord'[p].enter.upd \in Nat /\ clock' \in Nat)
    BY DEF IInv, TypeOK, InOutOrder, SubOrder
  <2>3. TypeOK'
    BY NextIInv DEF IInv
  <2> QED
    BY <2>1, <2>2, <2>3
<1>4. ord'[p].exit.oid # 0 => ord'[p].exit.oid \in DOMAIN exo' /\ exo'[ord'[p].exit.oid].od = p
  <2>1. ASSUME NEW g \in Threads, IsAt(g, p, {"exited"}), ord'[p].exit.oid = run[g].res.ex, run[g].res.ex # 0
        PROVE  run[g].res.ex \in DOMAIN exo' /\ exo'[run[g].res.ex].od = p
    <3>1. run[g].res.ex \in DOMAIN exo
      BY <2>1, HeardNames DEF Heard
    <3> QED
      BY <1>1, <2>1, <3>1 DEF OwnIds
  <2> QED
    BY <1>1, <2>1 DEF OwnIds, Follows
<1>5. ord'[p].stop.oid # 0 =>
        ord'[p].stop.oid \in DOMAIN exo' /\ exo'[ord'[p].stop.oid].kind = "stop" /\ exo'[ord'[p].stop.oid].od = p
  <2>1. ASSUME NEW g \in Threads, IsAt(g, p, {"stopped"}), ord'[p].stop.oid = run[g].res.ex, run[g].res.ex # 0
        PROVE  run[g].res.ex \in DOMAIN exo' /\ exo'[run[g].res.ex].kind = "stop" /\ exo'[run[g].res.ex].od = p
    <3>1. run[g].res.ex \in DOMAIN exo
      BY <2>1, HeardNames DEF Heard
    <3> QED
      BY <1>1, <2>1, <3>1 DEF OwnIds, IsStop
  <2> QED
    BY <1>1, <2>1 DEF OwnIds, Follows, IsStop
<1>6. ASSUME NEW g \in Threads, NowAt(g, p, {"exited"}), run'[g].res.ex # 0
      PROVE  exo'[run'[g].res.ex].od = p
  <2>1. CASE run'[g] = run[g]
    <3>1. run[g].res.ex \in DOMAIN exo
      BY <1>6, <2>1, HeardNames DEF Heard
    <3> QED
      BY <1>1, <1>6, <2>1, <3>1 DEF OwnIds, NowAt, IsAt
  <2> QED
    BY <1>6, <2>1 DEF Going
<1>7. ASSUME NEW g \in Threads, NowAt(g, p, {"stopped"}), run'[g].res.ex # 0
      PROVE  exo'[run'[g].res.ex].kind = "stop" /\ exo'[run'[g].res.ex].od = p
  <2>1. CASE run'[g] = run[g]
    <3>1. run[g].res.ex \in DOMAIN exo
      BY <1>7, <2>1, HeardNames DEF Heard
    <3> QED
      BY <1>1, <1>7, <2>1, <3>1 DEF OwnIds, NowAt, IsAt, IsStop
  <2> QED
    BY <1>7, <2>1 DEF Going
<1>8. \A x \in DOMAIN exo' : NowEntryOf(x, p) /\ exo'[x].st = "filled" => exo'[x].filled # 0
  BY <1>1 DEF OwnIds, EntryOf, NowEntryOf, Tells
<1> QED
  BY <1>2, <1>3, <1>4, <1>5, <1>6, <1>7, <1>8 DEF OwnIds, Opened, NowOpened, IsAt, NowAt, IsStop, EntryOf, NowEntryOf

\* What is noted as done is an order of the exchange for an order that is asked to exit.
LEMMA HandlerDone ==
  ASSUME IInv, NEW g \in Threads, Handler(g)
  PROVE  LET o == run[g].od IN
         \A x \in doneKeys' : \/ x \in doneKeys
                              \/ ord'[o].status = "FullExit" /\ x \in {ord'[o].enter.oid, ord'[o].exit.oid} \ {0}
                              \/ run[g].at = "exited" /\ x = ord[o].exit.oid /\ x # 0
<1> DEFINE o == run[g].od
<1>0. o \in Orders /\ ord \in [Orders -> InOutOrder]
  BY OrdersNamed DEF IInv, TypeOK
<1>1. ASSUME NEW od, Become(o, od), doneKeys' \subseteq Finished(od) \cup
               (IF run[g].at = "exited" THEN {ord[o].exit.oid} \ {0} ELSE {})
      PROVE  \A x \in doneKeys' : \/ x \in doneKeys
                                  \/ ord'[o].status = "FullExit" /\ x \in {ord'[o].enter.oid, ord'[o].exit.oid} \ {0}
                                  \/ run[g].at = "exited" /\ x = ord[o].exit.oid /\ x # 0
  <2>1. ord'[o] = od
    BY <1>0, <1>1 DEF Become
  <2> QED
    BY <1>1, <2>1 DEF Finished
<1>2. CASE EnterSubmitted(g)
  <2>1. doneKeys' = doneKeys \/ \E od : Become(o, od) /\ doneKeys' = Finished(od)
    BY <1>2 DEF EnterSubmitted
  <2> QED
    BY <1>1, <2>1
<1>3. CASE EnterCancelled(g)
  <2>1. \E od : Become(o, od) /\ doneKeys' = Finished(od)
    BY <1>3, ZenonT(40) DEF EnterCancelled
  <2> QED
    BY <1>1, <2>1
<1>4. CASE SubmitExit(g)
  <2>1. doneKeys' = doneKeys \/ \E od : Become(o, od) /\ doneKeys' = Finished(od)
    BY <1>4 DEF SubmitExit
  <2> QED
    BY <1>1, <2>1
<1>5. CASE ExitSubmitted(g)
  <2>1. /\ run[g].at = "exited"
        /\ \/ doneKeys' = doneKeys
           \/ \E od : Become(o, od) /\ doneKeys' = Finished(od) \cup ({ord[o].exit.oid} \ {0, run[g].res.ex})
    BY <1>5, ZenonT(40) DEF ExitSubmitted
  <2> QED
    BY <1>1, <2>1
<1>6. CASE EditTrigger(g) \/ TriggerPut(g) \/ CancelTriggerOds(g) \/ SaveUnlock(g)
  <2>1. doneKeys' = doneKeys
    BY <1>6 DEF EditTrigger, TriggerPut, CancelTriggerOds, SaveUnlock
  <2> QED
    BY <2>1
<1> QED
  BY <1>2, <1>3, <1>4, <1>5, <1>6 DEF Handler

LEMMA TradeDone ==
  ASSUME IInv, UpdateByMyTrade
  PROVE  LET o == run["trade"].od IN
         \A x \in doneKeys' : \/ x \in doneKeys
                              \/ ord'[o].status = "FullExit" /\ x \in {ord'[o].enter.oid, ord'[o].exit.oid} \ {0}
<1> DEFINE o == run["trade"].od
<1>1. o \in Orders /\ ord \in [Orders -> InOutOrder]
  BY OrdersNamed DEF IInv, TypeOK, Threads
<1>2. PICK last : ord' = [ord EXCEPT ![o] = last] /\ (doneKeys' = Finished(last) \/ doneKeys' = doneKeys)
  BY ZenonT(40) DEF UpdateByMyTrade
<1>3. ord'[o] = last
  BY <1>1, <1>2
<1> QED
  BY <1>2, <1>3 DEF Finished

LEMMA NextDone ==
  ASSUME IInv, FillsInv, CountedInv, [Next]_vars, NEW n, Tells(n), FillsInv',
         \A p \in Orders : ~ (Strategy /\ EnterOrder(p)) => OwnIds(p)' /\ Follows(p)
  PROVE  \A x \in doneKeys' : \/ x \in doneKeys
                              \/ \E o \in Orders : x \in DOMAIN exo' /\ exo'[x].od = o /\ ord'[o].exitTag
<1>1. ASSUME NEW o \in Orders, ~ (Strategy /\ EnterOrder(o)), ord'[o].status = "FullExit",
             NEW x \in {ord'[o].enter.oid, ord'[o].exit.oid} \ {0}
      PROVE  x \in DOMAIN exo' /\ exo'[x].od = o /\ ord'[o].exitTag
  <2>1. ord'[o].exitTag
    BY <1>1 DEF Follows, Advances
  <2>2. ord'[o].enter.oid # 0 => ord'[o].enter.oid \in DOMAIN exo' /\ exo'[ord'[o].enter.oid].od = o
    BY DEF FillsInv, EntriesKnown, EntryOf
  <2>3. ord'[o].exit.oid # 0 => ord'[o].exit.oid \in DOMAIN exo' /\ exo'[ord'[o].exit.oid].od = o
    BY <1>1 DEF OwnIds
  <2> QED
    BY <1>1, <2>1, <2>2, <2>3
<1>2. TypeOK
  BY DEF IInv
<1>3. ASSUME NEW g \in Threads, Handler(g), NEW x \in doneKeys', x \notin doneKeys, ~ Strategy
      PROVE  \E o \in Orders : x \in DOMAIN exo' /\ exo'[x].od = o /\ ord'[o].exitTag
  <2> DEFINE o == run[g].od
  <2>1. o \in Orders
    BY <1>2, OrdersNamed
  <2>2. CASE ord'[o].status = "FullExit" /\ x \in {ord'[o].enter.oid, ord'[o].exit.oid} \ {0}
    BY <1>1, <1>3, <2>1, <2>2
  <2>3. CASE run[g].at = "exited" /\ x = ord[o].exit.oid /\ x # 0
    <3>1. ord[o].exitTag /\ x \in DOMAIN exo /\ exo[x].od = o
      BY <2>1, <2>3 DEF CountedInv, TagFirst, OwnIds, IsAt
    <3>2. x \in DOMAIN exo' /\ exo'[x].od = o
      BY <3>1 DEF Tells
    <3>3. ord'[o].exitTag
      BY <1>3, <3>1, HandlerKeepsTag
    <3> QED
      BY <2>1, <3>2, <3>3
  <2> QED
    BY <1>3, <2>2, <2>3, HandlerDone
<1>4. ASSUME UpdateByMyTrade, NEW x \in doneKeys', x \notin doneKeys, ~ Strategy
      PROVE  \E o \in Orders : x \in DOMAIN exo' /\ exo'[x].od = o /\ ord'[o].exitTag
  BY <1>1, <1>2, <1>4, TradeDone, UpdateByMyTradeHandles
<1>5. CASE Strategy
  BY <1>5 DEF Strategy, EnterOrder, ExitOrder, PostOrderExit, SetStopLoss
<1> QED
  BY <1>3, <1>4, <1>5 DEF Next, HandleOrderQueue, HandleMyTrade, Exchange, Fill, Expire, Happens, local, vars


LEMMA TagFirstStep ==
  ASSUME IInv, CountedInv, [Next]_vars, NEW p \in Orders, ~ (Strategy /\ EnterOrder(p)),
         Follows(p), Going(p), NEW n, Tells(n),
         \A x \in doneKeys' : \/ x \in doneKeys
                              \/ \E o \in Orders : x \in DOMAIN exo' /\ exo'[x].od = o /\ ord'[o].exitTag
  PROVE  TagFirst(p)'
<1> SUFFICES ASSUME ~ ord'[p].exitTag
             PROVE  /\ ord'[p].status # "FullExit" /\ ord'[p].exit.st = "None"
                    /\ \A i \in DOMAIN queue' : ~ (queue'[i].act = "Exit" /\ queue'[i].od = p)
                    /\ \A g \in Threads : ~ NowAt(g, p, {"canceled", "exit", "exited"})
                    /\ \A x \in DOMAIN exo' : NowEntryOf(x, p) => exo'[x].st # "canceled" /\ x \notin doneKeys'
  BY DEF TagFirst, Asks, IsAt, NowAt, EntryOf, NowEntryOf
<1>1. ~ ord[p].exitTag /\ ord'[p].status # "FullExit" /\ ord'[p].exit.st = "None"
  BY DEF Follows, Advances
<1>2. TagFirst(p) /\ StampsFit
  BY DEF CountedInv
<1>3. \A i \in DOMAIN queue' : ~ (queue'[i].act = "Exit" /\ queue'[i].od = p)
  BY <1>1, <1>2, NextAsks DEF StillAsked, TagFirst, Asks
<1>4. \A g \in Threads : ~ NowAt(g, p, {"canceled", "exit", "exited"})
  BY <1>1, <1>2 DEF Going, TagFirst
<1>5. ASSUME NEW x \in DOMAIN exo', NowEntryOf(x, p)
      PROVE  exo'[x].st # "canceled" /\ x \notin doneKeys'
  <2>1. exo'[x].st # "canceled"
    BY <1>1, <1>2, <1>5 DEF Tells, TagFirst, EntryOf, NowEntryOf
  <2>2. x \notin doneKeys
    BY <1>1, <1>2, <1>5 DEF Tells, TagFirst, EntryOf, NowEntryOf, StampsFit
  <2>3. \A o \in Orders : exo'[x].od = o => ~ ord'[o].exitTag
    BY <1>5 DEF NowEntryOf
  <2> QED
    BY <2>1, <2>2, <2>3
<1> QED
  BY <1>1, <1>3, <1>4, <1>5

LEMMA NextStamps ==
  ASSUME IInv, [Next]_vars
  PROVE  \A a \in doneTrades' : \/ a \in doneTrades
                                \/ UpdateByMyTrade /\ a = run["trade"].res.at
<1>1. UpdateByMyTrade => doneTrades' = doneTrades \cup {run["trade"].res.at}
  BY ZenonT(40) DEF UpdateByMyTrade
<1>2. ASSUME NEW g \in Threads, Handler(g) PROVE doneTrades' = doneTrades
  BY <1>2, ZenonT(60) DEF Handler, EnterSubmitted, EnterCancelled, SubmitExit, ExitSubmitted, EditTrigger, TriggerPut,
                  CancelTriggerOds, SaveUnlock
<1>3. CASE Strategy
  BY <1>3 DEF Strategy, EnterOrder, ExitOrder, PostOrderExit, SetStopLoss
<1>4. HandleOrderQueue => doneTrades' = doneTrades
  BY ZenonT(40) DEF HandleOrderQueue
<1> QED
  BY <1>1, <1>2, <1>3, <1>4 DEF Next, HandleMyTrade, Exchange, Fill, Expire, Happens, local, vars

LEMMA StampsFitStep ==
  ASSUME IInv, FillsInv, CountedInv, [Next]_vars, NEW n, Tells(n),
         \A p \in Orders : ~ (Strategy /\ EnterOrder(p)) => Follows(p),
         \A x \in doneKeys' : \/ x \in doneKeys
                              \/ \E o \in Orders : x \in DOMAIN exo' /\ exo'[x].od = o /\ ord'[o].exitTag
  PROVE  StampsFit'
<1>1. /\ StampsFit /\ TypeOK /\ TypeOK' /\ clock \in Nat /\ clock' \in Nat /\ clock <= clock'
      /\ \A x \in DOMAIN exo : /\ x \in DOMAIN exo' /\ exo'[x].od = exo[x].od /\ exo'[x].kind = exo[x].kind
                               /\ exo[x].st # "live" => exo'[x] = exo[x]
  BY NextIInv DEF CountedInv, IInv, TypeOK, Tells
<1>2. \A r \in NowHeard : r.ex # 0 =>
        \/ r \in Heard /\ r.ex \in DOMAIN exo /\ r.at \in Nat /\ r.at <= clock
        \/ r = n /\ r.at = clock' /\ clock' = clock + 1 /\ r.ex \in DOMAIN exo'
  BY <1>1, HeardNames, Kinds DEF Tells, FillsInv, ReportsAgree
<1>3. UpdateByMyTrade => run["trade"].res \in Heard /\ NowHeard \subseteq Heard
  <2>1. ASSUME UpdateByMyTrade PROVE NowHeard \subseteq Heard
    <3>1. UNCHANGED exchange /\ \E step \in {"cleanup", "stop", "save"} : Go("trade", step)
      BY <2>1, ZenonT(40) DEF UpdateByMyTrade
    <3>2. \A h \in Threads : run'[h].res \in Heard
      BY <3>1, GoHears DEF Steps, Threads
    <3> QED
      BY <3>1, <3>2 DEF NowHeard, Heard, exchange
  <2> QED
    BY <2>1 DEF Heard, Threads
<1>4. doneTrades' \subseteq 0 .. clock'
  <2>1. UpdateByMyTrade => run["trade"].res.at \in 0 .. clock
    BY <1>1, <1>3, Kinds DEF FillsInv, ReportsAgree
  <2>2. 0 .. clock \subseteq 0 .. clock'
    BY <1>1
  <2> QED
    BY <1>1, <2>1, <2>2, NextStamps DEF StampsFit
<1>5. doneKeys' \subseteq DOMAIN exo'
  BY <1>1 DEF StampsFit
<1>6. \A r, s \in NowHeard : r.ex # 0 /\ s.ex # 0 /\ r.at = s.at => r.ex = s.ex
  <2> SUFFICES ASSUME NEW r \in NowHeard, NEW s \in NowHeard, r.ex # 0, s.ex # 0, r.at = s.at
               PROVE  r.ex = s.ex
    OBVIOUS
  <2>1. CASE r \in Heard /\ s \in Heard
    BY <1>1, <2>1 DEF StampsFit
  <2> QED
    BY <1>1, <1>2, <2>1
<1>7. ASSUME NEW r \in NowHeard, r.ex # 0
      PROVE  /\ r.st \in {"live", "filled", "canceled"}
             /\ r.st # "live" => exo'[r.ex].st = r.st /\ exo'[r.ex].filled = r.filled
  <2>1. CASE r \in Heard
    BY <1>1, <1>2, <1>7, <2>1, HeardNames DEF StampsFit
  <2>2. CASE r = n
    <3>1. n.ex \in DOMAIN exo' /\ n.filled = exo'[n.ex].filled /\ n.st = exo'[n.ex].st
      BY <1>7, <2>2 DEF Tells
    <3>2. exo'[n.ex].st \in {"live", "filled", "canceled"}
      BY <1>1, <3>1, NowKinds DEF ExgOrder
    <3> QED
      BY <2>2, <3>1, <3>2
  <2> QED
    BY <1>2, <1>7, <2>1, <2>2
<1>8. ASSUME NEW r \in NowHeard, r.ex # 0, exo'[r.ex].kind = "enter", r.at \in doneTrades'
      PROVE  r.at <= ord'[exo'[r.ex].od].enter.upd \/ ord'[exo'[r.ex].od].enter.st = "Closed"
  <2>1. r \in Heard /\ r.ex \in DOMAIN exo /\ r.at \in Nat /\ r.at <= clock
    <3>1. CASE r = n /\ r.at = clock' /\ clock' = clock + 1
      <4>1. r.at \notin doneTrades
        BY <1>1, <3>1 DEF StampsFit
      <4> QED
        BY <1>2, <1>3, <1>8, <4>1, NextStamps, HeardNames, <1>1, <3>1 DEF FillsInv, ReportsAgree
    <3> QED
      BY <1>2, <1>8, <3>1
  <2> DEFINE p == exo[r.ex].od
  <2>2. p \in Orders /\ exo'[r.ex].od = p /\ EntryOf(r.ex, p)
    BY <1>1, <1>8, <2>1, OrdersNamed DEF EntryOf
  <2>3. ~ (Strategy /\ EnterOrder(p))
    BY <2>1, <2>2, EnterOrderIs
  <2>4. Follows(p) /\ TypeOK
    BY <2>2, <2>3, <1>1
  <2>5. /\ ord[p].enter.upd <= ord'[p].enter.upd /\ (EntryClosed(p) => ord'[p].enter.st = "Closed")
        /\ ord[p].enter.upd \in Nat /\ ord'[p].enter.upd \in Nat
    <3>1. ord[p] \in InOutOrder /\ ord'[p] \in InOutOrder
      BY <1>1, <2>2 DEF TypeOK
    <3>2. ord[p].enter.upd \in Nat /\ ord'[p].enter.upd \in Nat
      BY <3>1 DEF InOutOrder, SubOrder
    <3> QED
      BY <2>4, <3>2 DEF Follows, Advances
  <2>6. CASE r.at \in doneTrades
    <3>1. r.at <= ord[p].enter.upd \/ EntryClosed(p)
      BY <1>1, <1>8, <2>1, <2>2, <2>6 DEF StampsFit
    <3> QED
      BY <2>1, <2>2, <2>5, <3>1
  <2>7. CASE UpdateByMyTrade /\ r.at = run["trade"].res.at
    <3>1. run["trade"].at = "wait" /\ run["trade"].res \in Heard /\ run["trade"].res.ex \in DOMAIN exo
      BY <1>3, <2>7 DEF UpdateByMyTrade, IInv, IdsNameOrders
    <3>2. run["trade"].res.ex = r.ex
      BY <1>1, <1>8, <2>1, <2>7, <3>1, Kinds DEF StampsFit
    <3>3. r.at <= ord'[p].enter.upd \/ ord'[p].enter.st = "Closed"
      BY <2>2, <2>7, <3>2, TradeFollows
    <3> QED
      BY <2>2, <3>3
  <2> QED
    BY <1>8, <2>6, <2>7, NextStamps
<1> QED
  BY <1>4, <1>5, <1>6, <1>7, <1>8 DEF StampsFit, Heard, NowHeard, EntryClosed


\* A trade of the entry that is coming is not lost.
Keeps(p) ==
  \A c \in Coming(p) : EntryOf(c.ex, p) =>
    \/ c \in net' \/ (c = run'["trade"].res /\ NowAt("trade", p, {"wait"}))
    \/ c.at <= ord'[p].enter.upd \/ ord'[p].enter.st = "Closed" \/ ord'[p].exitTag

LEMMA CallKeeps ==
  ASSUME NEW g, NEW o, NEW kind, NEW amt, NEW next,
         CreateOrder(g, o, kind, amt, next) \/ CancelEnter(g, o, amt) \/ UNCHANGED exchange
  PROVE  net \subseteq net'
BY DEF CreateOrder, CancelEnter, exchange

LEMMA HandlerKeeps ==
  ASSUME IInv, NEW g \in Threads, Handler(g)
  PROVE  net \subseteq net'
<1> DEFINE o == run[g].od
<1>1. CASE EnterSubmitted(g)
  BY <1>1 DEF EnterSubmitted, exchange
<1>2. CASE EnterCancelled(g)
  BY <1>2, ZenonT(40) DEF EnterCancelled, exchange
<1>3. CASE SubmitExit(g)
  <2>1. UNCHANGED exchange \/ \E amt : CreateOrder(g, o, "exit", amt, "exited")
    BY <1>3 DEF SubmitExit
  <2> QED
    BY <2>1, CallKeeps
<1>4. CASE ExitSubmitted(g)
  BY <1>4 DEF ExitSubmitted, exchange
<1>5. CASE EditTrigger(g)
  <2>1. UNCHANGED exchange \/ CreateOrder(g, o, "stop", ord[o].enter.amt, "stopped")
    BY <1>5 DEF EditTrigger
  <2> QED
    BY <2>1, CallKeeps
<1>6. CASE TriggerPut(g) \/ CancelTriggerOds(g) \/ SaveUnlock(g)
  BY <1>6 DEF TriggerPut, CancelTriggerOds, SaveUnlock, exchange
<1> QED
  BY <1>1, <1>2, <1>3, <1>4, <1>5, <1>6 DEF Handler

LEMMA QueueKeeps ==
  ASSUME IInv, HandleOrderQueue
  PROVE  net \subseteq net'
<1> DEFINE o == Head(queue).od
<1>1. Head(queue).act \in {"Enter", "Exit", "StopLoss"}
  BY Dequeued, OrdersNamed DEF IInv, HandleOrderQueue, OdQItem
<1>2. \/ UNCHANGED exchange
      \/ CreateOrder("queue", o, "enter", ord[o].enter.amt, "entered")
      \/ CancelEnter("queue", o, ord[o].enter.oid)
  BY <1>1 DEF HandleOrderQueue
<1> QED
  BY <1>2, CallKeeps

LEMMA TradeReceived ==
  ASSUME IInv, CountedInv, NEW t \in net, HandleMyTrade(t), NEW p \in Orders
  PROVE  Keeps(p)
<1>1. /\ run["trade"].at = "idle" /\ ord' = ord /\ run \in [Threads -> Work] /\ "trade" \in Threads
      /\ \A c \in net : c = t \/ c \in net'
  BY DEF HandleMyTrade, IInv, TypeOK, Threads
<1>2. SUFFICES ASSUME EntryOf(t.ex, p), t \notin net', ~ ord[p].exitTag
               PROVE  \/ t = run'["trade"].res /\ NowAt("trade", p, {"wait"})
                      \/ t.at <= ord[p].enter.upd \/ ord[p].enter.st = "Closed"
  BY <1>1 DEF Keeps, Coming, IsAt
<1>3. CASE t.at \in doneTrades
  <2>1. t \in Heard /\ t.ex # 0
    BY <1>2, Kinds DEF IInv, EntryOf, Heard
  <2> QED
    BY <1>2, <1>3, <2>1 DEF CountedInv, StampsFit, EntryOf, EntryClosed
<1>4. t.ex \notin doneKeys
  BY <1>2 DEF CountedInv, TagFirst, EntryOf
<1>5. p \in openOds
  <2>1. Opened(p) /\ ord[p].status # "FullExit"
    BY <1>2 DEF IInv, OnlyOpened, EntryOf, CountedInv, TagFirst
  <2>2. db[p].status # "None" /\ db[p].status # "FullExit"
    BY <2>1 DEF CountedInv, OwnIds, IInv, LockedUntilClosed
  <2>3. db[p] \in InOutOrder
    BY DEF IInv, TypeOK
  <2> QED
    BY <2>2, <2>3 DEF openOds, InOutOrder
<1>6. CASE t.at \notin doneTrades
  <2>1. run' = [run EXCEPT !["trade"] = [at |-> "wait", od |-> p, res |-> t]]
    BY <1>2, <1>4, <1>5, <1>6 DEF HandleMyTrade, EntryOf
  <2> QED
    BY <1>1, <2>1 DEF NowAt
<1> QED
  BY <1>3, <1>6

LEMMA NextKeeps ==
  ASSUME IInv, FillsInv, CountedInv, [Next]_vars, NEW p \in Orders
  PROVE  Keeps(p)
<1>0. TypeOK
  BY DEF IInv
<1>1. ASSUME net \subseteq net', run["trade"].at = "wait" => run'["trade"] = run["trade"] PROVE Keeps(p)
  BY <1>1 DEF Keeps, Coming, IsAt, NowAt
<1>2. CASE Strategy
  BY <1>1, <1>2 DEF Strategy, EnterOrder, ExitOrder, PostOrderExit, SetStopLoss, exchange
<1>3. CASE HandleOrderQueue
  <2>1. Handles("queue", Head(queue).od)
    BY <1>0, <1>3, HandleOrderQueueHandles
  <2> QED
    BY <1>1, <1>3, <2>1, QueueKeeps DEF Handles, Threads
<1>4. ASSUME NEW g \in Threads, Handler(g) PROVE Keeps(p)
  <2>1. run[g].at # "wait"
    BY <1>4 DEF Handler, EnterSubmitted, EnterCancelled, SubmitExit, ExitSubmitted, EditTrigger, TriggerPut,
                CancelTriggerOds, SaveUnlock
  <2>2. Handles(g, run[g].od)
    BY <1>0, <1>4, HandlerHandles
  <2> QED
    BY <1>1, <1>4, <2>1, <2>2, HandlerKeeps DEF Handles, Threads
<1>5. CASE UpdateByMyTrade
  <2>1. net' = net /\ (EntryOf(run["trade"].res.ex, p) =>
          run["trade"].res.at <= ord'[p].enter.upd \/ ord'[p].enter.st = "Closed")
    BY <1>5, TradeFollows DEF UpdateByMyTrade, exchange
  <2> QED
    BY <2>1 DEF Keeps, Coming
<1>6. CASE Exchange
  BY <1>1, <1>6 DEF Exchange, Fill, Expire, Happens, local
<1>7. CASE UNCHANGED vars
  BY <1>1, <1>7 DEF vars
<1> QED
  BY <1>2, <1>3, <1>4, <1>5, <1>6, <1>7, TradeReceived DEF Next


LEMMA CountedStep ==
  ASSUME IInv, TypeOK', FillsInv, FillsInv', CountedInv, NEW p \in Orders, Follows(p), Keeps(p), NEW n, Tells(n)
  PROVE  Counted(p)'
<1> SUFFICES ASSUME ~ ord'[p].exitTag, NEW x \in DOMAIN exo', NowEntryOf(x, p)
             PROVE  /\ \/ ord'[p].enter.filled = exo'[x].filled
                       \/ \E r \in net' \cup {r \in {run'["trade"].res} : NowAt("trade", p, {"wait"})} :
                            r.ex = x /\ r.filled = exo'[x].filled /\ r.at > ord'[p].enter.upd
                    /\ ord'[p].enter.st = "Closed" =>
                         ord'[p].enter.filled = exo'[x].filled /\ exo'[x].st = "filled"
  BY DEF Counted, Coming, IsAt, NowAt, EntryOf, NowEntryOf, EntryClosed
<1> DEFINE e == ord'[p].enter
           NowComing == net' \cup {r \in {run'["trade"].res} : NowAt("trade", p, {"wait"})}
<1>1. /\ Counted(p) /\ StampsFit /\ TypeOK /\ ~ ord[p].exitTag
      /\ Stays(p, e) \/ \E r \in Heard : Takes(p, e, r)
      /\ ord[p].enter.upd <= e.upd /\ e.upd <= clock
  BY DEF CountedInv, IInv, Follows, Advances
<1>2. /\ clock \in Nat /\ e.upd \in Nat /\ e.filled \in Nat /\ ord[p].enter.upd \in Nat /\ ord[p].enter.filled \in Nat
      /\ exo'[x].filled \in Nat
  <2>1. ord'[p] \in InOutOrder
    BY DEF TypeOK
  <2>2. e.upd \in Nat /\ e.filled \in 0 .. Amount
    BY <2>1 DEF InOutOrder, SubOrder
  <2>3. ord[p].enter.filled \in 0 .. Amount /\ ord[p].enter.upd \in Nat /\ clock \in Nat
    BY <1>1, Kinds
  <2>4. exo'[x].filled \in 0 .. Amount
    BY NowKinds
  <2> QED
    BY <2>2, <2>3, <2>4
<1>3. \A y \in DOMAIN exo : EntryOf(y, p) => y = x
  <2>1. \A y \in DOMAIN exo : EntryOf(y, p) => NowEntryOf(y, p)
    BY DEF Tells, EntryOf, NowEntryOf
  <2> QED
    BY <2>1 DEF FillsInv, EntriesKnown, NowEntryOf
<1>4. \A r \in Heard : Takes(p, e, r) => /\ r.ex = x /\ x \in DOMAIN exo /\ EntryOf(x, p) /\ r.at \in Nat /\ r.filled \in Nat
                                        /\ ord[p].enter.filled <= r.filled /\ r.filled <= exo[x].filled
  <2> SUFFICES ASSUME NEW r \in Heard, Takes(p, e, r)
               PROVE  /\ r.ex = x /\ x \in DOMAIN exo /\ EntryOf(x, p) /\ r.at \in Nat /\ r.filled \in Nat
                      /\ ord[p].enter.filled <= r.filled /\ r.filled <= exo[x].filled
    OBVIOUS
  <2>1. EntryOf(r.ex, p) /\ ord[p].enter.upd <= r.at /\ r.ex = x /\ x \in DOMAIN exo
    BY <1>3 DEF Takes, EntryOf
  <2>2. r.at \in Nat /\ r.filled \in Nat /\ r.ex # 0
    BY <1>1, <2>1, Kinds
  <2> QED
    BY <2>1, <2>2 DEF FillsInv, NotAhead, ReportsAgree
\* The entry is new at the exchange.
<1>5. CASE x \notin DOMAIN exo
  <2>1. /\ Untouched(p) /\ exo'[x].st # "canceled" /\ n.ex = x
        /\ n \in net' \/ exo'[x].filled = 0
        /\ n.at = clock + 1 /\ n.filled = exo'[x].filled
    <3>1. x # 0
      BY NowKinds
    <3> QED
      BY <1>1, <1>5, <3>1 DEF Tells, NowEntryOf
  <2>2. Stays(p, e)
    BY <1>1, <1>4, <1>5
  <2>3. ord[p].enter.filled = 0
    BY <1>3, <1>5 DEF FillsInv, NotAhead, EntryOf
  <2>4. e.st # "Closed" /\ e.filled = 0
    BY <2>1, <2>2, <2>3 DEF Stays, Untouched, EntryClosed
  <2>5. n.at > e.upd
    BY <1>1, <1>2, <2>1
  <2> QED
    BY <2>1, <2>4, <2>5
\* The entry changed at the exchange.
<1>6. CASE x \in DOMAIN exo /\ exo'[x] # exo[x]
  <2>1. /\ n.ex = x /\ n \in net' /\ n.at = clock + 1 /\ n.filled = exo'[x].filled /\ exo[x].st = "live"
    <3>1. x # 0
      BY NowKinds
    <3> QED
      BY <1>1, <1>6, <3>1 DEF Tells, NowEntryOf
  <2>2. EntryOf(x, p)
    BY <1>6 DEF Tells, EntryOf, NowEntryOf
  <2>3. ~ EntryClosed(p)
    BY <1>1, <1>6, <2>1, <2>2 DEF Counted
  <2>4. e.st # "Closed"
    <3>1. Stays(p, e) => e.st # "Closed"
      BY <2>3 DEF Stays
    <3>2. ASSUME NEW r \in Heard, Takes(p, e, r), e.st = "Closed" PROVE FALSE
      <4>1. r.st = "filled" /\ r.ex = x /\ r.ex # 0
        BY <1>1, <1>4, <2>3, <3>2, Kinds DEF Takes
      <4> QED
        BY <1>1, <2>1, <3>2, <4>1 DEF StampsFit
    <3> QED
      BY <1>1, <3>1, <3>2
  <2>5. n.at > e.upd
    BY <1>1, <1>2, <2>1
  <2> QED
    BY <2>1, <2>4, <2>5
\* Nothing happened to the entry at the exchange.
<1>7. CASE x \in DOMAIN exo /\ exo'[x] = exo[x]
  <2>1. EntryOf(x, p)
    BY <1>7 DEF EntryOf, NowEntryOf
  <2>2. /\ \/ ord[p].enter.filled = exo[x].filled
           \/ \E c \in Coming(p) : c.ex = x /\ c.filled = exo[x].filled /\ c.at > ord[p].enter.upd
        /\ EntryClosed(p) => ord[p].enter.filled = exo[x].filled /\ exo[x].st = "filled"
    BY <1>1, <1>7, <2>1 DEF Counted
  <2>3. ASSUME NEW r \in Heard, Takes(p, e, r), r.st = "filled"
        PROVE  e.filled = exo[x].filled /\ exo[x].st = "filled"
    <3>1. r.ex = x /\ r.ex # 0
      BY <1>4, <2>3, <1>1, Kinds
    <3>2. exo[x].st = "filled" /\ exo[x].filled = r.filled
      BY <1>1, <2>3, <3>1 DEF StampsFit
    <3> QED
      BY <2>3, <3>2 DEF Takes
  <2>4. CASE ord[p].enter.filled = exo[x].filled
    <3>1. e.filled = exo[x].filled
      <4>1. CASE Stays(p, e)
        BY <2>4, <4>1 DEF Stays
      <4>2. ASSUME NEW r \in Heard, Takes(p, e, r) PROVE e.filled = exo[x].filled
        <5>1. r.filled \in Nat /\ ord[p].enter.filled <= r.filled /\ r.filled <= exo[x].filled /\ e.filled = r.filled
          BY <1>4, <4>2 DEF Takes
        <5> QED
          BY <1>2, <1>7, <2>4, <5>1
      <4> QED
        BY <1>1, <4>1, <4>2
    <3>2. e.st = "Closed" => exo[x].st = "filled"
      BY <1>1, <2>2, <2>3 DEF Stays, Takes
    <3> QED
      BY <1>7, <3>1, <3>2
  <2>5. ASSUME NEW c \in Coming(p), c.ex = x, c.filled = exo[x].filled, c.at > ord[p].enter.upd, ~ EntryClosed(p)
        PROVE  /\ e.filled = exo[x].filled \/ (c \in NowComing /\ c.at > e.upd)
               /\ e.st = "Closed" => e.filled = exo[x].filled /\ exo[x].st = "filled"
    <3>1. c \in Heard /\ c.at \in Nat /\ c.filled \in Nat
      BY <1>1, Kinds DEF Coming, Heard, Threads
    <3>2. c \in NowComing \/ c.at <= e.upd \/ e.st = "Closed"
      BY <2>1, <2>5 DEF Keeps
    <3>3. CASE Stays(p, e)
      <4>1. e.upd = ord[p].enter.upd /\ e.st # "Closed"
        BY <2>5, <3>3 DEF Stays
      <4> QED
        BY <1>2, <2>5, <3>1, <3>2, <4>1
    <3>4. ASSUME NEW r \in Heard, Takes(p, e, r)
          PROVE  /\ e.filled = exo[x].filled \/ (c \in NowComing /\ c.at > e.upd)
                 /\ e.st = "Closed" => e.filled = exo[x].filled /\ exo[x].st = "filled"
      <4>1. e.st = "Closed" => r.st = "filled"
        BY <2>5, <3>4 DEF Takes
      <4>2. /\ r.ex = x /\ r.at \in Nat /\ r.filled \in Nat /\ r.filled <= exo[x].filled
            /\ e.upd = r.at /\ e.filled = r.filled
        BY <1>4, <3>4 DEF Takes
      <4>3. CASE c.at <= r.at
        <5>1. c.filled <= r.filled
          <6>1. x # 0
            BY <1>1, <1>7, Kinds
          <6> QED
            BY <2>5, <3>1, <3>4, <4>2, <4>3, <6>1 DEF FillsInv, ReportsAgree
        <5>2. e.filled = exo[x].filled
          BY <1>2, <1>7, <2>5, <3>1, <4>2, <5>1
        <5> QED
          BY <2>3, <3>4, <4>1, <5>2
      <4>4. CASE ~ (c.at <= r.at)
        <5>1. c.at > e.upd /\ ~ (c.at <= e.upd)
          BY <3>1, <4>2, <4>4
        <5> QED
          BY <2>3, <3>2, <3>4, <4>1, <5>1
      <4> QED
        BY <4>3, <4>4
    <3> QED
      BY <1>1, <3>3, <3>4
  <2> QED
    BY <1>7, <2>2, <2>4, <2>5
<1> QED
  BY <1>5, <1>6, <1>7


\* A new order.
LEMMA EnterOrderCounted ==
  ASSUME IInv, NEW p \in Orders, EnterOrder(p)
  PROVE  OwnIds(p)' /\ TagFirst(p)' /\ Counted(p)'
<1>1. /\ \A x \in DOMAIN exo : exo[x].od # p
      /\ \A g \in Threads : ~ Holds(g, p)
      /\ \A i \in DOMAIN queue : queue[i].od # p
      /\ ord'[p].status = "Init"
      /\ queue' = Append(queue, [od |-> p, act |-> "Enter"]) /\ UNCHANGED <<run, exchange>>
  BY EnterOrderIs
<1>2. ord'[p] = [NoOrder EXCEPT !.status = "Init", !.enter = NewSub(Amount, clock)] /\ db'[p] = ord'[p]
  BY DEF EnterOrder, IInv, TypeOK
<1>3. /\ ord'[p].enter.amt = Amount /\ ord'[p].enter.upd = clock /\ ord'[p].exit.oid = 0 /\ ord'[p].stop.oid = 0
      /\ ord'[p].exit.st = "None"
  BY <1>2 DEF NoOrder, NewSub, NoSub
<1>4. TypeOK /\ exo' = exo /\ run' = run /\ clock' = clock /\ clock \in Nat /\ [od |-> p, act |-> "Enter"] \in OdQItem
  BY <1>1 DEF exchange, IInv, TypeOK, OdQItem
<1>5. \A i \in DOMAIN queue' : ~ (queue'[i].act = "Exit" /\ queue'[i].od = p)
  BY <1>1, <1>4, Appended
<1>6. \A g \in Threads : \A steps : steps \cap {"idle", "wait"} = {} => ~ IsAt(g, p, steps)'
  BY <1>1, <1>4 DEF IsAt, Holds
<1>7. \A x \in DOMAIN exo' : ~ EntryOf(x, p)'
  BY <1>1, <1>4 DEF EntryOf
<1>8. OwnIds(p)'
  BY <1>1, <1>2, <1>3, <1>4, <1>6, <1>7 DEF OwnIds
<1>9. TagFirst(p)'
  BY <1>1, <1>3, <1>5, <1>6, <1>7 DEF TagFirst, Asks
<1> QED
  BY <1>7, <1>8, <1>9 DEF Counted

LEMMA NextCounted ==
  ASSUME ~ Expires, IInv, FillsInv, CountedInv, [Next]_vars
  PROVE  CountedInv'
<1>1. IInv' /\ FillsInv' /\ TypeOK'
  BY NextIInv, NextFills DEF IInv
<1>2. PICK n : Tells(n)
  BY NextTells
<1>3. ASSUME NEW p \in Orders, ~ (Strategy /\ EnterOrder(p))
      PROVE  Follows(p) /\ Going(p) /\ Keeps(p) /\ OwnIds(p)' /\ Counted(p)'
  <2>1. Follows(p) /\ Going(p) /\ Keeps(p)
    BY <1>3, NextFollows, NextGoes, NextKeeps
  <2>2. OwnIds(p)'
    BY <1>2, <1>3, <2>1, OwnIdsStep
  <2>3. Counted(p)'
    BY <1>1, <1>2, <2>1, CountedStep
  <2> QED
    BY <2>1, <2>2, <2>3
<1>4. \A x \in doneKeys' : \/ x \in doneKeys
                           \/ \E o \in Orders : x \in DOMAIN exo' /\ exo'[x].od = o /\ ord'[o].exitTag
  BY <1>1, <1>2, <1>3, NextDone
<1>5. StampsFit'
  BY <1>2, <1>3, <1>4, StampsFitStep
<1>6. ASSUME NEW p \in Orders PROVE OwnIds(p)' /\ TagFirst(p)' /\ Counted(p)'
  <2>1. CASE Strategy /\ EnterOrder(p)
    BY <2>1, EnterOrderCounted
  <2>2. CASE ~ (Strategy /\ EnterOrder(p))
    BY <1>2, <1>3, <1>4, <2>2, TagFirstStep
  <2> QED
    BY <2>1, <2>2
<1> QED
  BY <1>5, <1>6 DEF CountedInv

LEMMA InitCounted == Init => CountedInv
<1> SUFFICES ASSUME Init PROVE CountedInv
  OBVIOUS
<1>1. /\ DOMAIN exo = {} /\ DOMAIN queue = {} /\ \A g \in Threads : run[g] = Idle
      /\ ord = [o \in Orders |-> NoOrder] /\ doneTrades = {} /\ doneKeys = {} /\ net = {} /\ clock = 0
  BY DEF Init
<1>2. Idle.at = "idle" /\ Idle.res.ex = 0
  BY DEF Idle, Failed
<1>3. \A g \in Threads : \A o \in Orders : \A steps : "idle" \notin steps => ~ IsAt(g, o, steps)
  BY <1>1, <1>2 DEF IsAt
<1>4. \A r \in Heard : r.ex = 0
  BY <1>1, <1>2 DEF Heard
<1>5. StampsFit
  BY <1>1, <1>4 DEF StampsFit
<1>6. ASSUME NEW o \in Orders PROVE OwnIds(o) /\ TagFirst(o) /\ Counted(o)
  <2>1. /\ ord[o].status = "None" /\ ord[o].enter.upd = 0 /\ ord[o].exit.oid = 0 /\ ord[o].stop.oid = 0
        /\ ord[o].exit.st = "None"
    BY <1>1 DEF NoOrder, NoSub
  <2>2. OwnIds(o)
    BY <1>1, <1>3, <2>1 DEF OwnIds, Opened
  <2>3. TagFirst(o)
    BY <1>1, <1>3, <2>1 DEF TagFirst
  <2> QED
    BY <1>1, <2>2, <2>3 DEF Counted
<1> QED
  BY <1>5, <1>6 DEF CountedInv

\* A trade of an order that is not asked to exit counts, is known or is coming, as
\* CountedInv says of all that is in flight, when the exchange cancels nothing by itself
\* (handleMyTrade, updateByMyTrade, updateOdByExgRes).
THEOREM CountedHolds ==
  ASSUME ~ Expires
  PROVE  Spec => []CountedInv
<1>1. ASSUME IInv /\ FillsInv /\ CountedInv /\ [Next]_vars PROVE (IInv /\ FillsInv /\ CountedInv)'
  BY <1>1, NextIInv, NextFills, NextCounted
<1>2. Init => IInv /\ FillsInv /\ CountedInv
  BY InitIInv, InitFills, InitCounted
<1> QED
  BY <1>1, <1>2, PTL DEF Spec

\* Until an exit is asked for, a calm order knows every lot the exchange filled, when the
\* exchange cancels nothing by itself: doneKeys, openOds and the time stamps of
\* handleMyTrade and updateByMyTrade drop no trade for good.
THEOREM FillsAreKnown ==
  ASSUME ~ Expires
  PROVE  Spec => []FillsKnown
<1>1. ASSUME FillsInv, CountedInv PROVE FillsKnown
  <2> SUFFICES ASSUME NEW o \in Orders, Calm(o), ~ ord[o].exitTag, ord[o].enter.oid # 0
               PROVE  ord[o].enter.filled = exo[ord[o].enter.oid].filled
    BY DEF FillsKnown
  <2> DEFINE x == ord[o].enter.oid
  <2>1. x \in DOMAIN exo /\ EntryOf(x, o)
    BY <1>1 DEF FillsInv, EntriesKnown, EntryOf
  <2>2. \A r \in Coming(o) : exo[r.ex].od # o
    BY DEF Calm, Coming, IsAt, Threads
  <2>3. Counted(o)
    BY <1>1 DEF CountedInv
  <2> QED
    BY <2>1, <2>2, <2>3 DEF Counted, EntryOf
<1>2. Spec => []FillsInv
  BY FillsAgree
<1>3. Spec => []CountedInv
  BY CountedHolds
<1> QED
  BY <1>1, <1>2, <1>3, PTL
=============================================================================
