-------------------------- MODULE TriggerOdsProofs --------------------------
(* Theorems about TriggerOds, for any orders and any number of requests.       *)
EXTENDS TriggerOds, FiniteSetTheorems, SequenceTheorems, TLAPS

OdStates == {"new", "init", "fullEnter", "fullExit"}
OdTable == [Orders -> [st : OdStates, id : Nat, exit : BOOLEAN]]
ExoStates == {"live", "filled", "cancelled"}
ExoRow == [od : Orders, st : ExoStates, told : BOOLEAN, kept : BOOLEAN]
Request == [od : Orders, act : {"enter", "limitEnter", "exit"}]
CheckType == [at : {"idle", "orders", "put"}, seen : SUBSET Orders, todo : SUBSET Orders,
              left : SUBSET Orders, res : SUBSET Orders]

LEMMA TypesUse ==
  ASSUME Types
  PROVE  /\ od \in OdTable /\ check \in CheckType /\ queue \in Seq(Request) /\ exo \in Seq(ExoRow)
         /\ late \subseteq Orders /\ trig \subseteq Orders /\ asked \in Nat
BY DEF Types, OdTable, OdStates, CheckType, Request, ExoRow, ExoStates

\* What writing one field of an order, or of an order of the exchange, does.
PutSt(t, o, s) == [t EXCEPT ![o].st = s]
PutId(t, o, n) == [t EXCEPT ![o].id = n]
PutExit(t, o) == [t EXCEPT ![o].exit = TRUE]
PutEnd(t, o, s) == [t EXCEPT ![o].st = s, ![o].exit = TRUE]
PutTold(t, o) == [t EXCEPT ![o].told = TRUE]
PutKept(t, o) == [t EXCEPT ![o].kept = TRUE]
LEMMA StWritten ==
  ASSUME NEW t \in OdTable, NEW o \in Orders, NEW s \in OdStates, NEW u, u = PutSt(t, o, s)
  PROVE  /\ u \in OdTable /\ u[o].st = s /\ u[o].id = t[o].id /\ u[o].exit = t[o].exit
         /\ \A p \in Orders \ {o} : u[p] = t[p]
BY DEF OdTable, PutSt

LEMMA IdWritten ==
  ASSUME NEW t \in OdTable, NEW o \in Orders, NEW n \in Nat, NEW u, u = PutId(t, o, n)
  PROVE  /\ u \in OdTable /\ u[o].st = t[o].st /\ u[o].id = n /\ u[o].exit = t[o].exit
         /\ \A p \in Orders \ {o} : u[p] = t[p]
BY DEF OdTable, PutId

LEMMA ExitWritten ==
  ASSUME NEW t \in OdTable, NEW o \in Orders, NEW u, u = PutExit(t, o)
  PROVE  /\ u \in OdTable /\ u[o].st = t[o].st /\ u[o].id = t[o].id /\ u[o].exit
         /\ \A p \in Orders \ {o} : u[p] = t[p]
BY DEF OdTable, PutExit

LEMMA EndWritten ==
  ASSUME NEW t \in OdTable, NEW o \in Orders, NEW s \in OdStates, NEW u,
         u = PutEnd(t, o, s)
  PROVE  /\ u \in OdTable /\ u[o].st = s /\ u[o].id = t[o].id /\ u[o].exit
         /\ \A p \in Orders \ {o} : u[p] = t[p]
BY DEF OdTable, PutEnd

LEMMA ExoWritten ==
  ASSUME NEW e \in Seq(ExoRow), NEW x \in DOMAIN e, NEW s \in ExoStates, NEW f, f = PutSt(e, x, s)
  PROVE  /\ f \in Seq(ExoRow) /\ DOMAIN f = DOMAIN e
         /\ f[x].st = s /\ f[x].od = e[x].od /\ f[x].kept = e[x].kept
         /\ \A y \in DOMAIN e \ {x} : f[y] = e[y]
<1>1. e \in [1 .. Len(e) -> ExoRow] /\ Len(e) \in Nat /\ x \in 1 .. Len(e)
  OBVIOUS
<1>2. f \in [1 .. Len(e) -> ExoRow]
  BY <1>1 DEF ExoRow, PutSt
<1>3. f \in Seq(ExoRow) /\ DOMAIN f = DOMAIN e
  BY <1>1, <1>2
<1>4. f[x].st = s /\ f[x].od = e[x].od /\ f[x].kept = e[x].kept /\ \A y \in DOMAIN e \ {x} : f[y] = e[y]
  BY <1>1 DEF ExoRow, PutSt
<1> QED
  BY <1>3, <1>4

LEMMA ToldWritten ==
  ASSUME NEW e \in Seq(ExoRow), NEW x \in DOMAIN e, NEW f, f = PutTold(e, x)
  PROVE  /\ f \in Seq(ExoRow) /\ DOMAIN f = DOMAIN e
         /\ f[x].st = e[x].st /\ f[x].od = e[x].od /\ f[x].kept = e[x].kept
         /\ \A y \in DOMAIN e \ {x} : f[y] = e[y]
<1>1. e \in [1 .. Len(e) -> ExoRow] /\ Len(e) \in Nat /\ x \in 1 .. Len(e)
  OBVIOUS
<1>2. f \in [1 .. Len(e) -> ExoRow]
  BY <1>1 DEF ExoRow, PutTold
<1>3. f \in Seq(ExoRow) /\ DOMAIN f = DOMAIN e
  BY <1>1, <1>2
<1>4. f[x].st = e[x].st /\ f[x].od = e[x].od /\ f[x].kept = e[x].kept /\ \A y \in DOMAIN e \ {x} : f[y] = e[y]
  BY <1>1 DEF ExoRow, PutTold
<1> QED
  BY <1>3, <1>4

LEMMA KeptWritten ==
  ASSUME NEW e \in Seq(ExoRow), NEW x \in DOMAIN e, NEW f, f = PutKept(e, x)
  PROVE  /\ f \in Seq(ExoRow) /\ DOMAIN f = DOMAIN e
         /\ f[x].st = e[x].st /\ f[x].od = e[x].od /\ f[x].kept
         /\ \A y \in DOMAIN e \ {x} : f[y] = e[y]
<1>1. e \in [1 .. Len(e) -> ExoRow] /\ Len(e) \in Nat /\ x \in 1 .. Len(e)
  OBVIOUS
<1>2. f \in [1 .. Len(e) -> ExoRow]
  BY <1>1 DEF ExoRow, PutKept
<1>3. f \in Seq(ExoRow) /\ DOMAIN f = DOMAIN e
  BY <1>1, <1>2
<1>4. f[x].st = e[x].st /\ f[x].od = e[x].od /\ f[x].kept /\ \A y \in DOMAIN e \ {x} : f[y] = e[y]
  BY <1>1 DEF ExoRow, PutKept
<1> QED
  BY <1>3, <1>4

LEMMA ExoAppended ==
  ASSUME NEW e \in Seq(ExoRow), NEW r \in ExoRow, NEW f, f = Append(e, r)
  PROVE  /\ f \in Seq(ExoRow) /\ DOMAIN f = DOMAIN e \cup {Len(e) + 1} /\ Len(e) + 1 \notin DOMAIN e
         /\ Len(e) + 1 \in Nat \ {0} /\ f[Len(e) + 1] = r /\ \A y \in DOMAIN e : f[y] = e[y]
OBVIOUS

\* The places of a request in the queue.
LEMMA QueueAppended ==
  ASSUME NEW q \in Seq(Request), NEW r \in Request, NEW f, f = Append(q, r)
  PROVE  /\ f \in Seq(Request) /\ DOMAIN f = DOMAIN q \cup {Len(q) + 1} /\ Len(q) + 1 \notin DOMAIN q
         /\ f[Len(q) + 1] = r /\ \A i \in DOMAIN q : f[i] = q[i]
OBVIOUS

LEMMA QueueTail ==
  ASSUME NEW q \in Seq(Request), q # <<>>, NEW f, f = Tail(q)
  PROVE  /\ f \in Seq(Request) /\ Head(q) \in Request /\ 1 \in DOMAIN q /\ q[1] = Head(q)
         /\ \A i \in DOMAIN f : i + 1 \in DOMAIN q /\ i + 1 # 1 /\ f[i] = q[i + 1]
         /\ \A i \in DOMAIN q \ {1} : i - 1 \in DOMAIN f /\ f[i - 1] = q[i]
OBVIOUS

LEMMA QueueJoined ==
  ASSUME NEW q \in Seq(Request), NEW r \in Seq(Request), NEW f, f = q \o r
  PROVE  /\ f \in Seq(Request)
         /\ \A i \in DOMAIN q : i \in DOMAIN f /\ f[i] = q[i]
         /\ \A i \in DOMAIN r : Len(q) + i \in DOMAIN f /\ f[Len(q) + i] = r[i]
         /\ \A i \in DOMAIN f : i \in DOMAIN q \/ (i - Len(q) \in DOMAIN r /\ f[i] = r[i - Len(q)])
OBVIOUS

LEMMA SetAsSeq ==
  ASSUME NEW S, IsFiniteSet(S)
  PROVE  /\ SetToSeq(S) \in Seq(S)
         /\ \A o \in S : \E i \in DOMAIN SetToSeq(S) : SetToSeq(S)[i] = o
         /\ \A i, j \in DOMAIN SetToSeq(S) : SetToSeq(S)[i] = SetToSeq(S)[j] => i = j
<1> DEFINE n == Cardinality(S)
<1>1. n \in Nat
  BY FS_CardinalityType
<1>2. ExistsBijection(1 .. n, S)
  BY FS_CardinalityType
<1>3. PICK g \in Bijection(1 .. n, S) : TRUE
  BY <1>2 DEF ExistsBijection
<1>4. g \in [1 .. n -> S] /\ IsInjective(g)
  BY <1>3 DEF Bijection, Injection, IsInjective
<1>5. SetToSeq(S) \in [1 .. n -> S] /\ IsInjective(SetToSeq(S))
  BY <1>4 DEF SetToSeq
<1>6. SetToSeq(S) \in Seq(S)
  BY <1>1, <1>5
<1>7. \A i, j \in DOMAIN SetToSeq(S) : SetToSeq(S)[i] = SetToSeq(S)[j] => i = j
  BY <1>5 DEF IsInjective
<1>8. SetToSeq(S) \in Surjection(1 .. n, S)
  <2>1. Cardinality(1 .. n) = n
    BY <1>1, FS_Interval
  <2>2. SetToSeq(S) \in Injection(1 .. n, S)
    BY <1>5 DEF Injection
  <2> QED
    BY <2>1, <2>2, FS_Injection
<1>9. DOMAIN SetToSeq(S) = 1 .. n
  BY <1>5
<1> QED
  BY <1>6, <1>7, <1>8, <1>9 DEF Surjection

-----------------------------------------------------------------------------
\* A request joins the queue.
Joins(o, a) ==
  /\ \A i \in DOMAIN queue : i \in DOMAIN queue' /\ queue'[i] = queue[i]
  /\ Len(queue) + 1 \in DOMAIN queue' \ DOMAIN queue
  /\ queue'[Len(queue) + 1].od = o /\ queue'[Len(queue) + 1].act = a
  /\ \A i \in DOMAIN queue' : i \in DOMAIN queue \/ i = Len(queue) + 1
LEMMA QueuedJoins ==
  ASSUME Types, NEW o \in Orders, NEW a \in {"enter", "limitEnter", "exit"}, Queued(o, a)
  PROVE  queue' \in Seq(Request) /\ Joins(o, a) /\ trig' = trig
<1>1. PICK r \in Request : r = [od |-> o, act |-> a]
  BY DEF Request
<1>2. queue' = Append(queue, r) /\ trig' = trig /\ queue \in Seq(Request)
  BY <1>1, TypesUse DEF Queued
<1>3. r.od = o /\ r.act = a
  BY <1>1
<1>4. queue' \in Seq(Request)
  BY <1>2, QueueAppended
<1>5. Joins(o, a)
  BY <1>2, <1>3, QueueAppended DEF Joins
<1> QED
  BY <1>2, <1>4, <1>5

\* Only the order o changes.
OnlyOf(o) == \A p \in Orders \ {o} : od'[p] = od[p]

LEMMA AfterEnterEffect ==
  ASSUME Types, NEW o \in Orders, AfterEnter(o)
  PROVE  /\ Types' /\ od[o].st = "new" /\ od'[o].st = "init" /\ od'[o].id = od[o].id /\ od'[o].exit = od[o].exit
         /\ OnlyOf(o) /\ check' = check /\ exo' = exo
         /\ \/ trig' = trig \cup {o} /\ (Meanwhile \/ check = Idle) /\ queue' = queue
            \/ trig' = trig /\ Joins(o, "enter")
<1>1. od' \in OdTable /\ od'[o].st = "init" /\ od'[o].id = od[o].id /\ od'[o].exit = od[o].exit /\ OnlyOf(o)
  <2>1. "init" \in OdStates /\ od' = PutSt(od, o, "init") /\ od \in OdTable
    BY TypesUse DEF AfterEnter, OdStates, PutSt
  <2> QED
    BY <2>1, StWritten DEF OnlyOf
<1>2. /\ queue' \in Seq(Request) /\ trig' \subseteq Orders
      /\ \/ trig' = trig \cup {o} /\ (Meanwhile \/ check = Idle) /\ queue' = queue
         \/ trig' = trig /\ Joins(o, "enter")
  <2>1. CASE AddTriggerOd(o)
    BY <2>1, TypesUse DEF AddTriggerOd
  <2>2. CASE Queued(o, "enter")
    BY <2>2, QueuedJoins, TypesUse
  <2> QED
    BY <2>1, <2>2 DEF AfterEnter
<1>3. od[o].st = "new" /\ UNCHANGED <<late, check, exo, asked>>
  BY DEF AfterEnter
<1>4. Types'
  BY <1>1, <1>2, <1>3 DEF Types, OdTable, OdStates, Request
<1> QED
  BY <1>1, <1>2, <1>3, <1>4

LEMMA EditOrderEffect ==
  ASSUME Types, NEW o \in Orders, EditOrder(o)
  PROVE  /\ Types' /\ Edits /\ od[o].st = "init" /\ od' = od /\ check' = check /\ exo' = exo
         /\ \/ trig' = trig \cup {o} /\ (Meanwhile \/ check = Idle) /\ queue' = queue
            \/ trig' = trig /\ Joins(o, "limitEnter")
<1>1. /\ queue' \in Seq(Request) /\ trig' \subseteq Orders
      /\ \/ trig' = trig \cup {o} /\ (Meanwhile \/ check = Idle) /\ queue' = queue
         \/ trig' = trig /\ Joins(o, "limitEnter")
  <2>1. CASE AddTriggerOd(o)
    BY <2>1, TypesUse DEF AddTriggerOd
  <2>2. CASE Queued(o, "limitEnter")
    BY <2>2, QueuedJoins, TypesUse
  <2> QED
    BY <2>1, <2>2 DEF EditOrder
<1>2. Edits /\ od[o].st = "init" /\ asked' = asked + 1 /\ UNCHANGED <<od, late, check, exo>>
  BY DEF EditOrder
<1>3. Types'
  BY <1>1, <1>2 DEF Types, Request
<1> QED
  BY <1>1, <1>2, <1>3

LEMMA AskExitEffect ==
  ASSUME Types, NEW o \in Orders, AskExit(o)
  PROVE  /\ Types' /\ Open(o) /\ od'[o].st = od[o].st /\ od'[o].id = od[o].id
         /\ OnlyOf(o) /\ check' = check /\ exo' = exo /\ trig' = trig /\ Joins(o, "exit")
<1>1. od' \in OdTable /\ od'[o].st = od[o].st /\ od'[o].id = od[o].id /\ OnlyOf(o)
  <2>1. od' = PutExit(od, o) /\ od \in OdTable
    BY TypesUse DEF AskExit, PutExit
  <2> QED
    BY <2>1, ExitWritten DEF OnlyOf
<1>2. queue' \in Seq(Request) /\ trig' = trig /\ Joins(o, "exit")
  BY QueuedJoins DEF AskExit
<1>3. Open(o) /\ asked' = asked + 1 /\ UNCHANGED <<late, check, exo>>
  BY DEF AskExit
<1>4. Types'
  BY <1>1, <1>2, <1>3 DEF Types, OdTable, OdStates, Request
<1> QED
  BY <1>1, <1>2, <1>3, <1>4

LEMMA StopPassesEffect ==
  ASSUME Types, NEW o \in Orders, StopPasses(o)
  PROVE  Types' /\ UNCHANGED <<od, trig, check, queue, exo>>
BY DEF StopPasses, Types
-----------------------------------------------------------------------------
\* An entry is cancelled: the order of the exchange it is known by is not live any more.
LEMMA CancelledEffect ==
  ASSUME Types, NEW o \in Orders, Cancelled(o)
  PROVE  /\ exo' \in Seq(ExoRow) /\ DOMAIN exo' = DOMAIN exo
         /\ \A x \in DOMAIN exo : /\ exo'[x].od = exo[x].od
                                  /\ Binds(x)' => Binds(x) /\ x # od[o].id
<1> DEFINE x == od[o].id
<1>1. exo \in Seq(ExoRow) /\ x \in Nat /\ "cancelled" \in ExoStates
  BY TypesUse DEF OdTable, ExoStates
<1>2. CASE exo' = exo /\ ~(x # 0 /\ exo[x].st = "live")
  BY <1>1, <1>2 DEF Binds
<1>3. CASE x # 0 /\ exo[x].st = "live"
  <2>1. exo' = PutSt(exo, x, "cancelled") \/ exo' = PutKept(exo, x)
    BY <1>3 DEF Cancelled, PutSt, PutKept
  <2>2. CASE x \in DOMAIN exo
    <3>1. /\ exo' \in Seq(ExoRow) /\ DOMAIN exo' = DOMAIN exo /\ exo'[x].od = exo[x].od
          /\ exo'[x].st = "cancelled" \/ exo'[x].kept
          /\ \A y \in DOMAIN exo \ {x} : exo'[y] = exo[y]
      <4>1. CASE exo' = PutSt(exo, x, "cancelled")
        BY <1>1, <2>2, <4>1, ExoWritten
      <4>2. CASE exo' = PutKept(exo, x)
        BY <1>1, <2>2, <4>2, KeptWritten
      <4> QED
        BY <2>1, <4>1, <4>2
    <3> QED
      BY <1>1, <3>1 DEF Binds
  <2>3. CASE x \notin DOMAIN exo
    <3>1. exo' = exo
      BY <1>1, <2>1, <2>3 DEF PutSt, PutKept
    <3> QED
      BY <1>1, <2>3, <3>1 DEF Binds
  <2> QED
    BY <2>2, <2>3
<1> QED
  BY <1>2, <1>3 DEF Cancelled

LEMMA CancelTimeoutEffect ==
  ASSUME Types, NEW o \in Orders, CancelTimeoutEnter(o)
  PROVE  /\ Types' /\ Open(o) /\ check.at = "orders" /\ OnlyOf(o) /\ o \in trig /\ UNCHANGED <<trig, queue>>
         /\ od'[o].st = (IF od[o].st = "init" THEN "fullExit" ELSE od[o].st)
         /\ od'[o].id = od[o].id /\ od'[o].exit = od[o].exit
         /\ check' = Looked(o) /\ Cancelled(o)
<1>1. od' \in OdTable /\ OnlyOf(o) /\ od'[o].st = (IF od[o].st = "init" THEN "fullExit" ELSE od[o].st)
      /\ od'[o].id = od[o].id /\ od'[o].exit = od[o].exit
  <2>1. PICK s \in OdStates : s = (IF od[o].st = "init" THEN "fullExit" ELSE od[o].st)
    BY TypesUse DEF OdTable, OdStates
  <2>2. od' = PutSt(od, o, s) /\ od \in OdTable
    BY <2>1, TypesUse DEF CancelTimeoutEnter, PutSt
  <2> QED
    BY <2>1, <2>2, StWritten DEF OnlyOf
<1>2. /\ Open(o) /\ check.at = "orders" /\ o \in trig /\ check' = Looked(o) /\ Cancelled(o)
      /\ UNCHANGED <<late, trig, queue, asked>>
  BY DEF CancelTimeoutEnter
<1>3. check' \in CheckType
  BY <1>2, TypesUse DEF Looked, CheckType
<1>4. exo' \in Seq(ExoRow)
  BY <1>2, CancelledEffect
<1>5. Types'
  BY <1>1, <1>2, <1>3, <1>4 DEF Types, OdTable, OdStates, CheckType, ExoRow, ExoStates
<1> QED
  BY <1>1, <1>2, <1>5

LEMMA FillEffect ==
  ASSUME Types, NEW x \in DOMAIN exo, Fill(x)
  PROVE  /\ Types' /\ UNCHANGED <<od, trig, check, queue>> /\ DOMAIN exo' = DOMAIN exo
         /\ \A y \in DOMAIN exo : exo'[y].od = exo[y].od /\ (Binds(y)' => Binds(y))
<1>1. exo \in Seq(ExoRow) /\ exo' = PutSt(exo, x, "filled") /\ "filled" \in ExoStates
  BY TypesUse DEF Fill, ExoStates, PutSt
<1>2. /\ exo' \in Seq(ExoRow) /\ DOMAIN exo' = DOMAIN exo /\ exo'[x].st = "filled" /\ exo'[x].od = exo[x].od
      /\ \A y \in DOMAIN exo \ {x} : exo'[y] = exo[y]
  BY <1>1, ExoWritten
<1>3. UNCHANGED <<od, late, trig, check, queue, asked>>
  BY DEF Fill
<1>4. Types'
  BY <1>2, <1>3 DEF Types, ExoRow, ExoStates
<1>5. \A y \in DOMAIN exo : exo'[y].od = exo[y].od /\ (Binds(y)' => Binds(y))
  BY <1>2 DEF Binds
<1> QED
  BY <1>2, <1>3, <1>4, <1>5

LEMMA TradeEffect ==
  ASSUME Types, NEW x \in DOMAIN exo, UpdateByMyTrade(x)
  PROVE  /\ Types' /\ UNCHANGED <<trig, check, queue>> /\ DOMAIN exo' = DOMAIN exo
         /\ \A y \in DOMAIN exo : exo'[y].od = exo[y].od /\ (Binds(y)' => Binds(y))
         /\ exo[x].od \in Orders /\ OnlyOf(exo[x].od)
         /\ od'[exo[x].od].st = (IF od[exo[x].od].st = "init" THEN "fullEnter" ELSE od[exo[x].od].st)
         /\ od'[exo[x].od].id = od[exo[x].od].id /\ od'[exo[x].od].exit = od[exo[x].od].exit
<1> DEFINE o == exo[x].od
<1>1. exo \in Seq(ExoRow) /\ o \in Orders
  <2>1. exo \in Seq(ExoRow) /\ exo[x] \in ExoRow
    BY TypesUse
  <2> QED
    BY <2>1 DEF ExoRow
<1>2. exo' = PutTold(exo, x) /\ od' = PutSt(od, o, IF od[o].st = "init" THEN "fullEnter" ELSE od[o].st)
  BY DEF UpdateByMyTrade, PutTold, PutSt
<1>3. /\ exo' \in Seq(ExoRow) /\ DOMAIN exo' = DOMAIN exo /\ exo'[x].st = exo[x].st /\ exo'[x].od = exo[x].od
      /\ exo'[x].kept = exo[x].kept /\ \A y \in DOMAIN exo \ {x} : exo'[y] = exo[y]
  BY <1>1, <1>2, ToldWritten
<1>7. \A y \in DOMAIN exo : exo'[y].od = exo[y].od /\ (Binds(y)' => Binds(y))
  BY <1>3 DEF Binds
<1> HIDE DEF o
<1>4. od' \in OdTable /\ OnlyOf(o) /\ od'[o].st = (IF od[o].st = "init" THEN "fullEnter" ELSE od[o].st)
      /\ od'[o].id = od[o].id /\ od'[o].exit = od[o].exit
  <2>1. PICK s \in OdStates : s = (IF od[o].st = "init" THEN "fullEnter" ELSE od[o].st)
    BY <1>1, TypesUse DEF OdTable, OdStates
  <2>2. od' = PutSt(od, o, s) /\ od \in OdTable
    BY <1>2, <2>1, TypesUse
  <2> QED
    BY <1>1, <2>1, <2>2, StWritten DEF OnlyOf
<1>5. UNCHANGED <<late, trig, check, queue, asked>>
  BY DEF UpdateByMyTrade
<1>6. Types'
  BY <1>3, <1>4, <1>5 DEF Types, OdTable, OdStates, ExoRow, ExoStates
<1> QED
  BY <1>1, <1>3, <1>4, <1>5, <1>6, <1>7 DEF o

-----------------------------------------------------------------------------
\* The check of a minute.
LEMMA CopyEffect ==
  ASSUME Types, CopyTriggers
  PROVE  /\ Types' /\ UNCHANGED <<od, trig, queue, exo>> /\ check.at = "idle" /\ check.res = {}
         /\ check'.seen = {} /\ check'.left = {}
         /\ \/ check'.at = "orders" /\ check'.todo = trig /\ check'.res = {}
            \/ NoBook /\ check'.at = "put" /\ check'.res = trig
<1>1. check.at = "idle" /\ check.res = {} /\ UNCHANGED <<od, late, trig, queue, exo, asked>>
  BY DEF CopyTriggers, Idle
<1>2. /\ check'.seen = {} /\ check'.left = {} /\ check' \in CheckType
      /\ \/ check'.at = "orders" /\ check'.todo = trig /\ check'.res = {}
         \/ NoBook /\ check'.at = "put" /\ check'.res = trig
  BY TypesUse DEF CopyTriggers, Idle, CheckType
<1>3. Types'
  BY <1>1, <1>2 DEF Types, CheckType
<1> QED
  BY <1>1, <1>2, <1>3

LEMMA VerifyOdEffect ==
  ASSUME Types, NEW o \in Orders, VerifyOd(o)
  PROVE  /\ Types' /\ UNCHANGED <<od, trig, queue, exo>> /\ check.at = "orders" /\ o \in trig \ check.seen
         /\ check'.at = "orders" /\ check'.seen = check.seen \cup {o} /\ check'.todo = check.todo \ {o}
         /\ \/ ~Open(o) /\ check'.left = check.left /\ check'.res = check.res
            \/ Open(o) /\ check'.left = check.left /\ check'.res = check.res \cup {o}
            \/ Open(o) /\ check'.left = check.left \cup {o} /\ check'.res = check.res
<1>1. check.at = "orders" /\ o \in trig \ check.seen /\ UNCHANGED <<od, late, trig, queue, exo, asked>>
  BY DEF VerifyOd
<1>2. /\ check' \in CheckType
      /\ check'.at = "orders" /\ check'.seen = check.seen \cup {o} /\ check'.todo = check.todo \ {o}
      /\ \/ ~Open(o) /\ check'.left = check.left /\ check'.res = check.res
         \/ Open(o) /\ check'.left = check.left /\ check'.res = check.res \cup {o}
         \/ Open(o) /\ check'.left = check.left \cup {o} /\ check'.res = check.res
  <2>1. check \in CheckType
    BY TypesUse
  <2>2. CASE ~Open(o) /\ check' = Looked(o)
    BY <1>1, <2>1, <2>2 DEF Looked, CheckType
  <2>3. CASE IsNear(o)
    BY <1>1, <2>1, <2>3 DEF IsNear, Looked, CheckType
  <2>4. CASE IsLeft(o)
    BY <1>1, <2>1, <2>4 DEF IsLeft, Looked, CheckType
  <2> QED
    BY <2>2, <2>3, <2>4 DEF VerifyOd
<1>3. Types'
  BY <1>1, <1>2 DEF Types, CheckType
<1> QED
  BY <1>1, <1>2, <1>3

LEMMA LookedEffect ==
  ASSUME Types, NEW o \in Orders, check' = Looked(o)
  PROVE  /\ check'.at = check.at /\ check'.seen = check.seen \cup {o} /\ check'.todo = check.todo \ {o}
         /\ check'.left = check.left /\ check'.res = check.res
BY TypesUse DEF Looked, CheckType

LEMMA SetLeftEffect ==
  ASSUME Types, SetLeft
  PROVE  /\ Types' /\ UNCHANGED <<od, queue, exo>> /\ check.at = "orders" /\ check.todo = {}
         /\ trig' = check.left /\ check'.at = "put" /\ check'.res = check.res /\ check'.seen = {} /\ check'.left = {}
<1>1. check.at = "orders" /\ check.todo = {} /\ trig' = check.left /\ UNCHANGED <<od, late, queue, exo, asked>>
  BY DEF SetLeft, LeftOds
<1>2. /\ check' \in CheckType /\ check'.at = "put" /\ check'.res = check.res
      /\ check'.seen = {} /\ check'.left = {} /\ check.left \subseteq Orders
  BY TypesUse DEF SetLeft, Idle, CheckType
<1>3. Types'
  BY <1>1, <1>2 DEF Types, CheckType
<1> QED
  BY <1>1, <1>2, <1>3

\* The requests that PutTriggers adds.
AsAct(o) == IF od[o].exit THEN "exit" ELSE "enter"
LEMMA PutEffect ==
  ASSUME Types, IsFiniteSet(Orders), PutTriggers
  PROVE  /\ Types' /\ UNCHANGED <<od, trig, exo>> /\ check.at = "put" /\ check' = Idle
         /\ \A i \in DOMAIN queue : i \in DOMAIN queue' /\ queue'[i] = queue[i]
         /\ \A o \in check.res : Open(o) => \E i \in DOMAIN queue' : queue'[i].od = o /\ queue'[i].act = AsAct(o)
         /\ \A i \in DOMAIN queue' \ DOMAIN queue : queue'[i].od \in check.res /\ queue'[i].act = AsAct(queue'[i].od)
                                                    /\ Open(queue'[i].od)
         /\ \A i, j \in DOMAIN queue' \ DOMAIN queue : queue'[i].od = queue'[j].od => i = j
<1> DEFINE N == {o \in check.res : Open(o)}
           near == SetToSeq(N)
           r == [i \in DOMAIN near |-> [od |-> near[i], act |-> AsAct(near[i])]]
<1>1. N \subseteq Orders /\ IsFiniteSet(N)
  <2>1. N \subseteq Orders
    BY TypesUse DEF CheckType
  <2> QED
    BY <2>1, FS_Subset
<1>2. /\ near \in Seq(N) /\ \A o \in N : \E i \in DOMAIN near : near[i] = o
      /\ \A i, j \in DOMAIN near : near[i] = near[j] => i = j
  BY <1>1, SetAsSeq
<1>3. check.at = "put" /\ check' = Idle /\ queue' = queue \o r /\ UNCHANGED <<od, late, trig, exo, asked>>
  BY DEF PutTriggers, AsAct
<1> HIDE DEF near
<1>4. r \in Seq(Request) /\ DOMAIN r = DOMAIN near /\ \A i \in DOMAIN r : r[i].od = near[i] /\ r[i].act = AsAct(near[i])
  <2>1. \A i \in DOMAIN near : [od |-> near[i], act |-> AsAct(near[i])] \in Request
    BY <1>1, <1>2 DEF Request, AsAct
  <2>2. DOMAIN near = 1 .. Len(near) /\ Len(near) \in Nat
    BY <1>2
  <2> QED
    BY <2>1, <2>2
<1>5. \A i \in DOMAIN r : near[i] \in N
  BY <1>2, <1>4
<1> HIDE DEF r
<1>6. /\ queue' \in Seq(Request)
      /\ \A i \in DOMAIN queue : i \in DOMAIN queue' /\ queue'[i] = queue[i]
      /\ \A i \in DOMAIN r : Len(queue) + i \in DOMAIN queue' /\ queue'[Len(queue) + i] = r[i]
      /\ \A i \in DOMAIN queue' : i \in DOMAIN queue \/ (i - Len(queue) \in DOMAIN r /\ queue'[i] = r[i - Len(queue)])
  BY <1>3, <1>4, TypesUse, QueueJoined
<1>7. \A o \in check.res : Open(o) => \E i \in DOMAIN queue' : queue'[i].od = o /\ queue'[i].act = AsAct(o)
  <2>1. SUFFICES ASSUME NEW o \in check.res, Open(o)
                 PROVE  \E i \in DOMAIN queue' : queue'[i].od = o /\ queue'[i].act = AsAct(o)
    OBVIOUS
  <2>2. PICK i \in DOMAIN r : near[i] = o
    BY <1>2, <1>4, <2>1
  <2>3. r[i].od = o /\ r[i].act = AsAct(o)
    BY <1>4, <2>2
  <2>4. Len(queue) + i \in DOMAIN queue' /\ queue'[Len(queue) + i] = r[i]
    BY <1>6
  <2>5. PICK k \in DOMAIN queue' : queue'[k] = r[i]
    BY <2>4
  <2>6. queue'[k].od = o /\ queue'[k].act = AsAct(o)
    BY <2>3, <2>5
  <2> QED
    BY <2>6
<1>8. \A i \in DOMAIN queue' \ DOMAIN queue : queue'[i].od \in check.res /\ queue'[i].act = AsAct(queue'[i].od)
                                              /\ Open(queue'[i].od)
  <2>1. SUFFICES ASSUME NEW i \in DOMAIN queue' \ DOMAIN queue
                 PROVE  queue'[i].od \in N /\ queue'[i].act = AsAct(queue'[i].od)
    OBVIOUS
  <2>2. i - Len(queue) \in DOMAIN r /\ queue'[i] = r[i - Len(queue)]
    BY <1>6
  <2> QED
    BY <1>4, <1>5, <2>2
<1>9. \A i, j \in DOMAIN queue' \ DOMAIN queue : queue'[i].od = queue'[j].od => i = j
  <2>1. SUFFICES ASSUME NEW i \in DOMAIN queue' \ DOMAIN queue, NEW j \in DOMAIN queue' \ DOMAIN queue,
                        queue'[i].od = queue'[j].od
                 PROVE  i = j
    OBVIOUS
  <2>2. /\ i - Len(queue) \in DOMAIN r /\ queue'[i] = r[i - Len(queue)]
        /\ j - Len(queue) \in DOMAIN r /\ queue'[j] = r[j - Len(queue)]
    BY <1>6
  <2>3. i - Len(queue) = j - Len(queue)
    BY <1>2, <1>4, <2>1, <2>2
  <2>4. i \in Int /\ j \in Int /\ Len(queue) \in Int
    BY <1>6, TypesUse
  <2> QED
    BY <2>3, <2>4
<1>10. Types'
  <2>1. check' \in CheckType
    BY <1>3 DEF Idle, CheckType
  <2> QED
    BY <1>3, <1>6, <2>1 DEF Types, CheckType, Request
<1> QED
  BY <1>3, <1>6, <1>7, <1>8, <1>9, <1>10
-----------------------------------------------------------------------------
\* What handling a request does to its order.
Sends(o) ==
  /\ ~od[o].exit /\ od[o].st # "fullExit"
  /\ exo' = Append(exo, [od |-> o, st |-> "live", told |-> FALSE, kept |-> FALSE])
  /\ od'[o].st = od[o].st /\ od'[o].id = Len(exo) + 1 /\ od'[o].exit = od[o].exit
IsRefused(o) ==
  ~od[o].exit /\ od[o].st # "fullExit" /\ exo' = exo /\ od'[o].st = "fullExit" /\ od'[o].id = od[o].id /\ od'[o].exit
Passes(o) == (od[o].exit \/ od[o].st = "fullExit") /\ od' = od /\ exo' = exo
LEMMA EnterEffect ==
  ASSUME Types, NEW o \in Orders, ExecOrderEnter(o)
  PROVE  od' \in OdTable /\ exo' \in Seq(ExoRow) /\ OnlyOf(o) /\ (Sends(o) \/ IsRefused(o) \/ Passes(o))
<1>1. CASE od[o].exit \/ od[o].st = "fullExit"
  BY <1>1, TypesUse DEF ExecOrderEnter, Passes, OnlyOf
<1>2. CASE ~(od[o].exit \/ od[o].st = "fullExit")
  <2>1. CASE /\ exo' = Append(exo, [od |-> o, st |-> "live", told |-> FALSE, kept |-> FALSE])
             /\ od' = [od EXCEPT ![o].id = Len(exo) + 1]
    <3>1. PICK r \in ExoRow : r = [od |-> o, st |-> "live", told |-> FALSE, kept |-> FALSE]
      BY DEF ExoRow, ExoStates
    <3>2. exo' \in Seq(ExoRow) /\ Len(exo) + 1 \in Nat
      BY <2>1, <3>1, TypesUse
    <3>3. PICK n \in Nat : n = Len(exo) + 1
      BY <3>2
    <3>4. od' = PutId(od, o, n) /\ od \in OdTable
      BY <2>1, <3>3, TypesUse DEF PutId
    <3>5. od' \in OdTable /\ OnlyOf(o) /\ od'[o].st = od[o].st /\ od'[o].id = n /\ od'[o].exit = od[o].exit
      BY <3>4, IdWritten DEF OnlyOf
    <3> QED
      BY <1>2, <2>1, <3>2, <3>3, <3>5 DEF Sends
  <2>2. CASE exo' = exo /\ od' = [od EXCEPT ![o].st = "fullExit", ![o].exit = TRUE]
    <3>1. od' = PutEnd(od, o, "fullExit") /\ od \in OdTable /\ "fullExit" \in OdStates
      BY <2>2, TypesUse DEF PutEnd, OdStates
    <3>2. od' \in OdTable /\ OnlyOf(o) /\ od'[o].st = "fullExit" /\ od'[o].id = od[o].id /\ od'[o].exit
      BY <3>1, EndWritten DEF OnlyOf
    <3> QED
      BY <1>2, <2>2, <3>2, TypesUse DEF IsRefused
  <2> QED
    BY <1>2, <2>1, <2>2 DEF ExecOrderEnter, Submitted
<1> QED
  BY <1>1, <1>2

HandleEffectOf(h) ==
  \/ h.act # "exit" /\ (h.act = "limitEnter" => od[h.od].id = 0) /\ (Sends(h.od) \/ IsRefused(h.od) \/ Passes(h.od))
  \/ h.act = "limitEnter" /\ od[h.od].id # 0 /\ od' = od /\ exo' = exo
  \/ h.act = "exit" /\ od[h.od].st = "fullExit" /\ od' = od /\ exo' = exo
  \/ h.act = "exit" /\ Cancelled(h.od) /\ od'[h.od].st = "fullExit" /\ od'[h.od].id = od[h.od].id
LEMMA HandleEffect ==
  ASSUME Types, HandleOrderQueue
  PROVE  /\ Types' /\ queue # <<>> /\ Head(queue) \in Request /\ queue' = Tail(queue) /\ trig' = trig /\ check' = check
         /\ OnlyOf(Head(queue).od) /\ HandleEffectOf(Head(queue))
<1> DEFINE h == Head(queue)
<1>1. queue # <<>> /\ queue' = Tail(queue) /\ UNCHANGED <<late, trig, check, asked>>
  BY DEF HandleOrderQueue
<1>2. queue' \in Seq(Request) /\ h \in Request
  BY <1>1, TypesUse, QueueTail
<1>3. h.od \in Orders /\ h.act \in {"enter", "limitEnter", "exit"}
  BY <1>2 DEF Request
<1> HIDE DEF h
<1>4. /\ h.act = "enter" => ExecOrderEnter(h.od)
      /\ h.act = "limitEnter" => EditLimitOd(h.od)
      /\ h.act = "exit" => ExecOrderExit(h.od)
  BY <1>3 DEF HandleOrderQueue, h
<1>5. od' \in OdTable /\ exo' \in Seq(ExoRow) /\ OnlyOf(h.od) /\ HandleEffectOf(h)
  <2>1. CASE h.act = "enter"
    BY <1>3, <1>4, <2>1, EnterEffect DEF HandleEffectOf
  <2>2. CASE h.act = "limitEnter"
    <3>1. CASE od[h.od].id = 0
      BY <1>3, <1>4, <2>2, <3>1, EnterEffect DEF EditLimitOd, HandleEffectOf
    <3>2. CASE od[h.od].id # 0
      BY <1>3, <1>4, <2>2, <3>2, TypesUse DEF EditLimitOd, HandleEffectOf, OnlyOf
    <3> QED
      BY <3>1, <3>2
  <2>3. CASE h.act = "exit" /\ od[h.od].st = "fullExit"
    BY <1>3, <1>4, <2>3, TypesUse DEF ExecOrderExit, HandleEffectOf, OnlyOf
  <2>4. CASE h.act = "exit" /\ od[h.od].st # "fullExit"
    <3>1. Cancelled(h.od) /\ od' = PutSt(od, h.od, "fullExit") /\ od \in OdTable /\ "fullExit" \in OdStates
      BY <1>4, <2>4, TypesUse DEF ExecOrderExit, PutSt, OdStates
    <3>2. od' \in OdTable /\ OnlyOf(h.od) /\ od'[h.od].st = "fullExit" /\ od'[h.od].id = od[h.od].id
      BY <1>3, <3>1, StWritten DEF OnlyOf
    <3>3. exo' \in Seq(ExoRow)
      BY <1>3, <3>1, CancelledEffect
    <3> QED
      BY <2>4, <3>1, <3>2, <3>3 DEF HandleEffectOf
  <2> QED
    BY <1>3, <2>1, <2>2, <2>3, <2>4
<1>6. Types'
  BY <1>1, <1>2, <1>5 DEF Types, OdTable, OdStates, ExoRow, ExoStates, Request
<1> QED
  BY <1>1, <1>2, <1>5, <1>6 DEF h

-----------------------------------------------------------------------------
(* The entry of an order is sent once where the book can be had and no entry is *)
(* edited; a book that cannot be had, or an edit, asks for an entry at a second *)
(* place (odmgr_live.go:1974, README.md).                                      *)

\* No entry is asked for anew.
NoneAsked ==
  /\ \A o \in Orders : od'[o].id = od[o].id /\ (od'[o].st = "new" <=> od[o].st = "new")
  /\ \A i \in DOMAIN queue' : \A o \in Orders : EntryAt(i, o)' => i \in DOMAIN queue /\ EntryAt(i, o)
  /\ trig' \cup check'.res \subseteq trig \cup check.res
LEMMA OnePlaceGoes ==
  ASSUME OnePlace, trig \subseteq Orders, check.res \subseteq Orders, NoneAsked
  PROVE  OnePlace'
<1>1. \A o \in Orders : Unsent(o)' => Unsent(o)
  BY DEF NoneAsked, Unsent
<1>2. \A o \in Orders : Unsent(o)' => od'[o].st # "new" /\ od'[o].id = 0
  BY <1>1 DEF NoneAsked, OnePlace
<1>3. \A o \in Orders : od'[o].st = "new" => od'[o].id = 0
  BY DEF NoneAsked, OnePlace
<1>4. \A o \in trig' \cup check'.res : \A i \in DOMAIN queue' : ~EntryAt(i, o)'
  BY DEF NoneAsked, OnePlace
<1>5. \A o \in Orders : \A i, j \in DOMAIN queue' : EntryAt(i, o)' /\ EntryAt(j, o)' => i = j
  BY DEF NoneAsked, OnePlace
<1> QED
  BY <1>2, <1>3, <1>4, <1>5 DEF OnePlace

LEMMA OwnOrderGoes ==
  ASSUME Types, OwnOrder, DOMAIN exo' = DOMAIN exo, \A x \in DOMAIN exo : exo'[x].od = exo[x].od,
         \A o \in Orders : od'[o].id = od[o].id /\ (od'[o].st = "new" <=> od[o].st = "new")
  PROVE  OwnOrder'
<1>1. \A x \in DOMAIN exo : exo[x].od \in Orders
  <2>1. \A x \in DOMAIN exo : exo[x] \in ExoRow
    BY TypesUse
  <2> QED
    BY <2>1 DEF ExoRow
<1> QED
  BY <1>1 DEF OwnOrder

\* An order of the exchange is of an order of the bot.
LEMMA ExoOfOrder ==
  ASSUME Types, NEW x \in DOMAIN exo
  PROVE  exo[x].od \in Orders /\ x \in Nat \ {0}
<1>1. exo[x] \in ExoRow /\ x \in Nat \ {0}
  BY TypesUse
<1> QED
  BY <1>1 DEF ExoRow

LEMMA CheckSets ==
  ASSUME Types
  PROVE  trig \subseteq Orders /\ check.res \subseteq Orders /\ check.left \subseteq Orders /\ check.seen \subseteq Orders
BY TypesUse DEF CheckType

LEMMA OnceAfterEnter ==
  ASSUME OnceInv, NEW o \in Orders, AfterEnter(o)
  PROVE  OnceInv'
<1>1. Types /\ OnePlace /\ Sorted /\ OwnOrder /\ LiveIsOpen
  BY DEF OnceInv
<1>2. /\ Types' /\ od[o].st = "new" /\ od'[o].st = "init" /\ od'[o].id = od[o].id
      /\ OnlyOf(o) /\ check' = check /\ exo' = exo
      /\ \/ trig' = trig \cup {o} /\ queue' = queue
         \/ trig' = trig /\ Joins(o, "enter")
  BY <1>1, AfterEnterEffect
<1>3. ~Unsent(o) /\ od[o].id = 0
  BY <1>1, <1>2 DEF OnePlace
<1>4. OnePlace'
  <2>1. \A p \in Orders : Unsent(p)' => p = o \/ Unsent(p)
    <3>1. CASE trig' = trig \cup {o} /\ queue' = queue
      BY <1>2, <3>1 DEF Unsent, EntryAt
    <3>2. CASE trig' = trig /\ Joins(o, "enter")
      BY <1>2, <3>2 DEF Unsent, EntryAt, Joins
    <3> QED
      BY <1>2, <3>1, <3>2
  <2>2. \A p \in Orders : Unsent(p)' => od'[p].st # "new" /\ od'[p].id = 0
    BY <1>1, <1>2, <1>3, <2>1 DEF OnePlace, OnlyOf
  <2>3. \A p \in Orders : od'[p].st = "new" => od'[p].id = 0
    BY <1>1, <1>2 DEF OnePlace, OnlyOf
  <2>4. /\ \A p \in trig' \cup check'.res : \A i \in DOMAIN queue' : ~EntryAt(i, p)'
        /\ \A p \in Orders : \A i, j \in DOMAIN queue' : EntryAt(i, p)' /\ EntryAt(j, p)' => i = j
    <3>1. CASE trig' = trig \cup {o} /\ queue' = queue
      BY <1>1, <1>2, <1>3, <3>1 DEF OnePlace, Unsent, EntryAt
    <3>2. CASE trig' = trig /\ Joins(o, "enter")
      <4>1. \A i \in DOMAIN queue' : \A p \in Orders : EntryAt(i, p)' =>
              (i = Len(queue) + 1 /\ p = o) \/ (i \in DOMAIN queue /\ EntryAt(i, p))
        BY <3>2 DEF Joins, EntryAt
      <4>2. \A i \in DOMAIN queue : ~EntryAt(i, o)
        BY <1>3 DEF Unsent
      <4>3. o \notin trig \cup check.res
        BY <1>3 DEF Unsent
      <4>4. \A p \in trig' \cup check'.res : \A i \in DOMAIN queue' : ~EntryAt(i, p)'
        BY <1>1, <1>2, <3>2, <4>1, <4>3, CheckSets DEF OnePlace
      <4>5. \A p \in Orders : \A i, j \in DOMAIN queue' : EntryAt(i, p)' /\ EntryAt(j, p)' => i = j
        BY <1>1, <4>1, <4>2 DEF OnePlace
      <4> QED
        BY <4>4, <4>5
    <3> QED
      BY <1>2, <3>1, <3>2
  <2> QED
    BY <2>2, <2>3, <2>4 DEF OnePlace
<1>5. Sorted'
  <2>1. o \notin check.res
    BY <1>3 DEF Unsent
  <2> QED
    BY <1>1, <1>2, <2>1 DEF Sorted
<1>6. \A x \in DOMAIN exo : exo[x].od # o /\ exo[x].od \in Orders
  BY <1>1, <1>2, ExoOfOrder DEF OwnOrder
<1>7. OwnOrder' /\ LiveIsOpen'
  BY <1>1, <1>2, <1>6 DEF OwnOrder, LiveIsOpen, Binds, OnlyOf
<1> QED
  BY <1>2, <1>4, <1>5, <1>7 DEF OnceInv

LEMMA OnceAskExit ==
  ASSUME OnceInv, NEW o \in Orders, AskExit(o)
  PROVE  OnceInv'
<1>1. Types /\ OnePlace /\ Sorted /\ OwnOrder /\ LiveIsOpen
  BY DEF OnceInv
<1>2. /\ Types' /\ od'[o].st = od[o].st /\ od'[o].id = od[o].id
      /\ OnlyOf(o) /\ check' = check /\ exo' = exo /\ trig' = trig /\ Joins(o, "exit")
  BY <1>1, AskExitEffect
<1>3. \A p \in Orders : od'[p].id = od[p].id /\ od'[p].st = od[p].st
  BY <1>2 DEF OnlyOf
<1>4. NoneAsked
  BY <1>2, <1>3 DEF NoneAsked, Joins, EntryAt
<1>5. OnePlace'
  BY <1>1, <1>4, OnePlaceGoes, CheckSets
<1>6. Sorted' /\ OwnOrder' /\ LiveIsOpen'
  BY <1>1, <1>2, <1>3, ExoOfOrder DEF Sorted, OwnOrder, LiveIsOpen, Binds
<1> QED
  BY <1>2, <1>5, <1>6 DEF OnceInv

LEMMA OnceStopPasses ==
  ASSUME OnceInv, NEW o \in Orders, StopPasses(o)
  PROVE  OnceInv'
BY StopPassesEffect DEF OnceInv, OnePlace, Unsent, EntryAt, Sorted, OwnOrder, LiveIsOpen, Binds

LEMMA OnceFill ==
  ASSUME OnceInv, NEW x \in DOMAIN exo, Fill(x)
  PROVE  OnceInv'
<1>1. Types /\ OnePlace /\ Sorted /\ OwnOrder /\ LiveIsOpen
  BY DEF OnceInv
<1>2. /\ Types' /\ UNCHANGED <<od, trig, check, queue>> /\ DOMAIN exo' = DOMAIN exo
      /\ \A y \in DOMAIN exo : exo'[y].od = exo[y].od /\ (Binds(y)' => Binds(y))
  BY <1>1, FillEffect
<1>3. OnePlace' /\ Sorted'
  BY <1>1, <1>2 DEF OnePlace, Unsent, EntryAt, Sorted
<1>4. OwnOrder'
  BY <1>1, <1>2, OwnOrderGoes
<1>5. LiveIsOpen'
  BY <1>1, <1>2 DEF LiveIsOpen, Binds
<1> QED
  BY <1>2, <1>3, <1>4, <1>5 DEF OnceInv

LEMMA OnceTrade ==
  ASSUME OnceInv, NEW x \in DOMAIN exo, UpdateByMyTrade(x)
  PROVE  OnceInv'
<1> DEFINE o == exo[x].od
<1>1. Types /\ OnePlace /\ Sorted /\ OwnOrder /\ LiveIsOpen
  BY DEF OnceInv
<1>2. /\ Types' /\ UNCHANGED <<trig, check, queue>> /\ DOMAIN exo' = DOMAIN exo
      /\ \A y \in DOMAIN exo : exo'[y].od = exo[y].od /\ (Binds(y)' => Binds(y))
      /\ o \in Orders /\ OnlyOf(o)
      /\ od'[o].st = (IF od[o].st = "init" THEN "fullEnter" ELSE od[o].st)
      /\ od'[o].id = od[o].id
  BY <1>1, TradeEffect
<1> HIDE DEF o
<1>3. \A p \in Orders : /\ od'[p].id = od[p].id /\ (od'[p].st = "new" <=> od[p].st = "new")
                        /\ (od'[p].st = "fullExit" <=> od[p].st = "fullExit")
  BY <1>2 DEF OnlyOf
<1>4. NoneAsked
  BY <1>2, <1>3 DEF NoneAsked, EntryAt
<1>5. OnePlace'
  BY <1>1, <1>4, OnePlaceGoes, CheckSets
<1>6. Sorted' /\ OwnOrder'
  BY <1>1, <1>2, <1>3, OwnOrderGoes DEF Sorted
<1>7. LiveIsOpen'
  BY <1>1, <1>2, <1>3, ExoOfOrder DEF LiveIsOpen, Binds
<1> QED
  BY <1>2, <1>5, <1>6, <1>7 DEF OnceInv

LEMMA OnceCopy ==
  ASSUME OnceInv, ~NoBook, CopyTriggers
  PROVE  OnceInv'
<1>1. Types /\ OnePlace /\ Sorted /\ OwnOrder /\ LiveIsOpen
  BY DEF OnceInv
<1>2. /\ Types' /\ UNCHANGED <<od, trig, queue, exo>> /\ check'.left = {} /\ check'.res = {} /\ check'.at = "orders"
  BY <1>1, CopyEffect
<1>3. NoneAsked
  BY <1>2 DEF NoneAsked, EntryAt
<1>4. OnePlace'
  BY <1>1, <1>3, OnePlaceGoes, CheckSets
<1>5. Sorted' /\ OwnOrder' /\ LiveIsOpen'
  BY <1>1, <1>2 DEF Sorted, OwnOrder, LiveIsOpen, Binds
<1> QED
  BY <1>2, <1>4, <1>5 DEF OnceInv

LEMMA OnceVerifyOd ==
  ASSUME OnceInv, NEW o \in Orders, VerifyOd(o)
  PROVE  OnceInv'
<1>1. Types /\ OnePlace /\ Sorted /\ OwnOrder /\ LiveIsOpen
  BY DEF OnceInv
<1>2. /\ Types' /\ UNCHANGED <<od, trig, queue, exo>> /\ check.at = "orders" /\ o \in trig \ check.seen
      /\ check'.at = "orders" /\ check'.seen = check.seen \cup {o}
      /\ \/ check'.left = check.left /\ check'.res = check.res
         \/ check'.left = check.left /\ check'.res = check.res \cup {o}
         \/ check'.left = check.left \cup {o} /\ check'.res = check.res
  BY <1>1, VerifyOdEffect
<1>3. NoneAsked
  BY <1>2 DEF NoneAsked, EntryAt
<1>4. OnePlace'
  BY <1>1, <1>3, OnePlaceGoes, CheckSets
<1>5. Sorted' /\ OwnOrder' /\ LiveIsOpen'
  BY <1>1, <1>2 DEF Sorted, OwnOrder, LiveIsOpen, Binds
<1> QED
  BY <1>2, <1>4, <1>5 DEF OnceInv

\* An entry that is cancelled leaves no order of the exchange live.
LEMMA CancelEnds ==
  ASSUME Types, OwnOrder, LiveIsOpen, NEW o \in Orders, Cancelled(o), OnlyOf(o), od'[o].id = od[o].id,
         od'[o].st = "new" <=> od[o].st = "new"
  PROVE  OwnOrder' /\ LiveIsOpen'
<1>1. /\ exo' \in Seq(ExoRow) /\ DOMAIN exo' = DOMAIN exo
      /\ \A x \in DOMAIN exo : /\ exo'[x].od = exo[x].od
                               /\ Binds(x)' => Binds(x) /\ x # od[o].id
  BY CancelledEffect
<1>2. OwnOrder'
  BY <1>1, OwnOrderGoes DEF OnlyOf
<1>3. \A x \in DOMAIN exo : Binds(x)' => exo[x].od # o
  BY <1>1 DEF OwnOrder
<1>4. LiveIsOpen'
  BY <1>1, <1>3, ExoOfOrder DEF LiveIsOpen, Binds, OnlyOf
<1> QED
  BY <1>2, <1>4

LEMMA OnceCancelTimeout ==
  ASSUME OnceInv, NEW o \in Orders, CancelTimeoutEnter(o)
  PROVE  OnceInv'
<1>1. Types /\ OnePlace /\ Sorted /\ OwnOrder /\ LiveIsOpen
  BY DEF OnceInv
<1>2. /\ Types' /\ check.at = "orders" /\ OnlyOf(o) /\ UNCHANGED <<trig, queue>>
      /\ od'[o].st = (IF od[o].st = "init" THEN "fullExit" ELSE od[o].st) /\ od'[o].id = od[o].id
      /\ check' = Looked(o) /\ Cancelled(o)
  BY <1>1, CancelTimeoutEffect
<1>3. /\ check'.at = check.at /\ check'.seen = check.seen \cup {o}
      /\ check'.left = check.left /\ check'.res = check.res
  BY <1>1, <1>2, LookedEffect
<1>4. \A p \in Orders : od'[p].id = od[p].id /\ (od'[p].st = "new" <=> od[p].st = "new")
  BY <1>2 DEF OnlyOf
<1>5. NoneAsked
  BY <1>2, <1>3, <1>4 DEF NoneAsked, EntryAt
<1>6. OnePlace'
  BY <1>1, <1>5, OnePlaceGoes, CheckSets
<1>7. Sorted'
  BY <1>1, <1>2, <1>3 DEF Sorted
<1>8. OwnOrder' /\ LiveIsOpen'
  BY <1>1, <1>2, <1>4, CancelEnds
<1> QED
  BY <1>2, <1>6, <1>7, <1>8 DEF OnceInv

LEMMA OnceSetLeft ==
  ASSUME OnceInv, SetLeft
  PROVE  OnceInv'
<1>1. Types /\ OnePlace /\ Sorted /\ OwnOrder /\ LiveIsOpen
  BY DEF OnceInv
<1>2. /\ Types' /\ UNCHANGED <<od, queue, exo>> /\ check.at = "orders"
      /\ trig' = check.left /\ check'.at = "put" /\ check'.res = check.res
  BY <1>1, SetLeftEffect
<1>3. NoneAsked
  BY <1>1, <1>2 DEF NoneAsked, EntryAt, Sorted
<1>4. OnePlace'
  BY <1>1, <1>3, OnePlaceGoes, CheckSets
<1>5. Sorted' /\ OwnOrder' /\ LiveIsOpen'
  BY <1>1, <1>2 DEF Sorted, OwnOrder, LiveIsOpen, Binds
<1> QED
  BY <1>2, <1>4, <1>5 DEF OnceInv

LEMMA OncePut ==
  ASSUME OnceInv, IsFiniteSet(Orders), PutTriggers
  PROVE  OnceInv'
<1>1. Types /\ OnePlace /\ Sorted /\ OwnOrder /\ LiveIsOpen
  BY DEF OnceInv
<1>2. /\ Types' /\ UNCHANGED <<od, trig, exo>> /\ check.at = "put" /\ check' = Idle
      /\ \A i \in DOMAIN queue : i \in DOMAIN queue' /\ queue'[i] = queue[i]
      /\ \A i \in DOMAIN queue' \ DOMAIN queue : queue'[i].od \in check.res
      /\ \A i, j \in DOMAIN queue' \ DOMAIN queue : queue'[i].od = queue'[j].od => i = j
  BY <1>1, PutEffect
<1>3. check'.res = {} /\ check'.at = "idle"
  BY <1>2 DEF Idle
<1>4. \A i \in DOMAIN queue' : \A p \in Orders : EntryAt(i, p)' =>
        (i \notin DOMAIN queue /\ p \in check.res) \/ (i \in DOMAIN queue /\ EntryAt(i, p))
  BY <1>2 DEF EntryAt
<1>5. \A p \in Orders : Unsent(p)' => Unsent(p)
  BY <1>2, <1>3, <1>4 DEF Unsent
<1>6. OnePlace'
  <2>1. \A p \in Orders : Unsent(p)' => od'[p].st # "new" /\ od'[p].id = 0
    BY <1>1, <1>2, <1>5 DEF OnePlace
  <2>2. \A p \in Orders : od'[p].st = "new" => od'[p].id = 0
    BY <1>1, <1>2 DEF OnePlace
  <2>3. \A p \in trig' \cup check'.res : p \in Orders /\ p \in trig /\ p \notin check.res
    BY <1>1, <1>2, <1>3, CheckSets DEF Sorted
  <2>4. \A p \in trig' \cup check'.res : \A i \in DOMAIN queue' : ~EntryAt(i, p)'
    BY <1>1, <1>4, <2>3 DEF OnePlace
  <2>5. ASSUME NEW p \in Orders, NEW i \in DOMAIN queue', NEW j \in DOMAIN queue', EntryAt(i, p)', EntryAt(j, p)'
        PROVE  i = j
    <3>1. CASE p \in check.res
      <4>1. i \notin DOMAIN queue /\ j \notin DOMAIN queue
        BY <1>1, <1>4, <2>5, <3>1 DEF OnePlace
      <4>2. queue'[i].od = p /\ queue'[j].od = p
        BY <2>5 DEF EntryAt
      <4> QED
        BY <1>2, <4>1, <4>2
    <3>2. CASE p \notin check.res
      BY <1>1, <1>4, <2>5, <3>2 DEF OnePlace
    <3> QED
      BY <3>1, <3>2
  <2> QED
    BY <2>1, <2>2, <2>4, <2>5 DEF OnePlace
<1>7. Sorted' /\ OwnOrder' /\ LiveIsOpen'
  BY <1>1, <1>2, <1>3 DEF Sorted, OwnOrder, LiveIsOpen, Binds
<1> QED
  BY <1>2, <1>6, <1>7 DEF OnceInv

\* What is left in the queue when its head is taken.
LEMMA TailAsks ==
  ASSUME Types, queue # <<>>, queue' = Tail(queue)
  PROVE  \A i \in DOMAIN queue' : /\ i + 1 \in DOMAIN queue /\ i + 1 # 1 /\ i \in Nat
                                  /\ \A p \in Orders : EntryAt(i, p)' => EntryAt(i + 1, p)
<1>1. \A i \in DOMAIN queue' : i + 1 \in DOMAIN queue /\ i + 1 # 1 /\ queue'[i] = queue[i + 1]
  BY TypesUse, QueueTail
<1>2. queue' \in Seq(Request)
  BY TypesUse, QueueTail
<1>3. \A i \in DOMAIN queue' : i \in Nat
  BY <1>2
<1> QED
  BY <1>1, <1>3 DEF EntryAt

LEMMA OnceHandle ==
  ASSUME OnceInv, HandleOrderQueue
  PROVE  OnceInv'
<1>1. Types /\ OnePlace /\ Sorted /\ OwnOrder /\ LiveIsOpen
  BY DEF OnceInv
<1>0. PICK h \in Request : h = Head(queue)
  BY <1>1, HandleEffect
<1>4. PICK o \in Orders : o = h.od
  BY DEF Request
<1>2. /\ Types' /\ queue # <<>> /\ queue' = Tail(queue) /\ trig' = trig /\ check' = check
      /\ OnlyOf(o) /\ HandleEffectOf(h)
  BY <1>1, <1>0, <1>4, HandleEffect
<1>3. 1 \in DOMAIN queue /\ queue[1] = h
  BY <1>1, <1>2, <1>0, TypesUse, QueueTail
<1>5. \A i \in DOMAIN queue' : /\ i + 1 \in DOMAIN queue /\ i + 1 # 1 /\ i \in Nat
                               /\ \A p \in Orders : EntryAt(i, p)' => EntryAt(i + 1, p)
  BY <1>1, <1>2, TailAsks
<1>6. Sorted'
  BY <1>1, <1>2 DEF Sorted
<1>7. \A p \in Orders : Unsent(p)' => Unsent(p)
  BY <1>2, <1>5 DEF Unsent
<1>8. \A p \in trig' \cup check'.res : \A i \in DOMAIN queue' : ~EntryAt(i, p)'
  BY <1>1, <1>2, <1>5, CheckSets DEF OnePlace
<1>9. \A p \in Orders : \A i, j \in DOMAIN queue' : EntryAt(i, p)' /\ EntryAt(j, p)' => i = j
  <2>1. SUFFICES ASSUME NEW p \in Orders, NEW i \in DOMAIN queue', NEW j \in DOMAIN queue', EntryAt(i, p)', EntryAt(j, p)'
                 PROVE  i = j
    OBVIOUS
  <2>2. i + 1 = j + 1
    BY <1>1, <1>5, <2>1 DEF OnePlace
  <2>3. i \in Nat /\ j \in Nat
    BY <1>5
  <2> QED
    BY <2>2, <2>3
<1>10. ASSUME \A p \in Orders : od'[p].id = od[p].id /\ (od'[p].st = "new" <=> od[p].st = "new")
       PROVE  OnePlace'
  BY <1>1, <1>7, <1>8, <1>9, <1>10 DEF OnePlace
<1>11. CASE Sends(o) /\ h.act # "exit"
  <2>1. /\ exo' = Append(exo, [od |-> o, st |-> "live", told |-> FALSE, kept |-> FALSE])
        /\ od'[o].st = od[o].st /\ od'[o].id = Len(exo) + 1 /\ od[o].st # "fullExit"
    BY <1>11 DEF Sends
  <2>2. EntryAt(1, o)
    BY <1>3, <1>4, <1>11 DEF EntryAt
  <2>3. od[o].st # "new" /\ od[o].id = 0
    BY <1>1, <1>3, <1>4, <2>2 DEF OnePlace, Unsent
  <2>4. ~Unsent(o)'
    <3>1. o \notin trig \cup check.res
      BY <1>1, <1>3, <2>2 DEF OnePlace
    <3>2. \A i \in DOMAIN queue' : ~EntryAt(i, o)'
      BY <1>1, <1>3, <1>4, <1>5, <2>2 DEF OnePlace
    <3> QED
      BY <1>2, <3>1, <3>2 DEF Unsent
  <2>5. OnePlace'
    <3>1. \A p \in Orders : Unsent(p)' => od'[p].st # "new" /\ od'[p].id = 0
      BY <1>1, <1>2, <1>7, <2>4 DEF OnePlace, OnlyOf
    <3>2. \A p \in Orders : od'[p].st = "new" => od'[p].id = 0
      BY <1>1, <1>2, <2>1, <2>3 DEF OnePlace, OnlyOf
    <3> QED
      BY <1>8, <1>9, <3>1, <3>2 DEF OnePlace
  <2>6. PICK r \in ExoRow : r = [od |-> o, st |-> "live", told |-> FALSE, kept |-> FALSE]
    BY <1>4 DEF ExoRow, ExoStates
  <2>7. PICK n \in Nat : n = Len(exo) + 1
    BY <1>1, TypesUse
  <2>8. /\ DOMAIN exo' = DOMAIN exo \cup {n} /\ exo'[n].od = o /\ \A y \in DOMAIN exo : exo'[y] = exo[y]
    BY <1>1, <2>1, <2>6, <2>7, TypesUse, ExoAppended
  <2>9. \A x \in DOMAIN exo : exo[x].od \in Orders /\ exo[x].od # o
    BY <1>1, <2>3, ExoOfOrder DEF OwnOrder
  <2>10. OwnOrder'
    BY <1>1, <1>2, <2>1, <2>3, <2>7, <2>8, <2>9 DEF OwnOrder, OnlyOf
  <2>11. LiveIsOpen'
    BY <1>1, <1>2, <2>1, <2>8, <2>9 DEF LiveIsOpen, Binds, OnlyOf
  <2> QED
    BY <1>2, <1>6, <2>5, <2>10, <2>11 DEF OnceInv
<1>12. CASE IsRefused(o) /\ h.act # "exit"
  <2>1. exo' = exo /\ od'[o].st = "fullExit" /\ od'[o].id = od[o].id
    BY <1>12 DEF IsRefused
  <2>2. EntryAt(1, o)
    BY <1>3, <1>4, <1>12 DEF EntryAt
  <2>3. od[o].st # "new" /\ od[o].id = 0
    BY <1>1, <1>3, <1>4, <2>2 DEF OnePlace, Unsent
  <2>4. OnePlace'
    BY <1>2, <1>10, <2>1, <2>3 DEF OnlyOf
  <2>5. \A x \in DOMAIN exo : exo[x].od \in Orders /\ exo[x].od # o
    BY <1>1, <2>3, ExoOfOrder DEF OwnOrder
  <2>6. OwnOrder' /\ LiveIsOpen'
    BY <1>1, <1>2, <2>1, <2>5 DEF OwnOrder, LiveIsOpen, Binds, OnlyOf
  <2> QED
    BY <1>2, <1>6, <2>4, <2>6 DEF OnceInv
<1>13. CASE od' = od /\ exo' = exo
  BY <1>1, <1>2, <1>6, <1>10, <1>13 DEF OnceInv, OwnOrder, LiveIsOpen, Binds
<1>14. CASE Cancelled(o) /\ od'[o].st = "fullExit" /\ od'[o].id = od[o].id
  <2>1. CASE od[o].st # "new"
    BY <1>1, <1>2, <1>4, <1>6, <1>10, <1>14, <2>1, CancelEnds DEF OnceInv, OnlyOf
  <2>2. CASE od[o].st = "new"
    <3>1. \A p \in Orders : Unsent(p)' => od'[p].st # "new" /\ od'[p].id = 0
      BY <1>1, <1>2, <1>7, <1>14 DEF OnePlace, OnlyOf
    <3>2. \A p \in Orders : od'[p].st = "new" => od'[p].id = 0
      BY <1>1, <1>2, <1>14 DEF OnePlace, OnlyOf
    <3>3. OnePlace'
      BY <1>8, <1>9, <3>1, <3>2 DEF OnePlace
    <3>4. /\ DOMAIN exo' = DOMAIN exo
          /\ \A x \in DOMAIN exo : exo'[x].od = exo[x].od /\ (Binds(x)' => Binds(x))
      BY <1>1, <1>4, <1>14, CancelledEffect
    <3>5. \A x \in DOMAIN exo : exo[x].od \in Orders /\ exo[x].od # o
      BY <1>1, <2>2, ExoOfOrder DEF OwnOrder
    <3>6. OwnOrder' /\ LiveIsOpen'
      BY <1>1, <1>2, <3>4, <3>5 DEF OwnOrder, LiveIsOpen, Binds, OnlyOf
    <3> QED
      BY <1>2, <1>6, <3>3, <3>6 DEF OnceInv
  <2> QED
    BY <2>1, <2>2
<1> QED
  BY <1>2, <1>4, <1>11, <1>12, <1>13, <1>14 DEF HandleEffectOf, Passes

-----------------------------------------------------------------------------
LEMMA OnceInit ==
  ASSUME Init
  PROVE  OnceInv
<1>1. Types
  <2>1. od \in [Orders -> [st : {"new", "init", "fullEnter", "fullExit"}, id : Nat, exit : BOOLEAN]]
    BY DEF Init, NewOd
  <2>2. check \in [at : {"idle", "orders", "put"}, seen : SUBSET Orders, todo : SUBSET Orders,
                   left : SUBSET Orders, res : SUBSET Orders]
    BY DEF Init, Idle
  <2> QED
    BY <2>1, <2>2 DEF Init, Types
<1>2. trig = {} /\ check.res = {} /\ check.at = "idle" /\ queue = <<>> /\ exo = <<>>
      /\ \A o \in Orders : od[o].id = 0
  BY DEF Init, Idle, NewOd
<1>3. OnePlace /\ Sorted
  BY <1>2 DEF OnePlace, Sorted, Unsent
<1>4. OwnOrder /\ LiveIsOpen
  BY <1>2 DEF OwnOrder, LiveIsOpen, Binds
<1> QED
  BY <1>1, <1>3, <1>4 DEF OnceInv

LEMMA OnceStays ==
  ASSUME IsFiniteSet(Orders), ~NoBook, ~Edits, OnceInv, [Next]_vars
  PROVE  OnceInv'
<1>1. CASE Asks
  BY <1>1, OnceAfterEnter, OnceAskExit DEF Asks, EditOrder
<1>2. CASE Exchange
  BY <1>2, OnceFill, OnceTrade DEF Exchange
<1>3. CASE Verify
  BY <1>3, OnceCopy, OnceVerifyOd, OnceCancelTimeout, OnceSetLeft, OncePut DEF Verify
<1>4. CASE HandleOrderQueue
  BY <1>4, OnceHandle
<1>5. CASE \E o \in Orders : StopPasses(o)
  BY <1>5, OnceStopPasses
<1>6. CASE UNCHANGED vars
  BY <1>6 DEF vars, OnceInv, Types, OnePlace, Unsent, EntryAt, Sorted, OwnOrder, LiveIsOpen, Binds
<1> QED
  BY <1>1, <1>2, <1>3, <1>4, <1>5, <1>6 DEF Next, Bot

\* An order of the exchange is the one its entry is known by, so an entry has one.
LEMMA OneLive ==
  ASSUME OnceInv
  PROVE  EntersOnce
<1>1. SUFFICES ASSUME NEW o \in Orders
               PROVE  Cardinality(Live(o)) <= 1
  BY DEF EntersOnce
<1>2. \A x, y \in Live(o) : x = y
  BY DEF Live, OnceInv, OwnOrder
<1>3. CASE Live(o) = {}
  BY <1>3, FS_EmptySet
<1>4. CASE Live(o) # {}
  <2>1. PICK x : Live(o) = {x}
    BY <1>2, <1>4
  <2>2. Cardinality(Live(o)) = 1
    BY <2>1, FS_Singleton
  <2> QED
    BY <2>2
<1> QED
  BY <1>3, <1>4

LEMMA EndedIsGone ==
  ASSUME OnceInv
  PROVE  EndedLeavesNone
BY DEF OnceInv, LiveIsOpen, Binds, EndedLeavesNone, Live

OnceSettings == IsFiniteSet(Orders) /\ ~NoBook /\ ~Edits
\* Types, and the one place where an entry is asked for, in every state.
THEOREM TriggerInvariant == OnceSettings => (Spec => []OnceInv)
<1>1. ASSUME OnceSettings PROVE Spec => []OnceInv
  <2>1. OnceInv /\ [Next]_vars => OnceInv'
    BY <1>1, OnceStays DEF OnceSettings
  <2>2. Init => OnceInv
    BY OnceInit
  <2> QED
    BY <2>1, <2>2, PTL DEF Spec
<1> QED
  BY <1>1

\* An entry is at the exchange once, in whatever order its minute check, the
\* queue and the strategy run (verifyAccountTriggerOds, handleOrderQueue).
THEOREM EntryIsSentOnce == OnceSettings => (Spec => []EntersOnce)
<1>1. ASSUME OnceSettings PROVE Spec => []EntersOnce
  <2>1. OnceInv => EntersOnce
    BY OneLive
  <2>2. Spec => []OnceInv
    BY <1>1, TriggerInvariant
  <2> QED
    BY <2>1, <2>2, PTL
<1> QED
  BY <1>1

\* An order its StopAfter, a refusal or its exit ended has left nothing open at the exchange
\* but an entry whose cancel was tried and failed.
THEOREM EndedIsCancelled == OnceSettings => (Spec => []EndedLeavesNone)
<1>1. ASSUME OnceSettings PROVE Spec => []EndedLeavesNone
  <2>1. OnceInv => EndedLeavesNone
    BY EndedIsGone
  <2>2. Spec => []OnceInv
    BY <1>1, TriggerInvariant
  <2> QED
    BY <2>1, <2>2, PTL
<1> QED
  BY <1>1

-----------------------------------------------------------------------------
(* Nobody forgets an entry, whatever is asked and whether or not the book can   *)
(* be had, as long as none is put aside while the check of a minute runs.       *)
QueuedFor(o) == \E i \in DOMAIN queue : queue[i].od = o
Grows == \A i \in DOMAIN queue : i \in DOMAIN queue' /\ queue'[i] = queue[i]
LEMMA GrowsKeep ==
  ASSUME Grows, NEW o
  PROVE  (ExitAt(o) => ExitAt(o)') /\ (QueuedFor(o) => QueuedFor(o)')
BY DEF Grows, ExitAt, QueuedFor

LEMMA JoinsGrow ==
  ASSUME NEW o, NEW a, Joins(o, a)
  PROVE  Grows /\ QueuedFor(o)' /\ (a = "exit" => ExitAt(o)')
BY DEF Joins, Grows, QueuedFor, ExitAt

\* What was never sent, as NotForgotten says it.
Fresh(o) == od[o].st = "init" /\ od[o].id = 0
LEMMA NotForgottenSays ==
  ASSUME NotForgotten
  PROVE  \A o \in Orders : Fresh(o) => o \in trig \cup check.res \/ QueuedFor(o)
BY DEF NotForgotten, Fresh, QueuedFor
LEMMA NotForgottenIf ==
  ASSUME \A o \in Orders : Fresh(o)' => o \in trig' \cup check'.res \/ QueuedFor(o)'
  PROVE  NotForgotten'
BY DEF NotForgotten, Fresh, QueuedFor

LEMMA KeptAfterEnter ==
  ASSUME KeptInv, ~Meanwhile, NEW o \in Orders, AfterEnter(o)
  PROVE  KeptInv'
<1>1. Types /\ ExitAsked /\ AllSeen /\ NotForgotten
  BY DEF KeptInv
<1>2. /\ Types' /\ od[o].st = "new" /\ od'[o].st = "init" /\ od'[o].exit = od[o].exit
      /\ OnlyOf(o) /\ check' = check
      /\ \/ trig' = trig \cup {o} /\ check = Idle /\ queue' = queue
         \/ trig' = trig /\ Joins(o, "enter")
  BY <1>1, AfterEnterEffect
<1>3. Grows /\ (o \in trig' \/ QueuedFor(o)') /\ trig \subseteq trig'
  BY <1>2, JoinsGrow DEF Grows
<1>4. ~od[o].exit /\ o \notin check.seen
  BY <1>1, <1>2 DEF ExitAsked, AllSeen
<1>5. ExitAsked'
  BY <1>1, <1>2, <1>3, <1>4, GrowsKeep DEF ExitAsked, OnlyOf
<1>6. AllSeen'
  <2>1. \A p \in trig' \cup check'.seen \cup check'.left : p \in Orders /\ (p = o \/ p \in trig \cup check.seen \cup check.left)
    BY <1>1, <1>2, CheckSets
  <2>2. \A p \in trig' \cup check'.seen \cup check'.left : od'[p].st # "new"
    BY <1>1, <1>2, <2>1 DEF AllSeen, OnlyOf
  <2>3. check'.at = "orders" => trig' \subseteq check'.seen \cup check'.todo
    BY <1>1, <1>2 DEF AllSeen, Idle
  <2>4. check'.at = "orders" =>
         \A p \in check'.seen : od'[p].st = "init" /\ od'[p].id = 0 => p \in check'.left \cup check'.res
    BY <1>1, <1>2, <1>4, CheckSets DEF AllSeen, OnlyOf
  <2> QED
    BY <2>2, <2>3, <2>4 DEF AllSeen
<1>7. \A p \in Orders : Fresh(p)' => p = o \/ Fresh(p)
  BY <1>2 DEF Fresh, OnlyOf
<1>8. NotForgotten'
  BY <1>1, <1>2, <1>3, <1>7, GrowsKeep, NotForgottenSays, NotForgottenIf
<1> QED
  BY <1>2, <1>5, <1>6, <1>8 DEF KeptInv

LEMMA KeptEditOrder ==
  ASSUME KeptInv, ~Meanwhile, NEW o \in Orders, EditOrder(o)
  PROVE  KeptInv'
<1>1. Types /\ ExitAsked /\ AllSeen /\ NotForgotten
  BY DEF KeptInv
<1>2. /\ Types' /\ od[o].st = "init" /\ od' = od /\ check' = check
      /\ \/ trig' = trig \cup {o} /\ check = Idle /\ queue' = queue
         \/ trig' = trig /\ Joins(o, "limitEnter")
  BY <1>1, EditOrderEffect
<1>3. Grows /\ trig \subseteq trig'
  BY <1>2, JoinsGrow DEF Grows
<1>4. ExitAsked'
  BY <1>1, <1>2, <1>3, GrowsKeep DEF ExitAsked
<1>5. AllSeen'
  BY <1>1, <1>2 DEF AllSeen, Idle
<1>6. \A p \in Orders : Fresh(p)' => Fresh(p)
  BY <1>2 DEF Fresh
<1>7. NotForgotten'
  BY <1>1, <1>2, <1>3, <1>6, GrowsKeep, NotForgottenSays, NotForgottenIf
<1> QED
  BY <1>2, <1>4, <1>5, <1>7 DEF KeptInv

LEMMA KeptAskExit ==
  ASSUME KeptInv, NEW o \in Orders, AskExit(o)
  PROVE  KeptInv'
<1>1. Types /\ ExitAsked /\ AllSeen /\ NotForgotten
  BY DEF KeptInv
<1>2. /\ Types' /\ Open(o) /\ od'[o].st = od[o].st /\ od'[o].id = od[o].id
      /\ OnlyOf(o) /\ check' = check /\ trig' = trig /\ Joins(o, "exit")
  BY <1>1, AskExitEffect
<1>3. Grows /\ ExitAt(o)'
  BY <1>2, JoinsGrow
<1>4. \A p \in Orders : od'[p].st = od[p].st /\ od'[p].id = od[p].id
  BY <1>2 DEF OnlyOf
<1>5. ExitAsked'
  BY <1>1, <1>2, <1>3, <1>4, GrowsKeep DEF ExitAsked, OnlyOf, Open
<1>6. AllSeen'
  BY <1>1, <1>2, <1>4, CheckSets DEF AllSeen
<1>7. \A p \in Orders : Fresh(p)' => Fresh(p)
  BY <1>4 DEF Fresh
<1>8. NotForgotten'
  BY <1>1, <1>2, <1>3, <1>7, GrowsKeep, NotForgottenSays, NotForgottenIf
<1> QED
  BY <1>2, <1>5, <1>6, <1>8 DEF KeptInv

LEMMA KeptSame ==
  ASSUME KeptInv, Types', UNCHANGED <<od, trig, check, queue>>
  PROVE  KeptInv'
BY DEF KeptInv, ExitAsked, ExitAt, AllSeen, NotForgotten

LEMMA KeptTrade ==
  ASSUME KeptInv, NEW x \in DOMAIN exo, UpdateByMyTrade(x)
  PROVE  KeptInv'
<1>1. Types /\ ExitAsked /\ AllSeen /\ NotForgotten
  BY DEF KeptInv
<1>2. PICK o \in Orders : o = exo[x].od
  BY <1>1, TradeEffect
<1>3. /\ Types' /\ UNCHANGED <<trig, check, queue>> /\ OnlyOf(o)
      /\ od'[o].st = (IF od[o].st = "init" THEN "fullEnter" ELSE od[o].st)
      /\ od'[o].id = od[o].id /\ od'[o].exit = od[o].exit
  BY <1>1, <1>2, TradeEffect
<1>4. \A p \in Orders : /\ od'[p].id = od[p].id /\ od'[p].exit = od[p].exit /\ (od'[p].st = "new" <=> od[p].st = "new")
                        /\ od'[p].st = "init" => od[p].st = "init"
  BY <1>3 DEF OnlyOf
<1>5. ExitAsked'
  BY <1>1, <1>3, <1>4 DEF ExitAsked, ExitAt
<1>6. AllSeen'
  BY <1>1, <1>3, <1>4, CheckSets DEF AllSeen
<1>7. \A p \in Orders : Fresh(p)' => Fresh(p)
  BY <1>4 DEF Fresh
<1>8. NotForgotten'
  BY <1>1, <1>3, <1>7, NotForgottenSays, NotForgottenIf DEF QueuedFor
<1> QED
  BY <1>3, <1>5, <1>6, <1>8 DEF KeptInv

LEMMA KeptCopy ==
  ASSUME KeptInv, CopyTriggers
  PROVE  KeptInv'
<1>1. Types /\ ExitAsked /\ AllSeen /\ NotForgotten
  BY DEF KeptInv
<1>2. /\ Types' /\ UNCHANGED <<od, trig, queue>> /\ check.res = {}
      /\ check'.seen = {} /\ check'.left = {}
      /\ \/ check'.at = "orders" /\ check'.todo = trig /\ check'.res = {}
         \/ check'.at = "put" /\ check'.res = trig
  BY <1>1, CopyEffect
<1>3. ExitAsked' /\ AllSeen'
  BY <1>1, <1>2 DEF ExitAsked, ExitAt, AllSeen
<1>4. NotForgotten'
  BY <1>1, <1>2 DEF NotForgotten
<1> QED
  BY <1>2, <1>3, <1>4 DEF KeptInv

LEMMA KeptVerifyOd ==
  ASSUME KeptInv, NEW o \in Orders, VerifyOd(o)
  PROVE  KeptInv'
<1>1. Types /\ ExitAsked /\ AllSeen /\ NotForgotten
  BY DEF KeptInv
<1>2. /\ Types' /\ UNCHANGED <<od, trig, queue>> /\ check.at = "orders" /\ o \in trig
      /\ check'.at = "orders" /\ check'.seen = check.seen \cup {o} /\ check'.todo = check.todo \ {o}
      /\ \/ ~Open(o) /\ check'.left = check.left /\ check'.res = check.res
         \/ check'.left = check.left /\ check'.res = check.res \cup {o}
         \/ check'.left = check.left \cup {o} /\ check'.res = check.res
  BY <1>1, VerifyOdEffect
<1>3. ExitAsked'
  BY <1>1, <1>2 DEF ExitAsked, ExitAt
<1>4. AllSeen'
  BY <1>1, <1>2 DEF AllSeen, Open
<1>5. NotForgotten'
  BY <1>1, <1>2 DEF NotForgotten
<1> QED
  BY <1>2, <1>3, <1>4, <1>5 DEF KeptInv

LEMMA KeptCancelTimeout ==
  ASSUME KeptInv, NEW o \in Orders, CancelTimeoutEnter(o)
  PROVE  KeptInv'
<1>1. Types /\ ExitAsked /\ AllSeen /\ NotForgotten
  BY DEF KeptInv
<1>2. /\ Types' /\ check.at = "orders" /\ OnlyOf(o) /\ o \in trig /\ UNCHANGED <<trig, queue>>
      /\ od'[o].st = (IF od[o].st = "init" THEN "fullExit" ELSE od[o].st)
      /\ od'[o].id = od[o].id /\ od'[o].exit = od[o].exit /\ check' = Looked(o)
  BY <1>1, CancelTimeoutEffect
<1>3. /\ check'.at = check.at /\ check'.seen = check.seen \cup {o} /\ check'.todo = check.todo \ {o}
      /\ check'.left = check.left /\ check'.res = check.res
  BY <1>1, <1>2, LookedEffect
<1>4. \A p \in Orders : /\ od'[p].id = od[p].id /\ od'[p].exit = od[p].exit /\ (od'[p].st = "new" <=> od[p].st = "new")
                        /\ od'[p].st = "init" => od[p].st = "init" /\ p # o
  BY <1>2 DEF OnlyOf
<1>5. ExitAsked'
  BY <1>1, <1>2, <1>4 DEF ExitAsked, ExitAt
<1>6. AllSeen'
  BY <1>1, <1>2, <1>3, <1>4, CheckSets DEF AllSeen
<1>7. \A p \in Orders : Fresh(p)' => Fresh(p)
  BY <1>4 DEF Fresh
<1>8. NotForgotten'
  BY <1>1, <1>2, <1>3, <1>7, NotForgottenSays, NotForgottenIf DEF QueuedFor
<1> QED
  BY <1>2, <1>5, <1>6, <1>8 DEF KeptInv

LEMMA KeptSetLeft ==
  ASSUME KeptInv, SetLeft
  PROVE  KeptInv'
<1>1. Types /\ ExitAsked /\ AllSeen /\ NotForgotten
  BY DEF KeptInv
<1>2. /\ Types' /\ UNCHANGED <<od, queue>> /\ check.at = "orders" /\ check.todo = {}
      /\ trig' = check.left /\ check'.at = "put" /\ check'.res = check.res /\ check'.seen = {} /\ check'.left = {}
  BY <1>1, SetLeftEffect
<1>3. ExitAsked' /\ AllSeen'
  BY <1>1, <1>2 DEF ExitAsked, ExitAt, AllSeen
<1>4. NotForgotten'
  BY <1>1, <1>2 DEF NotForgotten, AllSeen
<1> QED
  BY <1>2, <1>3, <1>4 DEF KeptInv

LEMMA KeptPut ==
  ASSUME KeptInv, IsFiniteSet(Orders), PutTriggers
  PROVE  KeptInv'
<1>1. Types /\ ExitAsked /\ AllSeen /\ NotForgotten
  BY DEF KeptInv
<1>2. /\ Types' /\ UNCHANGED <<od, trig>> /\ check' = Idle /\ Grows
      /\ \A o \in check.res : Open(o) => QueuedFor(o)'
  BY <1>1, PutEffect DEF Grows, QueuedFor
<1>3. check'.res = {} /\ check'.at = "idle" /\ check'.seen = {} /\ check'.left = {}
  BY <1>2 DEF Idle
<1>4. ExitAsked'
  BY <1>1, <1>2, GrowsKeep DEF ExitAsked
<1>5. AllSeen'
  BY <1>1, <1>2, <1>3 DEF AllSeen
<1>6. \A p \in Orders : (Fresh(p)' => Fresh(p)) /\ (Fresh(p) => Open(p))
  BY <1>2 DEF Fresh, Open
<1>7. NotForgotten'
  BY <1>1, <1>2, <1>3, <1>6, GrowsKeep, NotForgottenSays, NotForgottenIf
<1> QED
  BY <1>2, <1>4, <1>5, <1>7 DEF KeptInv

LEMMA KeptHandle ==
  ASSUME KeptInv, HandleOrderQueue
  PROVE  KeptInv'
<1>1. Types /\ ExitAsked /\ AllSeen /\ NotForgotten
  BY DEF KeptInv
<1>2. PICK h \in Request : h = Head(queue)
  BY <1>1, HandleEffect
<1>3. PICK o \in Orders : o = h.od
  BY DEF Request
<1>4. /\ Types' /\ queue # <<>> /\ queue' = Tail(queue) /\ trig' = trig /\ check' = check
      /\ OnlyOf(o) /\ HandleEffectOf(h)
  BY <1>1, <1>2, <1>3, HandleEffect
<1>5. queue[1] = h /\ \A i \in DOMAIN queue \ {1} : i - 1 \in DOMAIN queue' /\ queue'[i - 1] = queue[i]
  BY <1>1, <1>2, <1>4, TypesUse, QueueTail
<1>6. \A p \in Orders \ {o} : (ExitAt(p) => ExitAt(p)') /\ (QueuedFor(p) => QueuedFor(p)')
  BY <1>3, <1>5 DEF ExitAt, QueuedFor
<1>7. h.act # "exit" /\ ExitAt(o) => ExitAt(o)'
  BY <1>5 DEF ExitAt
<1>8. ExitAt(o)' => QueuedFor(o)'
  BY DEF ExitAt, QueuedFor
\* The request is refused, or has ended what it is about, or changes nothing.
<1>9. /\ od'[o].exit => od'[o].st # "new" /\ (od'[o].st = "init" => ExitAt(o)')
      /\ Fresh(o)' => ExitAt(o)'
      /\ od'[o].st = "new" => od[o].st = "new"
      /\ Fresh(o)' => Fresh(o)
  <2>1. od[o].exit => od[o].st # "new" /\ (od[o].st = "init" => ExitAt(o))
    BY <1>1 DEF ExitAsked
  <2>2. CASE h.act # "exit" /\ Sends(o)
    <3>1. ~od'[o].exit /\ od'[o].st = od[o].st /\ od'[o].id # 0
      BY <1>1, <2>2, TypesUse DEF Sends
    <3> QED
      BY <3>1 DEF Fresh
  <2>3. CASE h.act # "exit" /\ IsRefused(o)
    BY <2>3 DEF IsRefused, Fresh
  <2>4. CASE h.act # "exit" /\ Passes(o)
    BY <1>7, <2>1, <2>4 DEF Passes, Fresh
  <2>5. CASE h.act = "limitEnter" /\ od[o].id # 0 /\ od' = od
    BY <1>7, <2>1, <2>5 DEF Fresh
  <2>6. CASE od'[o].st = "fullExit"
    BY <2>6 DEF Fresh
  <2> QED
    BY <1>3, <1>4, <2>2, <2>3, <2>4, <2>5, <2>6 DEF HandleEffectOf
<1>10. ExitAsked'
  BY <1>1, <1>4, <1>6, <1>9 DEF ExitAsked, OnlyOf
<1>11. \A p \in Orders : (Fresh(p)' => Fresh(p)) /\ (od'[p].st = "new" => od[p].st = "new")
  BY <1>4, <1>9 DEF OnlyOf, Fresh
<1>12. AllSeen'
  BY <1>1, <1>4, <1>11, CheckSets DEF AllSeen, Fresh
<1>13. NotForgotten'
  BY <1>1, <1>4, <1>6, <1>8, <1>9, <1>11, NotForgottenSays, NotForgottenIf
<1> QED
  BY <1>4, <1>10, <1>12, <1>13 DEF KeptInv

-----------------------------------------------------------------------------
LEMMA KeptInit ==
  ASSUME Init
  PROVE  KeptInv
<1>1. Types
  BY OnceInit DEF OnceInv
<1>2. trig = {} /\ check.seen = {} /\ check.left = {} /\ check.at = "idle"
      /\ \A o \in Orders : od[o].st = "new" /\ od[o].exit = FALSE
  BY DEF Init, Idle, NewOd
<1> QED
  BY <1>1, <1>2 DEF KeptInv, ExitAsked, AllSeen, NotForgotten

LEMMA KeptStays ==
  ASSUME IsFiniteSet(Orders), ~Meanwhile, KeptInv, [Next]_vars
  PROVE  KeptInv'
<1>1. Types
  BY DEF KeptInv
<1>2. CASE Asks
  BY <1>2, KeptAfterEnter, KeptEditOrder, KeptAskExit DEF Asks
<1>3. CASE Exchange
  <2>1. CASE \E x \in DOMAIN exo : Fill(x)
    BY <1>1, <2>1, FillEffect, KeptSame
  <2>2. CASE \E x \in DOMAIN exo : UpdateByMyTrade(x)
    BY <2>2, KeptTrade
  <2> QED
    BY <1>3, <2>1, <2>2 DEF Exchange
<1>4. CASE Verify
  BY <1>4, KeptCopy, KeptVerifyOd, KeptCancelTimeout, KeptSetLeft, KeptPut DEF Verify
<1>5. CASE HandleOrderQueue
  BY <1>5, KeptHandle
<1>6. CASE \E o \in Orders : StopPasses(o)
  BY <1>1, <1>6, StopPassesEffect, KeptSame
<1>7. CASE UNCHANGED vars
  <2>1. Types'
    BY <1>1, <1>7 DEF vars, Types
  <2> QED
    BY <1>7, <2>1, KeptSame DEF vars
<1> QED
  BY <1>2, <1>3, <1>4, <1>5, <1>6, <1>7 DEF Next, Bot

\* An entry that was never sent goes on waiting or is in the queue, as long as no
\* order is put aside while the check of a minute runs (verifyAccountTriggerOds
\* replaces triggerOds by what it kept, and loses an order put there meanwhile).
THEOREM NobodyForgotten == IsFiniteSet(Orders) /\ ~Meanwhile => (Spec => []NotForgotten)
<1>1. ASSUME IsFiniteSet(Orders), ~Meanwhile PROVE Spec => []NotForgotten
  <2>1. KeptInv /\ [Next]_vars => KeptInv'
    BY <1>1, KeptStays
  <2>2. Init => KeptInv
    BY KeptInit
  <2>3. KeptInv => NotForgotten
    BY DEF KeptInv
  <2> QED
    BY <2>1, <2>2, <2>3, PTL DEF Spec
<1> QED
  BY <1>1
=============================================================================
