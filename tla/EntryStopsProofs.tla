--------------------------- MODULE EntryStopsProofs ---------------------------
(* Theorems about EntryStops, for any accounts, bots, hours, orders and losses. *)
EXTENDS EntryStops, TLAPS

-----------------------------------------------------------------------------
(* The invariant *)

States == {"asked", "refused", "open", "exit", "closing", "closed"}
Order == [acc : Accounts, state : States, asked : Int, enter : Int, exit : Int, profit : Profits \cup {0}]
Stop == [bot : Bots, from : Int, to : Int]
StopTypes ==
  /\ now \in Int
  /\ disabled \in [Bots -> [Accounts -> Int]] /\ writing \in [Bots -> SUBSET Accounts] /\ until \in [Bots -> Int]
  /\ stops \subseteq Stop
Types == StopTypes /\ DOMAIN orders \subseteq Ids /\ \A o \in DOMAIN orders : orders[o] \in Order

\* A stop that goes on is what its bot wrote for every account.
GoesOn(s) == s.from <= now /\ (s.to > now => \A a \in Accounts : disabled[s.bot][a] >= s.to)
\* While a command is written, what its bot promised before has ended.
Writes(b) ==
  writing[b] # {} =>
    /\ \A s \in stops : s.bot = b => s.to <= now
    /\ \A a \in Accounts \ writing[b] : disabled[b][a] = until[b]
Stopped ==
  /\ \A s \in stops : GoesOn(s)
  /\ \A b \in Bots : Writes(b)
  /\ \A o \in DOMAIN orders : orders[o].asked <= now

Cmd == [id : Ids \cup {0}, accs : SUBSET Accounts, todo : SUBSET Ids, seen : SUBSET Ids, ok : SUBSET Ids,
        failed : SUBSET Ids, told : SUBSET Ids, done : BOOLEAN]
\* What the command has seen was open when it was found, and is counted once it is handled.
Handled ==
  /\ cmd \in Cmd
  /\ cmd.seen = cmd.ok \cup cmd.failed \cup cmd.todo /\ cmd.seen \subseteq DOMAIN orders
  /\ \A o \in cmd.todo : orders[o].state \in {"open", "exit", "closing", "closed"}
  /\ \A o \in cmd.ok : orders[o].state \in {"exit", "closing", "closed"}
  /\ \A o \in cmd.failed : orders[o].state \in {"closing", "closed"}
  /\ cmd.id # 0 => cmd.seen \subseteq {cmd.id}
  /\ cmd.told \subseteq cmd.ok
  /\ cmd.done => cmd.todo = {} /\ (cmd.id = 0 => cmd.told = cmd.ok)

StopsInv == Types /\ Stopped /\ StopsAreKept

-----------------------------------------------------------------------------
(* The orders *)

LEMMA WithIs ==
  ASSUME NEW o, NEW r, With(o, r)
  PROVE  /\ DOMAIN orders' = DOMAIN orders \cup {o} /\ orders'[o] = r
         /\ \A x \in DOMAIN orders : x # o => orders'[x] = orders[x]
BY DEF With
LEMMA OrderMoves ==
  ASSUME Types, NEW o \in DOMAIN orders, NEW r \in Order, With(o, r)
  PROVE  /\ DOMAIN orders' = DOMAIN orders /\ orders'[o] = r
         /\ \A x \in DOMAIN orders : x # o => orders'[x] = orders[x]
         /\ \A x \in DOMAIN orders' : orders'[x] \in Order
<1>1. /\ DOMAIN orders' = DOMAIN orders \cup {o} /\ orders'[o] = r
      /\ \A x \in DOMAIN orders : x # o => orders'[x] = orders[x]
  BY WithIs
<1>2. DOMAIN orders' = DOMAIN orders
  BY <1>1
<1> QED
  BY <1>1, <1>2 DEF Types, StopTypes

\* What a step does to the orders: nothing, or it moves one of them, or asks for one.
Moved(o, r) ==
  /\ o \in DOMAIN orders /\ r \in Order /\ With(o, r) /\ r.asked = orders[o].asked
  /\ \/ orders[o].state = "asked" /\ r.state \in {"refused", "open"}
     \/ orders[o].state \in {"open", "exit"} /\ r.state \in {"closing", "exit"}
     \/ orders[o].state = "closing" /\ r.state = "closed"
AsksFor(o, r) ==
  /\ o \in Ids \ DOMAIN orders /\ r \in Order /\ With(o, r) /\ r.asked = now /\ r.state = "asked"
  /\ ~IsTradingDisabled(r.acc)

LEMMA Asked ==
  ASSUME Types, OpenOrder
  PROVE  /\ \E o, r : AsksFor(o, r)
         /\ UNCHANGED <<now, startAt, count, crashes, stopVars, cmd>>
<1>1. PICK a \in Accounts, o \in Ids \ DOMAIN orders :
        /\ ~IsTradingDisabled(a)
        /\ With(o, [acc |-> a, state |-> "asked", asked |-> now, enter |-> 0, exit |-> 0, profit |-> 0])
  BY DEF OpenOrder
<1> DEFINE r == [acc |-> a, state |-> "asked", asked |-> now, enter |-> 0, exit |-> 0, profit |-> 0]
<1>2. r \in Order /\ r.asked = now /\ r.state = "asked" /\ r.acc = a
  BY DEF Types, StopTypes, Order, States
<1>3. AsksFor(o, r)
  BY <1>1, <1>2 DEF AsksFor
<1> QED
  BY <1>3 DEF OpenOrder

\* An order with another state.
LEMMA Becomes ==
  ASSUME Types, NEW o \in DOMAIN orders, NEW x \in States
  PROVE  /\ [orders[o] EXCEPT !.state = x] \in Order
         /\ [orders[o] EXCEPT !.state = x].state = x
         /\ [orders[o] EXCEPT !.state = x].asked = orders[o].asked
         /\ [orders[o] EXCEPT !.state = x, !.enter = now] \in Order
         /\ [orders[o] EXCEPT !.state = x, !.enter = now].state = x
         /\ [orders[o] EXCEPT !.state = x, !.enter = now].asked = orders[o].asked
<1>1. orders[o] \in Order /\ now \in Int
  BY DEF Types, StopTypes
<1> QED
  BY <1>1 DEF Order

LEMMA Allowed ==
  ASSUME Types, AllowOrderEnter
  PROVE  /\ \E o, r : Moved(o, r)
         /\ UNCHANGED <<now, startAt, count, crashes, stopVars, cmd>>
<1>1. PICK o \in In({"asked"}) :
        With(o, IF now < noEnter[orders[o].acc] THEN [orders[o] EXCEPT !.state = "refused"]
                ELSE [orders[o] EXCEPT !.state = "open", !.enter = now])
  BY DEF AllowOrderEnter
<1>2. o \in DOMAIN orders /\ orders[o].state = "asked"
  BY DEF In
<1>3. \E r : Moved(o, r)
  <2>1. CASE now < noEnter[orders[o].acc]
    <3>1. With(o, [orders[o] EXCEPT !.state = "refused"])
      BY <1>1, <2>1
    <3>2. Moved(o, [orders[o] EXCEPT !.state = "refused"])
      BY <1>2, <3>1, Becomes DEF Moved, States
    <3> QED
      BY <3>2
  <2>2. CASE ~(now < noEnter[orders[o].acc])
    <3>1. With(o, [orders[o] EXCEPT !.state = "open", !.enter = now])
      BY <1>1, <2>2
    <3>2. Moved(o, [orders[o] EXCEPT !.state = "open", !.enter = now])
      BY <1>2, <3>1, Becomes DEF Moved, States
    <3> QED
      BY <3>2
  <2> QED
    BY <2>1, <2>2
<1> QED
  BY <1>3 DEF AllowOrderEnter

LEMMA Closes ==
  ASSUME Types, CloseOrder
  PROVE  /\ \E o, r : Moved(o, r)
         /\ UNCHANGED <<now, startAt, count, crashes, stopVars, cmd>>
<1>1. PICK o \in In({"open", "exit"}), p \in Profits :
        With(o, [orders[o] EXCEPT !.state = "closing", !.exit = now, !.profit = p])
  BY DEF CloseOrder
<1>2. o \in DOMAIN orders /\ orders[o].state \in {"open", "exit"} /\ orders[o] \in Order /\ now \in Int
  BY DEF In, Types, StopTypes
<1>3. PICK r : r = [orders[o] EXCEPT !.state = "closing", !.exit = now, !.profit = p]
  OBVIOUS
<1>4. r \in Order /\ r.state = "closing" /\ r.asked = orders[o].asked
  BY <1>2, <1>3 DEF Order, States
<1>5. Moved(o, r)
  BY <1>1, <1>2, <1>3, <1>4 DEF Moved
<1> QED
  BY <1>5 DEF CloseOrder

LEMMA Stores ==
  ASSUME Types, StoreClosed
  PROVE  /\ \E o, r : Moved(o, r)
         /\ UNCHANGED <<now, startAt, count, crashes, stopVars, cmd>>
<1>1. PICK o \in In({"closing"}) : With(o, [orders[o] EXCEPT !.state = "closed"])
  BY DEF StoreClosed
<1>2. o \in DOMAIN orders /\ orders[o].state = "closing"
  BY DEF In
<1>3. Moved(o, [orders[o] EXCEPT !.state = "closed"])
  BY <1>1, <1>2, Becomes DEF Moved, States
<1> QED
  BY <1>3 DEF StoreClosed

LEMMA Exits ==
  ASSUME Types, ExitOpenOrders, Handled
  PROVE  \E o \in cmd.todo :
           /\ o \in DOMAIN orders
           /\ \/ /\ \E r : Moved(o, r) /\ r.state = "exit"
                 /\ cmd' = [cmd EXCEPT !.todo = @ \ {o}, !.ok = @ \cup {o}]
              \/ /\ UNCHANGED orders /\ orders[o].state \notin {"open", "exit"}
                 /\ cmd' = [cmd EXCEPT !.todo = @ \ {o}, !.failed = @ \cup {o}]
<1>1. PICK o \in cmd.todo :
        IF orders[o].state \in {"open", "exit"}
        THEN With(o, [orders[o] EXCEPT !.state = "exit"]) /\ cmd' = [cmd EXCEPT !.todo = @ \ {o}, !.ok = @ \cup {o}]
        ELSE cmd' = [cmd EXCEPT !.todo = @ \ {o}, !.failed = @ \cup {o}] /\ UNCHANGED orders
  BY DEF ExitOpenOrders
<1>2. o \in DOMAIN orders
  BY DEF Handled
<1>3. CASE orders[o].state \in {"open", "exit"}
  <2>1. Moved(o, [orders[o] EXCEPT !.state = "exit"])
    BY <1>1, <1>2, <1>3, Becomes DEF Moved, States
  <2>2. [orders[o] EXCEPT !.state = "exit"].state = "exit"
    BY <1>2, Becomes DEF States
  <2> QED
    BY <1>1, <1>2, <1>3, <2>1, <2>2
<1> QED
  BY <1>1, <1>2, <1>3

-----------------------------------------------------------------------------
(* The stops *)

\* Steps of orders: the stops are as they were.
LEMMA OrdersGo ==
  ASSUME StopsInv, UNCHANGED <<now, stopVars>>,
         (\E o, r : Moved(o, r)) \/ (\E o, r : AsksFor(o, r)) \/ UNCHANGED orders
  PROVE  StopsInv'
<1>0. Types /\ Stopped /\ StopsAreKept /\ now' = now /\ stops' = stops
      /\ UNCHANGED <<disabled, writing, until>>
  BY DEF StopsInv, stopVars
<1>1. /\ \A s \in stops : GoesOn(s)'
      /\ \A b \in Bots : Writes(b)'
  BY <1>0 DEF Stopped, GoesOn, Writes
<1>5. StopTypes'
  BY <1>0 DEF Types, StopTypes
<1>2. CASE \E o, r : Moved(o, r)
  <2>1. PICK o, r : Moved(o, r)
    BY <1>2
  <2>2. /\ DOMAIN orders' = DOMAIN orders /\ \A x \in DOMAIN orders' : orders'[x] \in Order
        /\ \A x \in DOMAIN orders : orders'[x].asked = orders[x].asked
    BY <1>0, <2>1, OrderMoves DEF Moved
  <2> QED
    BY <1>0, <1>1, <1>5, <2>2 DEF StopsInv, Types, Stopped, StopsAreKept
<1>3. CASE \E o, r : AsksFor(o, r)
  <2>1. PICK o, r : AsksFor(o, r)
    BY <1>3
  <2>2. /\ DOMAIN orders' = DOMAIN orders \cup {o} /\ orders'[o] = r
        /\ \A x \in DOMAIN orders : x # o => orders'[x] = orders[x]
    BY <2>1, WithIs DEF AsksFor
  <2>3. r \in Order /\ r.asked = now /\ o \notin DOMAIN orders /\ r.acc \in Accounts /\ o \in Ids
    BY <2>1 DEF AsksFor, Order
  <2>4. now \in Int /\ \A s \in stops : s.bot \in Bots /\ s.from \in Int /\ s.to \in Int /\ disabled[s.bot][r.acc] \in Int
    BY <1>0, <2>3 DEF Types, StopTypes, Stop
  <2>5. \A s \in stops : now <= s.from \/ now >= s.to
    <3> SUFFICES ASSUME NEW s \in stops, s.to > now PROVE FALSE
      BY <2>4
    <3>1. disabled[s.bot][r.acc] >= s.to
      BY <1>0, <2>3 DEF Stopped, GoesOn
    <3>2. ~(now < disabled[s.bot][r.acc])
      BY <2>1, <2>4 DEF AsksFor, IsTradingDisabled
    <3> QED
      BY <2>4, <3>1, <3>2
  <2>6. \A x \in DOMAIN orders' : orders'[x] \in Order /\ orders'[x].asked <= now
    BY <1>0, <2>2, <2>3, <2>4 DEF Types, Stopped
  <2>7. StopsAreKept'
    BY <1>0, <2>2, <2>3, <2>5 DEF StopsAreKept
  <2> QED
    BY <1>0, <1>1, <1>5, <2>2, <2>3, <2>6, <2>7 DEF StopsInv, Types, Stopped
<1>4. CASE UNCHANGED orders
  BY <1>0, <1>1, <1>4, <1>5 DEF StopsInv, Types, Stopped, StopsAreKept
<1> QED
  BY <1>2, <1>3, <1>4

\* The stops the command of a bot ends.
LEMMA EndedIs ==
  ASSUME StopsInv, NEW b \in Bots
  PROVE  /\ \A s \in Ended(b) : s \in Stop /\ s.bot \in Bots /\ s.from \in Int /\ s.to \in Int /\ s.from <= now
         /\ \A s \in Ended(b) : s.bot = b => s.to <= now
         /\ \A s \in Ended(b) : s.bot # b => s \in stops
         /\ \A s \in Ended(b), o \in DOMAIN orders : orders[o].asked <= s.from \/ orders[o].asked >= s.to
<1>0. Types /\ Stopped /\ StopsAreKept
  BY DEF StopsInv
<1>1. now \in Int /\ \A s \in stops : s.bot \in Bots /\ s.from \in Int /\ s.to \in Int /\ s.from <= now
  BY <1>0 DEF Types, StopTypes, Stop, Stopped, GoesOn
<1>2. \A o \in DOMAIN orders : orders[o].asked \in Int /\ orders[o].asked <= now
  BY <1>0 DEF Types, Order, Stopped
<1>3. ASSUME NEW s \in Ended(b)
      PROVE  /\ s \in Stop /\ s.bot \in Bots /\ s.from \in Int /\ s.to \in Int /\ s.from <= now
             /\ (s.bot = b => s.to <= now) /\ (s.bot # b => s \in stops)
             /\ \A o \in DOMAIN orders : orders[o].asked <= s.from \/ orders[o].asked >= s.to
  <2>1. PICK q \in stops : s = IF q.bot = b /\ q.to > now THEN [q EXCEPT !.to = now] ELSE q
    BY DEF Ended
  <2>2. q.bot \in Bots /\ q.from \in Int /\ q.to \in Int /\ q.from <= now /\ q \in Stop
    BY <1>0, <1>1 DEF Types, StopTypes
  <2>3. CASE q.bot = b /\ q.to > now
    <3>1. s = [q EXCEPT !.to = now]
      BY <2>1, <2>3
    <3>2. s.bot = q.bot /\ s.from = q.from /\ s.to = now
      BY <2>2, <3>1 DEF Stop
    <3>3. \A o \in DOMAIN orders : orders[o].asked <= q.from \/ orders[o].asked >= q.to
      BY <1>0 DEF StopsAreKept
    <3>4. s \in Stop
      BY <1>1, <2>2, <3>1 DEF Stop
    <3>5. \A o \in DOMAIN orders : orders[o].asked <= s.from
      BY <1>1, <1>2, <2>2, <2>3, <3>2, <3>3
    <3> QED
      BY <1>1, <2>2, <2>3, <3>2, <3>4, <3>5
  <2>4. CASE ~(q.bot = b /\ q.to > now)
    BY <1>0, <1>1, <2>1, <2>2, <2>4 DEF StopsAreKept
  <2> QED
    BY <2>3, <2>4
<1> QED
  BY <1>3

LEMMA Disables ==
  ASSUME ConstantsFit, StopsInv, DisableTrading
  PROVE  StopsInv'
<1>0. Types /\ Stopped /\ StopsAreKept /\ now' = now /\ orders' = orders /\ disabled' = disabled
  BY DEF StopsInv, DisableTrading
<1>1. PICK b \in Bots, h \in Hours \ {0} :
        /\ writing[b] = {} /\ writing' = [writing EXCEPT ![b] = Accounts] /\ until' = [until EXCEPT ![b] = now + h]
        /\ stops' = Ended(b)
  BY DEF DisableTrading
<1>2. now + h \in Int
  BY <1>0 DEF ConstantsFit, Types, StopTypes
<1>3. StopTypes'
  <2>1. stops' \subseteq Stop
    BY <1>1, EndedIs
  <2> QED
    BY <1>0, <1>1, <1>2, <2>1 DEF Types, StopTypes
<1>4. Types'
  BY <1>0, <1>3 DEF Types
<1>5. ASSUME NEW s \in stops' PROVE GoesOn(s)'
  <2>1. s.from <= now /\ s.to \in Int /\ now \in Int
    BY <1>0, <1>1, EndedIs DEF Types, StopTypes
  <2>2. CASE s.bot = b
    <3>1. s.to <= now
      BY <1>1, <2>2, EndedIs
    <3> QED
      BY <1>0, <2>1, <3>1 DEF GoesOn
  <2>3. CASE s.bot # b
    BY <1>0, <1>1, <2>3, EndedIs DEF Stopped, GoesOn
  <2> QED
    BY <2>2, <2>3
<1>6. ASSUME NEW c \in Bots PROVE Writes(c)'
  <2>1. CASE c = b
    <3>1. writing'[b] = Accounts
      BY <1>0, <1>1 DEF Types, StopTypes
    <3>2. \A s \in stops' : s.bot = b => s.to <= now
      BY <1>1, EndedIs
    <3> QED
      BY <1>0, <2>1, <3>1, <3>2 DEF Writes
  <2>2. CASE c # b
    <3>1. writing'[c] = writing[c] /\ until'[c] = until[c]
      BY <1>0, <1>1, <2>2 DEF Types, StopTypes
    <3>2. \A s \in stops' : s.bot = c => s \in stops
      BY <1>1, <2>2, EndedIs
    <3> QED
      BY <1>0, <3>1, <3>2 DEF Stopped, Writes
  <2> QED
    BY <2>1, <2>2
<1>7. StopsAreKept'
  BY <1>0, <1>1, EndedIs DEF StopsAreKept
<1> QED
  BY <1>0, <1>4, <1>5, <1>6, <1>7 DEF StopsInv, Stopped

LEMMA Enables ==
  ASSUME ConstantsFit, StopsInv, EnableTrading
  PROVE  StopsInv'
<1>0. Types /\ Stopped /\ StopsAreKept /\ UNCHANGED <<now, orders, writing, until>>
  BY DEF StopsInv, EnableTrading
<1>1. PICK b \in Bots :
        writing[b] = {} /\ disabled' = [disabled EXCEPT ![b] = Free] /\ stops' = Ended(b)
  BY DEF EnableTrading
<1>3. StopTypes'
  <2>1. stops' \subseteq Stop
    BY <1>1, EndedIs
  <2>2. Free \in [Accounts -> Int]
    BY DEF Free
  <2> QED
    BY <1>0, <1>1, <2>1, <2>2 DEF Types, StopTypes
<1>4. Types'
  BY <1>0, <1>3 DEF Types
<1>5. ASSUME NEW s \in stops' PROVE GoesOn(s)'
  <2>1. s.from <= now /\ s.to \in Int /\ s.bot \in Bots /\ now \in Int
    BY <1>0, <1>1, EndedIs DEF Types, StopTypes
  <2>2. CASE s.bot = b
    <3>1. s.to <= now
      BY <1>1, <2>2, EndedIs
    <3> QED
      BY <1>0, <2>1, <3>1 DEF GoesOn
  <2>3. CASE s.bot # b
    <3>1. disabled'[s.bot] = disabled[s.bot]
      BY <1>0, <1>1, <2>1, <2>3 DEF Types, StopTypes
    <3> QED
      BY <1>0, <1>1, <2>3, <3>1, EndedIs DEF Stopped, GoesOn
  <2> QED
    BY <2>2, <2>3
<1>6. ASSUME NEW c \in Bots PROVE Writes(c)'
  <2>1. CASE c = b
    BY <1>0, <1>1, <2>1 DEF Writes
  <2>2. CASE c # b
    <3>1. disabled'[c] = disabled[c]
      BY <1>0, <1>1, <2>2 DEF Types, StopTypes
    <3>2. \A s \in stops' : s.bot = c => s \in stops
      BY <1>1, <2>2, EndedIs
    <3> QED
      BY <1>0, <3>1, <3>2 DEF Stopped, Writes
  <2> QED
    BY <2>1, <2>2
<1>7. StopsAreKept'
  BY <1>0, <1>1, EndedIs DEF StopsAreKept
<1> QED
  BY <1>0, <1>4, <1>5, <1>6, <1>7 DEF StopsInv, Stopped

\* The last account a command writes makes its promise true.
LEMMA WritesOne ==
  ASSUME ConstantsFit, StopsInv, WriteOne
  PROVE  StopsInv'
<1>0. Types /\ Stopped /\ StopsAreKept /\ now' = now /\ orders' = orders
  BY DEF StopsInv, WriteOne, envVars
<1>1. PICK b, a :
        /\ b \in Bots /\ a \in writing[b]
        /\ disabled' = [disabled EXCEPT ![b][a] = until[b]] /\ writing' = [writing EXCEPT ![b] = @ \ {a}]
        /\ until' = IF writing[b] = {a} THEN [until EXCEPT ![b] = 0] ELSE until
        /\ stops' = IF writing[b] = {a} THEN stops \cup {[bot |-> b, from |-> now, to |-> until[b]]} ELSE stops
  BY DEF WriteOne
<1>13. PICK new : new = [bot |-> b, from |-> now, to |-> until[b]]
  OBVIOUS
<1>2. /\ a \in Accounts /\ until[b] \in Int /\ now \in Int
      /\ \A c \in Bots : c # b => disabled'[c] = disabled[c] /\ writing'[c] = writing[c] /\ until'[c] = until[c]
      /\ writing'[b] = writing[b] \ {a}
      /\ \A x \in Accounts : disabled'[b][x] = IF x = a THEN until[b] ELSE disabled[b][x]
      /\ new \in Stop /\ new.bot = b /\ new.from = now /\ new.to = until[b]
  BY <1>0, <1>1, <1>13 DEF Types, StopTypes, Stop
<1>3. stops' \subseteq Stop
  BY <1>0, <1>1, <1>2, <1>13 DEF Types, StopTypes
<1>4. Types'
  BY <1>0, <1>1, <1>2, <1>3 DEF Types, StopTypes
<1>5. \A s \in stops : s.bot \in Bots /\ s.from \in Int /\ s.to \in Int /\ (s.bot = b => s.to <= now)
  BY <1>0, <1>1, <1>2 DEF Types, StopTypes, Stop, Stopped, Writes
<1>6. \A s \in stops : GoesOn(s)'
  <2> SUFFICES ASSUME NEW s \in stops PROVE GoesOn(s)'
    OBVIOUS
  <2>1. CASE s.bot = b
    BY <1>0, <1>2, <1>5, <2>1 DEF Stopped, GoesOn
  <2>2. CASE s.bot # b
    BY <1>0, <1>2, <1>5, <2>2 DEF Stopped, GoesOn
  <2> QED
    BY <2>1, <2>2
<1>7. \A x \in Accounts \ (writing[b] \ {a}) : disabled'[b][x] = until[b]
  BY <1>0, <1>1, <1>2 DEF Stopped, Writes
<1>8. writing[b] = {a} => GoesOn(new)'
  <2> SUFFICES ASSUME writing[b] = {a} PROVE GoesOn(new)'
    OBVIOUS
  <2>1. \A x \in Accounts : disabled'[b][x] = until[b]
    BY <1>7
  <2> QED
    BY <1>0, <1>2, <2>1 DEF GoesOn
<1>9. \A s \in stops' : s \in stops \/ (s = new /\ writing[b] = {a})
  BY <1>1, <1>13
<1>10. \A s \in stops' : GoesOn(s)'
  BY <1>6, <1>8, <1>9
<1>11. ASSUME NEW c \in Bots PROVE Writes(c)'
  <2>1. CASE c = b
    <3> SUFFICES ASSUME writing'[b] # {} PROVE Writes(b)'
      BY <2>1 DEF Writes
    <3>1. writing[b] # {a} /\ stops' = stops /\ until' = until
      BY <1>1, <1>2
    <3> QED
      BY <1>0, <1>2, <1>5, <1>7, <3>1 DEF Writes
  <2>2. CASE c # b
    BY <1>0, <1>2, <1>9, <2>2 DEF Stopped, Writes
  <2> QED
    BY <2>1, <2>2
<1>12. StopsAreKept'
  BY <1>0, <1>2, <1>9 DEF StopsAreKept, Stopped
<1> QED
  BY <1>0, <1>4, <1>10, <1>11, <1>12 DEF StopsInv, Stopped

\* A restart: asked orders are lost, closing ones are found closed.
LEMMA Restarts ==
  ASSUME Types, Restart
  PROVE  /\ DOMAIN orders' = DOMAIN orders
         /\ \A o \in DOMAIN orders : orders'[o] \in Order /\ orders'[o].asked = orders[o].asked
<1>1. orders' = [o \in DOMAIN orders |->
        IF orders[o].state = "asked" THEN [orders[o] EXCEPT !.state = "refused"]
        ELSE IF orders[o].state = "closing" THEN [orders[o] EXCEPT !.state = "closed"] ELSE orders[o]]
  BY DEF Restart
<1>2. ASSUME NEW o \in DOMAIN orders PROVE orders'[o] \in Order /\ orders'[o].asked = orders[o].asked
  <2>1. orders[o] \in Order
    BY DEF Types
  <2>2. \/ orders'[o] = [orders[o] EXCEPT !.state = "refused"]
        \/ orders'[o] = [orders[o] EXCEPT !.state = "closed"]
        \/ orders'[o] = orders[o]
    BY <1>1
  <2>3. "refused" \in States /\ "closed" \in States
    BY DEF States
  <2>4. /\ [orders[o] EXCEPT !.state = "refused"] \in Order
        /\ [orders[o] EXCEPT !.state = "refused"].asked = orders[o].asked
    BY <2>3, Becomes
  <2>5. /\ [orders[o] EXCEPT !.state = "closed"] \in Order
        /\ [orders[o] EXCEPT !.state = "closed"].asked = orders[o].asked
    BY <2>3, Becomes
  <2> QED
    BY <2>1, <2>2, <2>4, <2>5
<1> QED
  BY <1>1, <1>2

LEMMA StopsRestart ==
  ASSUME StopsInv, Restart
  PROVE  StopsInv'
<1>0. Types /\ Stopped /\ StopsAreKept
  BY DEF StopsInv
<1>1. /\ now' = now /\ disabled' = [b \in Bots |-> Free] /\ writing' = [b \in Bots |-> {}]
      /\ until' = [b \in Bots |-> 0] /\ stops' = {}
  BY DEF Restart
<1>2. StopTypes'
  <2>1. Free \in [Accounts -> Int]
    BY DEF Free
  <2> QED
    BY <1>0, <1>1, <2>1 DEF Types, StopTypes
<1>3. DOMAIN orders' = DOMAIN orders /\ \A o \in DOMAIN orders : orders'[o] \in Order /\ orders'[o].asked = orders[o].asked
  BY <1>0, Restarts
<1> QED
  BY <1>0, <1>1, <1>2, <1>3 DEF StopsInv, Types, Stopped, Writes, StopsAreKept

LEMMA Ticks ==
  ASSUME StopsInv, Tick
  PROVE  StopsInv'
<1>0. Types /\ Stopped /\ StopsAreKept /\ now' = now + 1 /\ UNCHANGED <<disabled, writing, until, stops, orders>>
  BY DEF StopsInv, Tick, stopVars
<1>1. /\ now \in Int /\ \A s \in stops : s.bot \in Bots /\ s.from \in Int /\ s.to \in Int
  BY <1>0 DEF Types, StopTypes, Stop
<1>2. Types'
  BY <1>0, <1>1 DEF Types, StopTypes
<1>3. \A s \in stops : GoesOn(s)'
  BY <1>0, <1>1 DEF Stopped, GoesOn
<1>4. ASSUME NEW b \in Bots PROVE Writes(b)'
  BY <1>0, <1>1 DEF Stopped, Writes
<1>5. \A o \in DOMAIN orders : orders[o].asked \in Int /\ orders[o].asked <= now
  BY <1>0 DEF Types, Stopped, Order
<1>6. StopsAreKept'
  BY <1>0 DEF StopsAreKept
<1>7. \A o \in DOMAIN orders' : orders'[o].asked <= now'
  BY <1>0, <1>1, <1>5
<1> QED
  BY <1>0, <1>2, <1>3, <1>4, <1>6, <1>7 DEF StopsInv, Stopped

\* Steps that leave stops and orders alone.
LEMMA Others ==
  ASSUME StopsInv, UNCHANGED <<now, orders, disabled, writing, until, stops>>
  PROVE  StopsInv'
BY DEF StopsInv, Types, StopTypes, Stopped, GoesOn, Writes, StopsAreKept

LEMMA StopsStep ==
  ASSUME ConstantsFit, StopsInv, Handled, [Next]_vars
  PROVE  StopsInv'
<1>0. Types
  BY DEF StopsInv
<1>1. CASE OpenOrder \/ AllowOrderEnter \/ CloseOrder \/ StoreClosed
  <2>1. /\ UNCHANGED <<now, stopVars>>
        /\ (\E o, r : Moved(o, r)) \/ (\E o, r : AsksFor(o, r))
    BY <1>0, <1>1, Asked, Allowed, Closes, Stores
  <2> QED
    BY <2>1, OrdersGo
<1>2. CASE ExitOpenOrders
  <2>1. (\E o, r : Moved(o, r)) \/ UNCHANGED orders
    BY <1>0, <1>2, Exits
  <2>2. UNCHANGED <<now, stopVars>>
    BY <1>2 DEF ExitOpenOrders
  <2> QED
    BY <2>1, <2>2, OrdersGo
<1>3. CASE Tick \/ DisableTrading \/ WriteOne \/ EnableTrading \/ Restart
  BY <1>3, Ticks, Disables, WritesOne, Enables, StopsRestart
<1>4. CASE PostDelayEntry \/ CheckAccFatalStop \/ CloseOrders \/ GetOrders \/ Reply \/ UNCHANGED vars
  <2>1. UNCHANGED <<now, orders, disabled, writing, until, stops>>
    BY <1>4 DEF PostDelayEntry, CheckAccFatalStop, CloseOrders, GetOrders, Reply, vars, envVars, stopVars
  <2> QED
    BY <2>1, Others
<1> QED
  BY <1>1, <1>2, <1>3, <1>4 DEF Next

-----------------------------------------------------------------------------
(* The commands that close orders *)

\* An order that was found open or closing goes on to be closed.
Later(x, y) ==
  /\ x \in {"open", "exit", "closing", "closed"} => y \in {"open", "exit", "closing", "closed"}
  /\ x \in {"exit", "closing", "closed"} => y \in {"exit", "closing", "closed"}
  /\ x \in {"closing", "closed"} => y \in {"closing", "closed"}
OrdersLater == \A o \in DOMAIN orders : o \in DOMAIN orders' /\ Later(orders[o].state, orders'[o].state)

LEMMA LaterAlways ==
  ASSUME Types, Handled, [Next]_vars
  PROVE  OrdersLater
<1>1. ASSUME NEW o, NEW r, Moved(o, r) PROVE OrdersLater
  BY <1>1, OrderMoves DEF Moved, OrdersLater, Later
<1>2. ASSUME NEW o, NEW r, AsksFor(o, r) PROVE OrdersLater
  BY <1>2, WithIs DEF AsksFor, OrdersLater, Later
<1>3. ASSUME UNCHANGED orders PROVE OrdersLater
  BY <1>3 DEF OrdersLater, Later
<1>4. CASE OpenOrder \/ AllowOrderEnter \/ CloseOrder \/ StoreClosed
  BY <1>1, <1>2, <1>4, Asked, Allowed, Closes, Stores
<1>5. CASE ExitOpenOrders
  BY <1>1, <1>3, <1>5, Exits
<1>6. CASE Restart
  <2>1. orders' = [o \in DOMAIN orders |->
          IF orders[o].state = "asked" THEN [orders[o] EXCEPT !.state = "refused"]
          ELSE IF orders[o].state = "closing" THEN [orders[o] EXCEPT !.state = "closed"] ELSE orders[o]]
    BY <1>6 DEF Restart
  <2>2. \A o \in DOMAIN orders : orders[o] \in Order
    BY DEF Types
  <2>3. \A o \in DOMAIN orders : /\ orders[o].state = "asked" => orders'[o].state = "refused"
                                 /\ orders[o].state = "closing" => orders'[o].state = "closed"
                                 /\ orders[o].state \notin {"asked", "closing"} => orders'[o].state = orders[o].state
    BY <2>1, <2>2, Becomes DEF States
  <2> QED
    BY <2>1, <2>3 DEF OrdersLater, Later
<1>7. CASE \/ Tick \/ DisableTrading \/ WriteOne \/ EnableTrading \/ PostDelayEntry
           \/ CheckAccFatalStop \/ CloseOrders \/ GetOrders \/ Reply \/ UNCHANGED vars
  <2>1. UNCHANGED orders
    BY <1>7 DEF Tick, DisableTrading, WriteOne, EnableTrading, PostDelayEntry, CheckAccFatalStop, CloseOrders,
                GetOrders, Reply, vars, envVars
  <2> QED
    BY <1>3, <2>1
<1> QED
  BY <1>4, <1>5, <1>6, <1>7 DEF Next

\* Steps that leave the command alone.
LEMMA CmdWaits ==
  ASSUME Handled, OrdersLater, cmd' = cmd
  PROVE  Handled'
BY DEF Handled, OrdersLater, Later

LEMMA CmdStarts ==
  ASSUME Handled, CloseOrders \/ Restart
  PROVE  Handled'
<1>1. NoCmd = [id |-> 0, accs |-> {}, todo |-> {}, seen |-> {}, ok |-> {}, failed |-> {}, told |-> {}, done |-> TRUE]
  BY DEF NoCmd
<1>2. NoCmd \in Cmd
  BY <1>1 DEF Cmd
<1>3. CASE CloseOrders
  <2>1. PICK i \in Ids \cup {0} : cmd' = [NoCmd EXCEPT !.id = i, !.accs = Accounts, !.done = FALSE]
    BY <1>3 DEF CloseOrders
  <2>2. cmd' = [id |-> i, accs |-> Accounts, todo |-> {}, seen |-> {}, ok |-> {}, failed |-> {}, told |-> {},
               done |-> FALSE]
    BY <1>1, <2>1
  <2>3. cmd' \in Cmd
    BY <2>2 DEF Cmd
  <2> QED
    BY <2>2, <2>3 DEF Handled
<1>4. CASE Restart
  <2>1. cmd' = NoCmd
    BY <1>4 DEF Restart
  <2> QED
    BY <1>1, <1>2, <2>1 DEF Handled
<1> QED
  BY <1>3, <1>4

LEMMA CmdGets ==
  ASSUME Types, Handled, GetOrders
  PROVE  Handled'
<1>1. PICK a \in cmd.accs :
        LET found == {o \in Stored : orders[o].acc = a /\ cmd.id \in {0, o}}
        IN cmd' = [cmd EXCEPT !.accs = @ \ {a}, !.todo = found, !.seen = @ \cup found]
  BY DEF GetOrders
<1>2. PICK found : found = {o \in Stored : orders[o].acc = a /\ cmd.id \in {0, o}}
  OBVIOUS
<1>3. cmd' = [cmd EXCEPT !.accs = @ \ {a}, !.todo = found, !.seen = @ \cup found]
  BY <1>1, <1>2
<1>4. cmd \in Cmd /\ cmd.todo = {} /\ ~cmd.done /\ orders' = orders
  BY DEF Handled, GetOrders, envVars
<1>5. /\ found \subseteq DOMAIN orders /\ \A o \in found : orders[o].state \in {"open", "exit", "closing"}
      /\ cmd.id # 0 => found \subseteq {cmd.id}
  BY <1>2 DEF Stored, In
<1>6. found \subseteq Ids
  BY <1>5 DEF Types
<1>7. /\ cmd' \in Cmd /\ cmd'.id = cmd.id /\ cmd'.todo = found /\ cmd'.seen = cmd.seen \cup found
      /\ cmd'.ok = cmd.ok /\ cmd'.failed = cmd.failed /\ cmd'.done = cmd.done /\ cmd'.told = cmd.told
  BY <1>3, <1>4, <1>6 DEF Cmd
<1> QED
  BY <1>4, <1>5, <1>7 DEF Handled

LEMMA CmdExits ==
  ASSUME Types, Handled, OrdersLater, ExitOpenOrders
  PROVE  Handled'
<1>1. PICK o \in cmd.todo :
           /\ o \in DOMAIN orders
           /\ \/ /\ \E r : Moved(o, r) /\ r.state = "exit"
                 /\ cmd' = [cmd EXCEPT !.todo = @ \ {o}, !.ok = @ \cup {o}]
              \/ /\ UNCHANGED orders /\ orders[o].state \notin {"open", "exit"}
                 /\ cmd' = [cmd EXCEPT !.todo = @ \ {o}, !.failed = @ \cup {o}]
  BY Exits
<1>2. cmd \in Cmd /\ o \in Ids
  BY <1>1 DEF Handled, Types
<1>3. CASE (\E r : Moved(o, r) /\ r.state = "exit") /\ cmd' = [cmd EXCEPT !.todo = @ \ {o}, !.ok = @ \cup {o}]
  <2>1. /\ cmd' \in Cmd /\ cmd'.id = cmd.id /\ cmd'.todo = cmd.todo \ {o} /\ cmd'.seen = cmd.seen
        /\ cmd'.ok = cmd.ok \cup {o} /\ cmd'.failed = cmd.failed /\ cmd'.done = cmd.done /\ cmd'.told = cmd.told
    BY <1>2, <1>3 DEF Cmd
  <2>2. orders'[o].state = "exit"
    BY <1>3, OrderMoves DEF Moved
  <2> QED
    BY <2>1, <2>2 DEF Handled, OrdersLater, Later
<1>4. CASE /\ UNCHANGED orders /\ orders[o].state \notin {"open", "exit"}
           /\ cmd' = [cmd EXCEPT !.todo = @ \ {o}, !.failed = @ \cup {o}]
  <2>1. /\ cmd' \in Cmd /\ cmd'.id = cmd.id /\ cmd'.todo = cmd.todo \ {o} /\ cmd'.seen = cmd.seen
        /\ cmd'.ok = cmd.ok /\ cmd'.failed = cmd.failed \cup {o} /\ cmd'.done = cmd.done /\ cmd'.told = cmd.told
    BY <1>2, <1>4 DEF Cmd
  <2>2. orders[o].state \in {"closing", "closed"}
    BY <1>1, <1>4 DEF Handled
  <2> QED
    BY <1>4, <2>1, <2>2 DEF Handled
<1> QED
  BY <1>1, <1>3, <1>4

LEMMA CmdStep ==
  ASSUME Types, Handled, [Next]_vars
  PROVE  Handled'
<1>1. OrdersLater
  BY LaterAlways
<1>2. CASE CloseOrders \/ Restart
  BY <1>2, CmdStarts
<1>3. CASE GetOrders
  BY <1>3, CmdGets
<1>4. CASE ExitOpenOrders
  BY <1>1, <1>4, CmdExits
<1>5. CASE Reply
  <2>1. cmd' = [cmd EXCEPT !.done = TRUE, !.told = IF cmd.id = 0 THEN cmd.ok ELSE {}] /\ cmd.todo = {} /\ orders' = orders /\ cmd \in Cmd
    BY <1>5 DEF Reply, envVars, Handled
  <2>2. /\ cmd' \in Cmd /\ cmd'.id = cmd.id /\ cmd'.todo = cmd.todo /\ cmd'.seen = cmd.seen
        /\ cmd'.ok = cmd.ok /\ cmd'.failed = cmd.failed /\ cmd'.told = IF cmd.id = 0 THEN cmd.ok ELSE {}
    BY <2>1 DEF Cmd
  <2> QED
    BY <2>1, <2>2 DEF Handled
<1>6. CASE \/ Tick \/ DisableTrading \/ WriteOne \/ EnableTrading \/ PostDelayEntry \/ OpenOrder \/ AllowOrderEnter
           \/ CloseOrder \/ StoreClosed \/ CheckAccFatalStop \/ UNCHANGED vars
  <2>1. cmd' = cmd
    BY <1>6 DEF Tick, DisableTrading, WriteOne, EnableTrading, PostDelayEntry, OpenOrder, AllowOrderEnter,
                CloseOrder, StoreClosed, CheckAccFatalStop, vars
  <2> QED
    BY <1>1, <2>1, CmdWaits
<1> QED
  BY <1>2, <1>3, <1>4, <1>5, <1>6 DEF Next

-----------------------------------------------------------------------------
(* The theorems *)

LEMMA InitInv ==
  ASSUME Init
  PROVE  StopsInv /\ Handled
<1>1. Free \in [Accounts -> Int]
  BY DEF Free
<1>2. DOMAIN orders = {}
  BY DEF Init
<1>3. StopTypes
  BY <1>1 DEF Init, StopTypes
<1>4. StopsInv
  BY <1>2, <1>3 DEF Init, StopsInv, Types, Stopped, Writes, StopsAreKept
<1>5. cmd \in Cmd
  BY DEF Init, NoCmd, Cmd
<1> QED
  BY <1>4, <1>5 DEF Init, NoCmd, Handled

(* The inductive invariant: what is written of a stop agrees with what was     *)
(* promised, and what a command has seen was open when it was found.           *)
THEOREM StopsInvariant == ConstantsFit => (Spec => [](StopsInv /\ Handled))
<1>1. ASSUME ConstantsFit PROVE Spec => [](StopsInv /\ Handled)
  <2>1. Init => StopsInv /\ Handled
    BY InitInv
  <2>2. (StopsInv /\ Handled) /\ [Next]_vars => (StopsInv /\ Handled)'
    <3>1. StopsInv => Types
      BY DEF StopsInv
    <3> QED
      BY <1>1, <3>1, StopsStep, CmdStep
  <2> QED
    BY <2>1, <2>2, PTL DEF Spec
<1> QED
  BY <1>1

(* No order of any account is asked for in the time a chat bot promised,       *)
(* whatever other bots and the web page were told meanwhile, and the answer to *)
(* a command that closes orders claims none that goes on (disableTrading,      *)
(* closeOrders, closeAllOrders).                                               *)
THEOREM StopsAndReplies == ConstantsFit => (Spec => []EntryStopsSound)
<1>1. ASSUME ConstantsFit PROVE Spec => []EntryStopsSound
  <2>1. Spec => [](StopsInv /\ Handled)
    BY <1>1, StopsInvariant
  <2>2. StopsInv /\ Handled => EntryStopsSound
    <3> SUFFICES ASSUME StopsInv, Handled PROVE EntryStopsSound
      OBVIOUS
    <3>1. StopsAreKept
      BY DEF StopsInv
    <3>2. ReplyIsTrue
      BY DEF Handled, ReplyIsTrue
    <3> QED
      BY <3>1, <3>2 DEF EntryStopsSound
  <2> QED
    BY <2>1, <2>2, PTL
<1> QED
  BY <1>1
=============================================================================
