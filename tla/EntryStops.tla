----------------------------- MODULE EntryStops -----------------------------
(* What an operator and the bot itself may do about orders from outside of    *)
(* the strategies: entries are stopped by the chat bots for some hours         *)
(* (rpc/telegram.go), by the web page (web/live/biz.go postDelayEntry) and by  *)
(* the check of losses (biz/odmgr_live.go checkAccFatalStop), and orders are   *)
(* closed by the chat bots, one or all (biz/telegram_order_manager.go), read   *)
(* from the database while they go on.  All stops are kept in memory.          *)
EXTENDS Integers, Sequences, FiniteSets, FiniteSetsExt
CONSTANTS
  Accounts,
  Bots,      \* telegramInstances
  Hours,     \* of /disable, and of delay_entry (0: resumes)
  Ids,       \* orders there may be
  Profits, Balance,
  FatalStop, \* function from minutes back to the rate of loss in hundredths
  FatalStopHours,
  MaxTime, MaxCommands, MaxCrashes
\* What the constants must be: id 0 stands for all orders.
ConstantsFit == Hours \subseteq Nat /\ 0 \notin Ids

VARIABLES
  now, startAt,
  disabled,  \* tradingDisabled: [Bots -> [Accounts -> until]]
  writing,   \* [Bots -> accounts a /disable still has to write]
  until,     \* what it writes
  noEnter,   \* core.NoEnterUntil
  orders,    \* function from ids to [acc, state, asked, enter, exit, profit]
  cmd,       \* the command of a chat bot that closes orders
  stops,     \* ghost: the times chat bots had promised: [bot, from, to]
  checked,   \* the account whose losses were checked by the last step, or "none"
  count, crashes
envVars == <<now, startAt, orders, count, crashes>>
stopVars == <<disabled, writing, until, noEnter, stops>>
vars == <<envVars, stopVars, cmd, checked>>

NoCmd == [id |-> 0, accs |-> {}, todo |-> {}, seen |-> {}, ok |-> {}, failed |-> {}, told |-> {}, done |-> TRUE]
Free == [a \in Accounts |-> 0]
Init ==
  /\ now = 1 /\ startAt = 1 /\ disabled = [b \in Bots |-> Free] /\ writing = [b \in Bots |-> {}]
  /\ until = [b \in Bots |-> 0] /\ noEnter = Free /\ orders = <<>> /\ cmd = NoCmd /\ stops = {}
  /\ checked = "none" /\ count = 0 /\ crashes = 0
Tick ==
  /\ now < MaxTime /\ now' = now + 1 /\ checked' = "none"
  /\ UNCHANGED <<startAt, orders, count, crashes, stopVars, cmd>>
Command == count < MaxCommands /\ count' = count + 1
-----------------------------------------------------------------------------
(* Chat bots: /disable and /enable *)

\* The stop another command of the same bot had promised ends now.
Ended(bot) == {IF s.bot = bot /\ s.to > now THEN [s EXCEPT !.to = now] ELSE s : s \in stops}
DisableTrading ==
  /\ Command
  /\ \E b \in Bots, h \in Hours \ {0} :
       /\ writing[b] = {} /\ writing' = [writing EXCEPT ![b] = Accounts] /\ until' = [until EXCEPT ![b] = now + h]
       /\ stops' = Ended(b)
  /\ UNCHANGED <<now, startAt, orders, crashes, disabled, noEnter, cmd>> /\ checked' = "none"
\* One account after the other, without a lock; the answer comes after the last.
WriteOne ==
  /\ \E b \in Bots : \E a \in writing[b] :
       /\ disabled' = [disabled EXCEPT ![b][a] = until[b]] /\ writing' = [writing EXCEPT ![b] = @ \ {a}]
       /\ until' = IF writing[b] = {a} THEN [until EXCEPT ![b] = 0] ELSE until
       /\ stops' = IF writing[b] = {a} THEN stops \cup {[bot |-> b, from |-> now, to |-> until[b]]} ELSE stops
  /\ UNCHANGED <<envVars, noEnter, cmd>> /\ checked' = "none"
EnableTrading ==
  /\ Command
  /\ \E b \in Bots :
       writing[b] = {} /\ disabled' = [disabled EXCEPT ![b] = Free] /\ stops' = Ended(b)
  /\ UNCHANGED <<now, startAt, orders, crashes, writing, until, noEnter, cmd>> /\ checked' = "none"
PostDelayEntry ==
  /\ Command
  /\ \E a \in Accounts, h \in Hours : noEnter' = [noEnter EXCEPT ![a] = now + h]
  /\ UNCHANGED <<now, startAt, orders, crashes, disabled, writing, until, stops, cmd>>
  /\ checked' = "none"
-----------------------------------------------------------------------------
(* Orders: asked for by a job (OpenOrder), let in by the manager               *)
(* (allowOrderEnter), closed, and only then stored as closed.                  *)
With(o, r) == orders' = [x \in DOMAIN orders \cup {o} |-> IF x = o THEN r ELSE orders[x]]
In(states) == {o \in DOMAIN orders : orders[o].state \in states}
\* Mutant: every bot has to have been told.
DisabledByAll(a) == \A b \in Bots : now < disabled[b][a]
IsTradingDisabled(a) == \E b \in Bots : now < disabled[b][a]
OpenOrder ==
  /\ \E a \in Accounts, o \in Ids \ DOMAIN orders :
       /\ ~IsTradingDisabled(a) /\ \A x \in Ids : x < o => x \in DOMAIN orders
       /\ With(o, [acc |-> a, state |-> "asked", asked |-> now, enter |-> 0, exit |-> 0, profit |-> 0])
  /\ UNCHANGED <<now, startAt, count, crashes, stopVars, cmd>> /\ checked' = "none"
AllowOrderEnter ==
  /\ \E o \in In({"asked"}) :
       With(o, IF now < noEnter[orders[o].acc] THEN [orders[o] EXCEPT !.state = "refused"]
               ELSE [orders[o] EXCEPT !.state = "open", !.enter = now])
  /\ UNCHANGED <<now, startAt, count, crashes, stopVars, cmd>> /\ checked' = "none"
CloseOrder ==
  /\ \E o \in In({"open", "exit"}), p \in Profits :
       With(o, [orders[o] EXCEPT !.state = "closing", !.exit = now, !.profit = p])
  /\ UNCHANGED <<now, startAt, count, crashes, stopVars, cmd>> /\ checked' = "none"
StoreClosed ==
  /\ \E o \in In({"closing"}) : With(o, [orders[o] EXCEPT !.state = "closed"])
  /\ UNCHANGED <<now, startAt, count, crashes, stopVars, cmd>>
  /\ checked' = "none"
-----------------------------------------------------------------------------
(* checkAccFatalStop, by a timer *)

MaxIntv == Max(DOMAIN FatalStop)
HisOf(a) == {o \in In({"closed"}) : orders[o].acc = a /\ orders[o].exit >= now - MaxIntv}
SumProfit(S) == MapThenSumSet(LAMBDA o : orders[o].profit, S)
MinTime(back) == IF now - back < startAt THEN now - back ELSE startAt
\* Lost, of what there was before.
Reaches(sum, rate) == sum < 0 /\ 100 * (-sum) >= rate * (Balance - sum)
CalcFatalLoss(a, back) == SumProfit({o \in HisOf(a) : orders[o].enter >= MinTime(back)})
FatalIn(a) == \E back \in DOMAIN FatalStop : Reaches(CalcFatalLoss(a, back), FatalStop[back])
CheckAccFatalStop ==
  /\ \E a \in Accounts :
       /\ checked' = a
       /\ noEnter' = IF noEnter[a] < now /\ FatalIn(a) THEN [noEnter EXCEPT ![a] = now + FatalStopHours] ELSE noEnter
  /\ UNCHANGED <<envVars, disabled, writing, until, stops, cmd>>
-----------------------------------------------------------------------------
(* closeOrders and closeAllOrders: id 0 stands for all *)

Stored == In({"open", "exit", "closing"})
CloseOrders ==
  /\ Command /\ cmd.done
  /\ \E i \in Ids \cup {0} : cmd' = [NoCmd EXCEPT !.id = i, !.accs = Accounts, !.done = FALSE]
  /\ UNCHANGED <<now, startAt, orders, crashes, stopVars>> /\ checked' = "none"
(* The open orders of an account, by the database.  /close of one order goes   *)
(* on with the next account even after the order was found: CloseOrder returns *)
(* a nil *errs.Error as an error, which is never equal to nil.                 *)
GetOrders ==
  /\ ~cmd.done /\ cmd.todo = {} /\ cmd.accs # {}
  /\ \E a \in cmd.accs :
       LET found == {o \in Stored : orders[o].acc = a /\ cmd.id \in {0, o}}
       IN cmd' = [cmd EXCEPT !.accs = @ \ {a}, !.todo = found, !.seen = @ \cup found]
  /\ UNCHANGED <<envVars, stopVars>> /\ checked' = "none"
\* ExitOpenOrders looks for it among the open orders in memory.
ExitOpenOrders ==
  /\ \E o \in cmd.todo :
       IF orders[o].state \in {"open", "exit"}
       THEN With(o, [orders[o] EXCEPT !.state = "exit"]) /\ cmd' = [cmd EXCEPT !.todo = @ \ {o}, !.ok = @ \cup {o}]
       ELSE cmd' = [cmd EXCEPT !.todo = @ \ {o}, !.failed = @ \cup {o}] /\ UNCHANGED orders
  /\ UNCHANGED <<now, startAt, count, crashes, stopVars>> /\ checked' = "none"
(* The answer: how many were closed and how many were not when all were meant, *)
(* and always "not found" when one was.                                        *)
Reply ==
  /\ ~cmd.done /\ cmd.todo = {} /\ cmd.accs = {}
  /\ cmd' = [cmd EXCEPT !.done = TRUE, !.told = IF cmd.id = 0 THEN cmd.ok ELSE {}]
  /\ UNCHANGED <<envVars, stopVars>> /\ checked' = "none"

(* The process ends, for any reason; one is the map a /disable writes while a  *)
(* job reads it.  Orders are read from the database again, stops are not.      *)
Restart ==
  /\ crashes < MaxCrashes /\ crashes' = crashes + 1 /\ startAt' = now
  /\ disabled' = [b \in Bots |-> Free] /\ writing' = [b \in Bots |-> {}] /\ until' = [b \in Bots |-> 0]
  /\ noEnter' = Free /\ cmd' = NoCmd /\ checked' = "none" /\ stops' = {}
  /\ orders' = [o \in DOMAIN orders |->
       IF orders[o].state = "asked" THEN [orders[o] EXCEPT !.state = "refused"]
       ELSE IF orders[o].state = "closing" THEN [orders[o] EXCEPT !.state = "closed"] ELSE orders[o]]
  /\ UNCHANGED <<now, count>>

Next ==
  \/ Tick \/ DisableTrading \/ WriteOne \/ EnableTrading \/ PostDelayEntry
  \/ OpenOrder \/ AllowOrderEnter \/ CloseOrder \/ StoreClosed \/ CheckAccFatalStop
  \/ CloseOrders \/ GetOrders \/ ExitOpenOrders \/ Reply \/ Restart
Spec == Init /\ [][Next]_vars
-----------------------------------------------------------------------------
TypeOK ==
  /\ ConstantsFit /\ DOMAIN orders \subseteq Ids /\ \A b \in Bots : writing[b] \subseteq Accounts
  /\ cmd.todo \subseteq cmd.seen /\ cmd.ok \cap cmd.failed = {}

(* No order was asked for, of any account, in the time a chat bot promised,    *)
(* whatever other bots were told meanwhile (disableTrading).                   *)
StopsAreKept ==
  \A s \in stops, o \in DOMAIN orders : orders[o].asked <= s.from \/ orders[o].asked >= s.to
(* The answer to a command that closes orders never says too much: those it    *)
(* tells of are exiting or closed, a command for all orders counts every one   *)
(* it has seen, one that failed was closing already, and a command for one     *)
(* order touches no other (closeOrders, closeAllOrders).                       *)
ReplyIsTrue ==
  cmd.done =>
    /\ cmd.id = 0 => cmd.seen = cmd.told \cup cmd.failed
    /\ cmd.id # 0 => cmd.seen \subseteq {cmd.id}
    /\ \A o \in cmd.told : orders[o].state \notin {"asked", "open"}
    /\ \A o \in cmd.failed : orders[o].state \in {"closing", "closed"}
EntryStopsSound == StopsAreKept /\ ReplyIsTrue

(* An account that lost the rate by orders of the last minutes is stopped      *)
(* after the check ("in the last n minutes", calcFatalLoss).                   *)
LostIn(a, back) == SumProfit({o \in HisOf(a) : orders[o].enter >= now - back})
LossStops ==
  checked # "none" => LET a == checked IN (\E back \in DOMAIN FatalStop : Reaches(LostIn(a, back), FatalStop[back])) => now <= noEnter[a]
=============================================================================
