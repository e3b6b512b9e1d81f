------------------------------ MODULE TriggerOds ------------------------------
(* Entries whose price is far away wait in the bot (biz/odmgr_live.go): they   *)
(* are put aside in triggerOds, and every minute VerifyTriggerOds submits      *)
(* those the market comes near to and ends those that waited too long.  One    *)
(* account, one pair.                                                          *)
EXTENDS Naturals, Sequences, FiniteSets, SequencesExt
CONSTANTS
  Orders,
  NoBook,    \* the volume or the order book of the pair cannot be had at times
  Edits,     \* a strategy edits the price of an entry
  Meanwhile, \* orders are put aside while the check of a minute runs
  Again      \* what a strategy asks of an order, at most
VARIABLES
  od,     \* st: "new"; "init"; "fullEnter"; "fullExit".  id: the order at the exchange, or 0
  late,   \* orders past their StopAfter
  trig,   \* triggerOds of the pair
  check,  \* the check that runs: at, seen, todo, left, res
  queue,
  exo,    \* the exchange's orders: whose, state, whether the bot knows of the fill, and ghost: a cancel of it failed
  asked   \* edits and exits asked for
vars == <<od, late, trig, check, queue, exo, asked>>

Idle == [at |-> "idle", seen |-> {}, todo |-> {}, left |-> {}, res |-> {}]
NewOd == [st |-> "new", id |-> 0, exit |-> FALSE]
Open(o) == od[o].st \in {"init", "fullEnter"}
Live(o) == {x \in DOMAIN exo : exo[x].od = o /\ exo[x].st \in {"live", "filled"}}

Init ==
  /\ od = [o \in Orders |-> NewOd] /\ late = {} /\ trig = {} /\ check = Idle
  /\ queue = <<>> /\ exo = <<>> /\ asked = 0
-----------------------------------------------------------------------------
(* isFarEnter: a pending entry that has a StopAfter ahead may be far; how far  *)
(* it is depends on the order book.                                            *)
MayBeFar(o) == od[o].st # "fullEnter" /\ o \notin late
AddTriggerOd(o) == (Meanwhile \/ check = Idle) /\ trig' = trig \cup {o} /\ UNCHANGED queue
Queued(o, act) == queue' = Append(queue, [od |-> o, act |-> act]) /\ UNCHANGED trig
\* makeAfterEnter
AfterEnter(o) ==
  /\ od[o].st = "new" /\ od' = [od EXCEPT ![o].st = "init"]
  /\ (MayBeFar(o) /\ AddTriggerOd(o)) \/ Queued(o, "enter")
  /\ UNCHANGED <<late, check, exo, asked>>
EditOrder(o) ==
  /\ Edits /\ od[o].st = "init" /\ ~od[o].exit /\ asked < Again /\ asked' = asked + 1
  /\ (MayBeFar(o) /\ AddTriggerOd(o)) \/ Queued(o, "limitEnter")
  /\ UNCHANGED <<od, late, check, exo>>
\* The strategy exits the order: SetExit, makeAfterExit.
AskExit(o) ==
  /\ Open(o) /\ ~od[o].exit /\ asked < Again /\ asked' = asked + 1
  /\ od' = [od EXCEPT ![o].exit = TRUE] /\ Queued(o, "exit")
  /\ UNCHANGED <<late, check, exo>>
StopPasses(o) ==
  /\ od[o].st # "new" /\ o \notin late /\ late' = late \cup {o}
  /\ UNCHANGED <<od, trig, check, queue, exo, asked>>
-----------------------------------------------------------------------------
(* verifyAccountTriggerOds.  Without volume or book all the orders of the pair *)
(* are submitted, and stay in triggerOds.                                      *)
CopyTriggers ==
  /\ check = Idle /\ trig # {}
  /\ \/ check' = [Idle EXCEPT !.at = "orders", !.todo = trig]
     \/ NoBook /\ check' = [Idle EXCEPT !.at = "put", !.res = trig]
  /\ UNCHANGED <<od, late, trig, queue, exo, asked>>
\* One order of the map, which may have been put there while the check runs.
Looked(o) == [check EXCEPT !.seen = @ \cup {o}, !.todo = @ \ {o}]
IsNear(o) == Open(o) /\ check' = [Looked(o) EXCEPT !.res = @ \cup {o}]
LeftAnyway(o) == Open(o) /\ check' = [Looked(o) EXCEPT !.left = @ \cup {o}]
IsLeft(o) == Open(o) /\ o \notin late /\ check' = [Looked(o) EXCEPT !.left = @ \cup {o}]
VerifyOd(o) ==
  /\ check.at = "orders" /\ o \in trig \ check.seen
  /\ (~Open(o) /\ check' = Looked(o)) \/ IsNear(o) \/ IsLeft(o)
  /\ UNCHANGED <<od, late, trig, queue, exo, asked>>

(* cancelTimeoutEnter and tryExitPendingEnter cancel the entry.  An error of   *)
(* CancelOrder is only logged, as that of an order that has filled: the entry  *)
(* stays live at the exchange, and the bot goes on as if it were not.          *)
Cancelled(o) ==
  LET x == od[o].id IN
  IF x # 0 /\ exo[x].st = "live"
  THEN exo' = [exo EXCEPT ![x].st = "cancelled"] \/ exo' = [exo EXCEPT ![x].kept = TRUE]
  ELSE UNCHANGED exo
CancelTimeoutEnter(o) ==
  /\ check.at = "orders" /\ o \in trig \ check.seen /\ Open(o) /\ o \in late
  /\ Cancelled(o) /\ od' = [od EXCEPT ![o].st = IF @ = "init" THEN "fullExit" ELSE @]
  /\ check' = Looked(o)
  /\ UNCHANGED <<late, trig, queue, asked>>
\* triggerOds[pair] = leftOds.
NoneLeft == {}
LeftOds == check.left
SetLeft ==
  /\ check.at = "orders" /\ check.todo = {} /\ check' = [Idle EXCEPT !.at = "put", !.res = check.res]
  /\ trig' = LeftOds
  /\ UNCHANGED <<od, late, queue, exo, asked>>
PutTriggers ==
  /\ check.at = "put" /\ check' = Idle
  /\ LET near == SetToSeq({o \in check.res : Open(o)}) IN
     queue' = queue \o [i \in DOMAIN near |-> [od |-> near[i], act |-> IF od[near[i]].exit THEN "exit" ELSE "enter"]]
  /\ UNCHANGED <<od, late, trig, exo, asked>>
-----------------------------------------------------------------------------
(* handleOrderQueue: execOrderEnter asks only whether an exit was asked for;   *)
(* a refused entry ends the order.                                             *)
Submitted(o) ==
  \/ exo' = Append(exo, [od |-> o, st |-> "live", told |-> FALSE, kept |-> FALSE]) /\ od' = [od EXCEPT ![o].id = Len(exo) + 1]
  \/ UNCHANGED exo /\ od' = [od EXCEPT ![o].st = "fullExit", ![o].exit = TRUE]
ExecOrderEnter(o) == IF od[o].exit \/ od[o].st = "fullExit" THEN UNCHANGED <<od, exo>> ELSE Submitted(o)
EditLimitOd(o) == IF od[o].id = 0 THEN ExecOrderEnter(o) ELSE UNCHANGED <<od, exo>>
\* The entry of an order that has ended is closed: it is not cancelled again.
ExecOrderExit(o) ==
  IF od[o].st = "fullExit" THEN UNCHANGED <<od, exo>>
  ELSE Cancelled(o) /\ od' = [od EXCEPT ![o].st = "fullExit"]
HandleOrderQueue ==
  /\ queue # <<>> /\ queue' = Tail(queue)
  /\ LET q == Head(queue) IN
     CASE q.act = "enter" -> ExecOrderEnter(q.od) [] q.act = "limitEnter" -> EditLimitOd(q.od) [] OTHER -> ExecOrderExit(q.od)
  /\ UNCHANGED <<late, trig, check, asked>>

\* The exchange fills an order, and the bot hears of it.
Fill(x) ==
  /\ exo[x].st = "live" /\ exo' = [exo EXCEPT ![x].st = "filled"]
  /\ UNCHANGED <<od, late, trig, check, queue, asked>>
UpdateByMyTrade(x) ==
  /\ exo[x].st = "filled" /\ ~exo[x].told /\ exo' = [exo EXCEPT ![x].told = TRUE]
  /\ od' = [od EXCEPT ![exo[x].od].st = IF @ = "init" THEN "fullEnter" ELSE @]
  /\ UNCHANGED <<late, trig, check, queue, asked>>
-----------------------------------------------------------------------------
Asks == \E o \in Orders : AfterEnter(o) \/ EditOrder(o) \/ AskExit(o)
Exchange == \E x \in DOMAIN exo : Fill(x) \/ UpdateByMyTrade(x)
Verify == CopyTriggers \/ (\E o \in Orders : VerifyOd(o) \/ CancelTimeoutEnter(o)) \/ SetLeft \/ PutTriggers
Bot == Verify \/ HandleOrderQueue \/ (\E o \in Orders : StopPasses(o))
Next == Asks \/ Exchange \/ Bot
Spec == Init /\ [][Next]_vars
FairSpec == Spec /\ WF_vars(Verify) /\ WF_vars(\E o \in Orders : StopPasses(o))
-----------------------------------------------------------------------------
(* The entry of an order is at the exchange once: no second one is sent while  *)
(* one is open or filled (PutTriggers and HandleOrderQueue run side by side).  *)
EntersOnce == \A o \in Orders : Cardinality(Live(o)) <= 1

(* An entry that was never sent is waiting, being looked at or in the queue:   *)
(* nobody forgets it when triggerOds is replaced.                              *)
NotForgotten ==
  \A o \in Orders : od[o].st = "init" /\ od[o].id = 0 =>
    o \in trig \cup check.res \/ \E i \in DOMAIN queue : queue[i].od = o

(* An order that its StopAfter, a refusal or its exit ended left nothing open  *)
(* at the exchange that no cancel was tried of: what is live there is an entry *)
(* whose cancel failed.                                                        *)
EndedLeavesNone ==
  \A o \in Orders : od[o].st = "fullExit" => \A x \in Live(o) : exo[x].st = "filled" \/ exo[x].kept

-----------------------------------------------------------------------------
(* Why they hold (TriggerOdsProofs).                                           *)
Types ==
  /\ od \in [Orders -> [st : {"new", "init", "fullEnter", "fullExit"}, id : Nat, exit : BOOLEAN]]
  /\ late \subseteq Orders /\ trig \subseteq Orders /\ asked \in Nat
  /\ check \in [at : {"idle", "orders", "put"}, seen : SUBSET Orders, todo : SUBSET Orders,
                left : SUBSET Orders, res : SUBSET Orders]
  /\ queue \in Seq([od : Orders, act : {"enter", "limitEnter", "exit"}])
  /\ exo \in Seq([od : Orders, st : {"live", "filled", "cancelled"}, told : BOOLEAN, kept : BOOLEAN])

\* An entry is asked for at one place, and then it is not at the exchange yet.
EntryAt(i, o) == queue[i].od = o /\ queue[i].act # "exit"
Unsent(o) == o \in trig \cup check.res \/ \E i \in DOMAIN queue : EntryAt(i, o)
OnePlace ==
  /\ \A o \in Orders : Unsent(o) => od[o].st # "new" /\ od[o].id = 0
  /\ \A o \in Orders : od[o].st = "new" => od[o].id = 0
  /\ \A o \in trig \cup check.res : \A i \in DOMAIN queue : ~EntryAt(i, o)
  /\ \A o \in Orders : \A i, j \in DOMAIN queue : EntryAt(i, o) /\ EntryAt(j, o) => i = j
\* The check takes an order once, for one of its lists.
Sorted ==
  /\ check.at = "idle" => check.res = {}
  /\ check.at = "orders" => check.res \cup check.left \subseteq check.seen \cap trig /\ check.res \cap check.left = {}
  /\ check.at = "put" => check.res \cap trig = {}
\* An order of the exchange is that of its entry, which is known by it.
OwnOrder == \A x \in DOMAIN exo : od[exo[x].od].id = x /\ od[exo[x].od].st # "new"
\* Of an order that has ended only one is there that filled or whose cancel failed.
Binds(x) == exo[x].st = "live" /\ ~exo[x].kept
LiveIsOpen == \A x \in DOMAIN exo : Binds(x) => od[exo[x].od].st # "fullExit"
OnceInv == Types /\ OnePlace /\ Sorted /\ OwnOrder /\ LiveIsOpen

\* An exit that was asked for is in the queue until the order is ended.
ExitAt(o) == \E i \in DOMAIN queue : queue[i].od = o /\ queue[i].act = "exit"
ExitAsked == \A o \in Orders : od[o].exit => od[o].st # "new" /\ (od[o].st = "init" => ExitAt(o))
\* The check of a minute goes through all that wait, and keeps those that go on waiting.
AllSeen ==
  /\ \A o \in trig \cup check.seen \cup check.left : od[o].st # "new"
  /\ check.at = "orders" => trig \subseteq check.seen \cup check.todo
  /\ check.at = "orders" =>
       \A o \in check.seen : od[o].st = "init" /\ od[o].id = 0 => o \in check.left \cup check.res
KeptInv == Types /\ ExitAsked /\ AllSeen /\ NotForgotten
-----------------------------------------------------------------------------
\* An entry that waits is submitted or ended (VerifyTriggerOds, every minute).
WaitingEnds == \A o \in Orders : o \in trig ~> o \notin trig
=============================================================================
