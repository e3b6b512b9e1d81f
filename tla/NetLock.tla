------------------------------- MODULE NetLock ------------------------------
(* The lock programs share through the spider's BanServer (utils/banio.go):   *)
(* one key of its map. A client asks for the value with a message and waits   *)
(* on a channel registered under the key; the server handles every message in *)
(* a goroutine of its own.                                                    *)
EXTENDS Naturals, Sequences, FiniteSets
CONSTANTS
  Callers,     \* the goroutines that take the lock
  OneConn,     \* they share one connection, or have one each
  Rounds,      \* how often each takes it
  Polls,       \* how often GetNetLock reads the value before its time is up
  MaxTimeouts  \* answers the clients give up waiting for
VARIABLES
  data,      \* the value at the server
  wire,      \* messages the server is handling
  back,      \* answers on their way, per connection
  waits,     \* the channel registered under the key, per connection
  hand,      \* the channel RunForever has looked up for the next answer
  dead,      \* connections whose process has panicked
  chans,     \* the channels: what they hold, and whether they are open
  mine,      \* the channel a caller waits on
  stage, op, \* where a caller is, and what for
  res,       \* the answer it has got
  polls, round, timeouts,
  taking,    \* callers who were told the lock is free and have not stored their value
  race       \* two were told so at once
vars == <<data, wire, back, waits, hand, dead, chans, mine, stage, op, res, polls, round, timeouts,
          taking, race>>

Conns == IF OneConn THEN {"conn"} ELSE Callers
ConnOf(c) == IF OneConn THEN "conn" ELSE c
Chans == 1 .. Cardinality(Callers) + 1
Free == <<>>
NoChan == 0
Timeout == <<"timeout">>
LockVal(c) == <<c, round[c]>>
Runs(c) == ConnOf(c) \notin dead
\* A channel nobody can reach any more stands for the next one made.
Unused == {h \in Chans : /\ \A n \in Conns : waits[n] # h /\ hand[n] # h
                         /\ \A c \in Callers : mine[c] # h}

Init ==
  /\ data = Free /\ wire = {} /\ dead = {} /\ taking = {} /\ race = FALSE /\ timeouts = 0
  /\ back = [n \in Conns |-> <<>>]
  /\ waits = [n \in Conns |-> NoChan] /\ hand = [n \in Conns |-> NoChan]
  /\ chans = [h \in Chans |-> [got |-> <<>>, open |-> FALSE]]
  /\ mine = [c \in Callers |-> NoChan]
  /\ stage = [c \in Callers |-> "idle"] /\ op = [c \in Callers |-> "take"]
  /\ res = [c \in Callers |-> Free] /\ polls = [c \in Callers |-> 0] /\ round = [c \in Callers |-> 0]

GetNetLock(c) ==
  /\ stage[c] = "idle" /\ round[c] < Rounds /\ Runs(c)
  /\ round' = [round EXCEPT ![c] = @ + 1]
  /\ op' = [op EXCEPT ![c] = "take"] /\ polls' = [polls EXCEPT ![c] = 0]
  /\ stage' = [stage EXCEPT ![c] = "ask"]
  /\ UNCHANGED <<data, wire, back, waits, hand, dead, chans, mine, res, timeouts, taking, race>>

DelNetLock(c) ==
  /\ stage[c] = "held" /\ Runs(c)
  /\ op' = [op EXCEPT ![c] = "free"] /\ stage' = [stage EXCEPT ![c] = "ask"]
  /\ UNCHANGED <<data, wire, back, waits, hand, dead, chans, mine, res, polls, round, timeouts, taking, race>>

\* A fresh channel takes the place of the one another caller may have registered.
SetWait(c) ==
  LET h == CHOOSE x \in Unused : TRUE IN
  /\ waits' = [waits EXCEPT ![ConnOf(c)] = h]
  /\ chans' = [x \in Chans |-> IF x \in Unused THEN [got |-> <<>>, open |-> x = h] ELSE chans[x]]
GetVal(c) ==
  /\ stage[c] = "ask" /\ Runs(c)
  /\ SetWait(c)
  /\ wire' = wire \cup {[act |-> "onGetVal", by |-> c, val |-> LockVal(c), n |-> polls[c], op |-> op[c]]}
  /\ stage' = [stage EXCEPT ![c] = "sent"]
  /\ UNCHANGED <<data, back, hand, dead, mine, op, res, polls, round, timeouts, taking, race>>
\* Another caller may have removed the channel: the call fails.
GetWaitChan(c) ==
  /\ stage[c] = "sent" /\ Runs(c)
  /\ mine' = [mine EXCEPT ![c] = waits[ConnOf(c)]]
  /\ stage' = [stage EXCEPT ![c] = IF waits[ConnOf(c)] = NoChan THEN "idle" ELSE "wait"]
  /\ taking' = IF waits[ConnOf(c)] = NoChan THEN taking \ {c} ELSE taking
  /\ UNCHANGED <<data, wire, back, waits, hand, dead, chans, op, res, polls, round, timeouts, race>>

\* A closed channel reads as an empty value.
Received(c) ==
  LET h == mine[c] IN
  /\ stage[c] = "wait" /\ Runs(c)
  /\ chans[h].got # <<>> \/ ~chans[h].open
  /\ res' = [res EXCEPT ![c] = IF chans[h].got = <<>> THEN Free ELSE Head(chans[h].got)]
  /\ chans' = [chans EXCEPT ![h].got = <<>>]
  /\ stage' = [stage EXCEPT ![c] = "close"]
  /\ UNCHANGED <<data, wire, back, waits, hand, dead, mine, op, polls, round, timeouts, taking, race>>
NeverTimesOut(c) == FALSE
\* Only so many calls give up before their answer; one nobody will answer always does.
TimesOut(c) ==
  /\ stage[c] = "wait" /\ Runs(c)
  /\ IF wire = {} /\ back[ConnOf(c)] = <<>> THEN UNCHANGED timeouts
     ELSE timeouts < MaxTimeouts /\ timeouts' = timeouts + 1
  /\ res' = [res EXCEPT ![c] = Timeout] /\ stage' = [stage EXCEPT ![c] = "close"]
  /\ UNCHANGED <<data, wire, back, waits, hand, dead, chans, mine, op, polls, round, taking, race>>

CloseWaitChan(c) ==
  LET h == waits[ConnOf(c)] IN
  /\ waits' = [waits EXCEPT ![ConnOf(c)] = NoChan]
  /\ chans' = IF h = NoChan THEN chans ELSE [chans EXCEPT ![h].open = FALSE]
Sends(c, v) == wire' = wire \cup {[act |-> "onSetVal", by |-> c, val |-> v, n |-> polls[c], op |-> op[c]]}
\* What GetNetLock does with the value: take a free lock, read again, or give up.
TakesIt(c) ==
  IF res[c] = Free THEN Sends(c, LockVal(c)) /\ stage' = [stage EXCEPT ![c] = "held"] /\ UNCHANGED <<polls, taking>>
  ELSE IF res[c] # Timeout /\ polls[c] + 1 < Polls
  THEN stage' = [stage EXCEPT ![c] = "ask"] /\ polls' = [polls EXCEPT ![c] = @ + 1] /\ UNCHANGED <<wire, taking>>
  ELSE stage' = [stage EXCEPT ![c] = "idle"] /\ taking' = taking \ {c} /\ UNCHANGED <<wire, polls>>
TakesAnyway(c) ==
  IF res[c] = Free \/ polls[c] + 1 >= Polls
  THEN Sends(c, LockVal(c)) /\ stage' = [stage EXCEPT ![c] = "held"] /\ UNCHANGED <<polls, taking>>
  ELSE stage' = [stage EXCEPT ![c] = "ask"] /\ polls' = [polls EXCEPT ![c] = @ + 1] /\ UNCHANGED <<wire, taking>>
\* GetNetLock reads the value once, and with a time limit again until it is free.
Takes(c) == TakesIt(c)
\* DelNetLock frees the lock if the value is its own.
Frees(c) ==
  /\ IF res[c] = LockVal(c) THEN Sends(c, Free) ELSE UNCHANGED wire
  /\ stage' = [stage EXCEPT ![c] = "idle"] /\ UNCHANGED <<polls, taking>>
Answered(c) ==
  /\ stage[c] = "close" /\ Runs(c)
  /\ CloseWaitChan(c)
  /\ mine' = [mine EXCEPT ![c] = NoChan]
  /\ IF op[c] = "take" THEN Takes(c) ELSE Frees(c)
  /\ UNCHANGED <<data, back, hand, dead, op, res, round, timeouts, race>>

\* The server: onGetVal answers, onSetVal stores or deletes.
ServerGetVal(m) ==
  /\ m.act = "onGetVal" /\ UNCHANGED data
  /\ back' = [back EXCEPT ![ConnOf(m.by)] = Append(@, data)]
  /\ LET told == m.op = "take" /\ data = Free IN
     /\ race' = (race \/ (told /\ taking \ {m.by} # {}))
     /\ taking' = IF told THEN taking \cup {m.by} ELSE taking
ServerSetVal(m) ==
  /\ m.act = "onSetVal"
  /\ data' = m.val /\ taking' = taking \ {m.by}
  /\ UNCHANGED <<back, race>>
Handle ==
  \E m \in wire :
    /\ wire' = wire \ {m}
    /\ ServerGetVal(m) \/ ServerSetVal(m)
    /\ UNCHANGED <<waits, hand, dead, chans, mine, stage, op, res, polls, round, timeouts>>

(* RunForever of a client: the channel is looked up, then the answer is put   *)
(* into it; a full one is closed, and a closed one ends the program.          *)
LookUp(n) ==
  /\ back[n] # <<>> /\ hand[n] = NoChan /\ n \notin dead
  /\ hand' = [hand EXCEPT ![n] = waits[n]]
  /\ back' = IF waits[n] = NoChan THEN [back EXCEPT ![n] = Tail(@)] ELSE back
  /\ UNCHANGED <<data, wire, waits, dead, chans, mine, stage, op, res, polls, round, timeouts, taking, race>>
Put(n) ==
  LET h == hand[n] IN
  /\ h # NoChan
  /\ hand' = [hand EXCEPT ![n] = NoChan] /\ back' = [back EXCEPT ![n] = Tail(@)]
  /\ \/ /\ ~chans[h].open /\ dead' = dead \cup {n} /\ UNCHANGED <<chans, waits>>
     \/ /\ chans[h].open /\ chans[h].got = <<>> /\ UNCHANGED <<dead, waits>>
        /\ chans' = [chans EXCEPT ![h].got = <<Head(back[n])>>]
     \/ /\ chans[h].open /\ chans[h].got # <<>> /\ UNCHANGED dead
        /\ waits' = [waits EXCEPT ![n] = NoChan]
        /\ chans' = IF waits[n] = NoChan THEN chans ELSE [chans EXCEPT ![waits[n]].open = FALSE]
  /\ UNCHANGED <<data, wire, mine, stage, op, res, polls, round, timeouts, taking, race>>

Call(c) == GetNetLock(c) \/ DelNetLock(c) \/ TimesOut(c)
Serve == Handle \/ \E n \in Conns : LookUp(n) \/ Put(n)
Step(c) == GetVal(c) \/ GetWaitChan(c) \/ Received(c) \/ Answered(c)
Next == Serve \/ \E c \in Callers : Call(c) \/ Step(c)
\* The programs go on; nobody has to take the lock.
GoesOn == Serve \/ \E c \in Callers : Step(c) \/ TimesOut(c) \/ DelNetLock(c)
Spec == Init /\ [][Next]_vars /\ WF_vars(GoesOn)
-----------------------------------------------------------------------------
TypeOK ==
  /\ data \in {Free} \cup (Callers \X (1 .. Rounds))
  /\ \A n \in Conns : waits[n] \in Chans \cup {NoChan} /\ hand[n] \in Chans \cup {NoChan}
  /\ \A h \in Chans : Len(chans[h].got) <= 1
  /\ \A c \in Callers : /\ stage[c] \in {"idle", "ask", "sent", "wait", "close", "held"}
                        /\ stage[c] = "wait" => mine[c] # NoChan

(* The value is read and set in two steps (GetNetLock); as long as no two are *)
(* told at once that it is free, one caller at most has the lock.  An answer   *)
(* that comes after its call was given up may be taken for that of the next,   *)
(* so this is promised only where answers are waited for, or to callers on     *)
(* connections of their own who do not call again.                            *)
Exclusive == ~race => Cardinality({c \in Callers : stage[c] = "held"}) <= 1
-----------------------------------------------------------------------------
(* Why Exclusive holds, for callers with a connection each (NetLockProofs).    *)
Vals == {Free} \cup (Callers \X (0 .. Rounds))
Types ==
  /\ data \in Vals /\ dead \subseteq Callers /\ taking \subseteq Callers /\ race \in BOOLEAN /\ timeouts \in Nat
  /\ wire \subseteq [act : {"onGetVal", "onSetVal"}, by : Callers, val : Vals, n : Nat, op : {"take", "free"}]
  /\ back \in [Callers -> Seq(Vals)] /\ chans \in [Chans -> [got : Seq(Vals), open : BOOLEAN]]
  /\ waits \in [Callers -> Chans \cup {NoChan}] /\ hand \in [Callers -> Chans \cup {NoChan}]
  /\ mine \in [Callers -> Chans \cup {NoChan}]
  /\ stage \in [Callers -> {"idle", "ask", "sent", "wait", "close", "held"}]
  /\ op \in [Callers -> {"take", "free"}] /\ res \in [Callers -> Vals \cup {Timeout}]
  /\ polls \in [Callers -> Nat] /\ round \in [Callers -> 0 .. Rounds]
  /\ \A c \in Callers : stage[c] # "idle" => round[c] # 0

InCall(c) == stage[c] \in {"sent", "wait"}
\* The call was given up before its answer; c will not call again.
GaveUp(c) ==
  /\ MaxTimeouts # 0
  /\ \/ stage[c] = "close" /\ res[c] = Timeout
     \/ stage[c] = "idle" /\ round[c] = Rounds
Asks(c, m) == m.act = "onGetVal" /\ m.by = c
Asking(c) == \E m \in wire : Asks(c, m)
Pending(c) == Asking(c) \/ back[c] # <<>>
InChan(c) == waits[c] # NoChan /\ chans[waits[c]].got # <<>>
\* A caller has one question under way, or one answer.
OneAnswer(c) ==
  /\ Asking(c) => back[c] = <<>>
  /\ Pending(c) => ~InChan(c) /\ (InCall(c) \/ GaveUp(c))
  /\ Len(back[c]) <= 1
  /\ hand[c] # NoChan => back[c] # <<>>
  /\ \A m \in wire : Asks(c, m) => (InCall(c) => m.op = op[c]) /\ \A k \in wire : Asks(c, k) => k = m
\* It comes in the channel the caller has registered.
OwnChan(c) ==
  /\ stage[c] \in {"idle", "ask", "held"} => waits[c] = NoChan /\ mine[c] = NoChan
  /\ stage[c] \in {"sent", "wait", "close"} => waits[c] # NoChan /\ chans[waits[c]].open
  /\ stage[c] = "sent" => mine[c] = NoChan
  /\ stage[c] \in {"wait", "close"} => mine[c] = waits[c]
  /\ hand[c] # NoChan => hand[c] = waits[c] \/ waits[c] = NoChan
\* The channel of c; no other has it.
ChanOf(c) == IF waits[c] = NoChan THEN hand[c] ELSE waits[c]
Apart == \A c, d \in Callers : c # d /\ ChanOf(c) # NoChan => ChanOf(c) # ChanOf(d)

\* The answer to the call of c will be v, or is.
Gets(c, v) ==
  \/ InCall(c) /\ back[c] # <<>> /\ Head(back[c]) = v
  \/ InCall(c) /\ InChan(c) /\ Head(chans[waits[c]].got) = v
  \/ stage[c] = "close" /\ res[c] = v
Claims(c) == op[c] = "take" /\ Gets(c, Free)
IsFreeing(c) == op[c] = "free" /\ stage[c] \in {"ask", "sent", "wait", "close"}
FreesBy(c, m) == m.act = "onSetVal" /\ m.by = c /\ m.val = Free
HasFreed(c) == \E m \in wire : FreesBy(c, m)
\* c holds the lock, will hold it, or has not given it back yet.
Live(c) == Claims(c) \/ stage[c] = "held" \/ IsFreeing(c) \/ HasFreed(c)
Sole ==
  /\ \A c, d \in Callers : Live(c) /\ Live(d) => c = d
  /\ \A c \in Callers : Live(c) => data # Free \/ c \in taking
  /\ \A c \in Callers : HasFreed(c) => data # Free /\ ~Claims(c) /\ ~IsFreeing(c) /\ stage[c] # "held"
  /\ \A c \in Callers : \A v \in Vals : IsFreeing(c) /\ Gets(c, v) /\ v # Free => data # Free
  /\ \A m, k \in wire : FreesBy(m.by, m) /\ FreesBy(m.by, k) => m = k
IInv == Types /\ (\A c \in Callers : OneAnswer(c) /\ OwnChan(c)) /\ Apart /\ (~race => Sole)

(* Every call to the server ends, with an answer or an error (WaitResult).    *)
CallsEnd == \A c \in Callers : stage[c] \in {"ask", "sent", "wait", "close"} ~> (stage[c] \in {"idle", "held"} \/ ~Runs(c))
=============================================================================
