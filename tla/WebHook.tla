------------------------------- MODULE WebHook ------------------------------
(* One notification channel (rpc/webhook.go): goroutines put messages into a  *)
(* queue, ConsumeForever sends them in batches and keeps those that failed,   *)
(* CleanUp waits until the wait group says that all are sent.                 *)
EXTENDS Naturals, Integers, Sequences, FiniteSets
CONSTANTS
  Senders,    \* goroutines that send messages
  Sends,      \* messages of each
  Cap,        \* places of the queue
  WholeBatch, \* email and Telegram send a batch as one text, WeWork message by message
  MaxFails    \* attempts that fail
VARIABLES queue, open, wg, disable, stage, num, con, msgArr, sent, fails, clean, panic
vars == <<queue, open, wg, disable, stage, num, con, msgArr, sent, fails, clean, panic>>

Ran == ~panic
Elems(s) == {s[i] : i \in DOMAIN s}
Without(s, S) == SelectSeq(s, LAMBDA m : m \notin S)

Init ==
  /\ queue = <<>> /\ open = TRUE /\ wg = 0 /\ disable = FALSE
  /\ stage = [s \in Senders |-> "idle"] /\ num = [s \in Senders |-> 0]
  /\ con = "wait" /\ msgArr = <<>> /\ sent = <<>> /\ fails = 0
  /\ clean = "no" /\ panic = FALSE

\* SendMsg looks at Disable first, then puts the message, then raises the wait group.
SendMsg(s) ==
  /\ Ran /\ stage[s] = "idle" /\ num[s] < Sends /\ ~disable
  /\ stage' = [stage EXCEPT ![s] = "put"] /\ num' = [num EXCEPT ![s] = @ + 1]
  /\ UNCHANGED <<queue, open, wg, disable, con, msgArr, sent, fails, clean, panic>>
Put(s) ==
  /\ Ran /\ stage[s] = "put"
  /\ IF ~open THEN panic' = TRUE /\ UNCHANGED <<queue, stage>>
     ELSE /\ Len(queue) < Cap
          /\ queue' = Append(queue, <<s, num[s]>>)
          /\ stage' = [stage EXCEPT ![s] = "add"] /\ UNCHANGED panic
  /\ UNCHANGED <<open, wg, disable, num, con, msgArr, sent, fails, clean>>
Add(s) ==
  /\ Ran /\ stage[s] = "add"
  /\ wg' = wg + 1 /\ stage' = [stage EXCEPT ![s] = "idle"]
  /\ UNCHANGED <<queue, open, disable, num, con, msgArr, sent, fails, clean, panic>>

\* ConsumeForever wakes for a message, and ends when the queue is closed.
Consume ==
  /\ Ran /\ con = "wait"
  /\ IF queue # <<>>
     THEN /\ msgArr' = Append(msgArr, Head(queue)) /\ queue' = Tail(queue) /\ con' = "read"
     ELSE /\ ~open /\ con' = "end" /\ UNCHANGED <<queue, msgArr>>
  /\ UNCHANGED <<open, wg, disable, stage, num, sent, fails, clean, panic>>
ReadCache ==
  /\ Ran /\ con = "read"
  /\ msgArr' = msgArr \o queue /\ queue' = <<>> /\ con' = "send"
  /\ UNCHANGED <<open, wg, disable, stage, num, sent, fails, clean, panic>>
Lowered(okNum) == wg - okNum
LoweredByAll(okNum) == wg - Len(msgArr)
LoweredByOne(okNum) == IF okNum > 0 THEN wg - 1 ELSE wg
Lower(okNum) == Lowered(okNum)
\* What an attempt may leave unsent.
Failed == IF fails >= MaxFails THEN {{}}
          ELSE IF WholeBatch THEN {{}, Elems(msgArr)} ELSE SUBSET Elems(msgArr)
\* A wait group below zero is a panic.
DoSend ==
  /\ Ran /\ con = "send"
  /\ \E bad \in Failed :
       LET okNum == Len(msgArr) - Cardinality(bad) IN
       /\ msgArr' = SelectSeq(msgArr, LAMBDA m : m \in bad)
       /\ sent' = sent \o Without(msgArr, bad)
       /\ wg' = Lower(okNum) /\ panic' = (Lower(okNum) < 0)
       /\ fails' = IF bad = {} THEN fails ELSE fails + 1
  /\ con' = "wait"
  /\ UNCHANGED <<queue, open, disable, stage, num, clean>>

CleanUp ==
  /\ Ran /\ clean = "no"
  /\ disable' = TRUE /\ clean' = "waiting"
  /\ UNCHANGED <<queue, open, wg, stage, num, con, msgArr, sent, fails, panic>>
Close ==
  /\ Ran /\ clean = "waiting" /\ wg = 0
  /\ open' = FALSE /\ clean' = "done"
  /\ UNCHANGED <<queue, wg, disable, stage, num, con, msgArr, sent, fails, panic>>

Consumer == Consume \/ ReadCache \/ DoSend
Sender(s) == Put(s) \/ Add(s)
Next == Consumer \/ CleanUp \/ Close \/ \E s \in Senders : SendMsg(s) \/ Sender(s)
\* The goroutines go on; no new message has to come.
GoesOn == Consumer \/ Close \/ \E s \in Senders : Sender(s)
Spec == Init /\ [][Next]_vars /\ WF_vars(GoesOn)
-----------------------------------------------------------------------------
TypeOK ==
  /\ Len(queue) <= Cap
  /\ Elems(queue) \cap (Elems(msgArr) \cup Elems(sent)) = {}
  /\ panic => wg < 0 \/ ~open

(* The wait group counts what is queued or kept for another attempt, save for *)
(* the senders between putting their message and raising it (SendMsg, doSend).*)
WgCounts == Ran => wg + Cardinality({s \in Senders : stage[s] = "add"}) = Len(queue) + Len(msgArr)

(* CleanUp ends once every message is sent (CleanUp, doSend).                 *)
CleanUpEnds == clean = "waiting" ~> (clean = "done" \/ panic)

(* A message that failed is tried again, also when no other one follows it.   *)
Retried == con = "wait" /\ msgArr # <<>> ~> con = "send"
=============================================================================
