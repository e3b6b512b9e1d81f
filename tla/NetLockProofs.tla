---------------------------- MODULE NetLockProofs ----------------------------
(* Theorems about NetLock, for any callers with a connection each, who wait    *)
(* for their answers or do not call again.                                     *)
EXTENDS NetLock, FiniteSetTheorems, TLAPS

\* Where Exclusive is promised (see there).
Settings ==
  /\ IsFiniteSet(Callers) /\ ~OneConn
  /\ Rounds \in Nat /\ Polls \in Nat /\ MaxTimeouts \in Nat
  /\ MaxTimeouts = 0 \/ Rounds = 1

LEMMA OwnConns == ASSUME Settings PROVE Conns = Callers /\ \A c \in Callers : ConnOf(c) = c
BY DEF Settings, Conns, ConnOf

LEMMA ValsDiffer ==
  ASSUME NEW c \in Callers, Types
  PROVE  /\ LockVal(c) \in Vals /\ LockVal(c) # Free /\ LockVal(c) # Timeout
         /\ Free \in Vals /\ Free # Timeout /\ Timeout \notin Vals
<1>1. LockVal(c) \in Vals /\ LockVal(c) # Free /\ LockVal(c) # Timeout
  BY DEF Types, Vals, LockVal, Free, Timeout
<1>2. Free \in Vals /\ Free # Timeout
  BY DEF Vals, Free, Timeout
<1>3. Timeout \notin Vals
  BY DEF Vals, Free, Timeout
<1> QED
  BY <1>1, <1>2, <1>3

ChanTable == [Chans -> [got : Seq(Vals), open : BOOLEAN]]
LEMMA ChanWritten ==
  ASSUME NEW t \in ChanTable, NEW h \in Chans, NEW g \in Seq(Vals), NEW b \in BOOLEAN
  PROVE  /\ [t EXCEPT ![h].got = g] \in ChanTable /\ [t EXCEPT ![h].open = b] \in ChanTable
         /\ [t EXCEPT ![h].got = g][h].got = g /\ [t EXCEPT ![h].got = g][h].open = t[h].open
         /\ \A x \in Chans \ {h} : [t EXCEPT ![h].got = g][x] = t[x] /\ [t EXCEPT ![h].open = b][x] = t[x]
BY DEF ChanTable

-----------------------------------------------------------------------------
\* Nothing has changed for d, but perhaps what the server holds.
SameOf(d) ==
  /\ waits'[d] = waits[d] /\ hand'[d] = hand[d] /\ mine'[d] = mine[d] /\ back'[d] = back[d]
  /\ stage'[d] = stage[d] /\ op'[d] = op[d] /\ res'[d] = res[d] /\ round'[d] = round[d]
  /\ waits[d] # NoChan => chans'[waits[d]] = chans[waits[d]]
  /\ \A m : Asks(d, m) \/ FreesBy(d, m) => (m \in wire' <=> m \in wire)

LEMMA SameViews ==
  ASSUME NEW d \in Callers, SameOf(d)
  PROVE  /\ Asking(d)' = Asking(d) /\ InChan(d)' = InChan(d) /\ InCall(d)' = InCall(d)
         /\ GaveUp(d)' = GaveUp(d) /\ Pending(d)' = Pending(d) /\ ChanOf(d)' = ChanOf(d)
         /\ \A v : Gets(d, v)' = Gets(d, v)
         /\ Claims(d)' = Claims(d) /\ IsFreeing(d)' = IsFreeing(d) /\ HasFreed(d)' = HasFreed(d)
         /\ Live(d)' = Live(d)
<1>1. Asking(d)' = Asking(d)
  BY DEF SameOf, Asking, Asks
<1>2. HasFreed(d)' = HasFreed(d)
  BY DEF SameOf, HasFreed, FreesBy
<1>3. InChan(d)' = InChan(d) /\ InCall(d)' = InCall(d) /\ GaveUp(d)' = GaveUp(d) /\ ChanOf(d)' = ChanOf(d)
      /\ IsFreeing(d)' = IsFreeing(d)
  BY DEF SameOf, InChan, InCall, GaveUp, ChanOf, IsFreeing
<1>4. Pending(d)' = Pending(d)
  BY <1>1 DEF SameOf, Pending
<1>5. \A v : Gets(d, v)' = Gets(d, v)
  BY <1>3 DEF SameOf, Gets, InChan
<1>6. Claims(d)' = Claims(d)
  BY <1>5 DEF SameOf, Claims
<1> QED
  BY <1>1, <1>2, <1>3, <1>4, <1>5, <1>6 DEF SameOf, Live

LEMMA SameStays ==
  ASSUME NEW d \in Callers, SameOf(d), OneAnswer(d), OwnChan(d)
  PROVE  OneAnswer(d)' /\ OwnChan(d)'
<1>1. OneAnswer(d)'
  BY SameViews DEF SameOf, OneAnswer, Asks
<1>2. OwnChan(d)'
  BY DEF SameOf, OwnChan
<1> QED
  BY <1>1, <1>2

\* A step of c or of the server for c: the channels stay apart.
LEMMA StaysApart ==
  ASSUME IInv, NEW c \in Callers, \A d \in Callers \ {c} : SameOf(d),
         OneAnswer(c)', OwnChan(c)',
         \/ ChanOf(c)' \in {ChanOf(c), NoChan}
         \/ \A d \in Callers \ {c} : ChanOf(c)' # ChanOf(d)
  PROVE  Apart' /\ \A d \in Callers : OneAnswer(d)' /\ OwnChan(d)'
<1>1. \A d \in Callers \ {c} : OneAnswer(d)' /\ OwnChan(d)' /\ ChanOf(d)' = ChanOf(d)
  BY SameViews, SameStays DEF IInv
<1>2. Apart'
  BY <1>1 DEF IInv, Apart
<1> QED
  BY <1>1, <1>2

\* A step of the programs: the server's value does not change.
LEMMA QuietStep ==
  ASSUME Sole, NEW c \in Callers, \A d \in Callers \ {c} : SameOf(d),
         data' = data, taking' \in {taking, taking \ {c}}, 
         \A m \in wire' : m \in wire \/ m.by = c,
         Live(c)' => Live(c) /\ (taking' = taking \/ data # Free),
         HasFreed(c)' => data # Free /\ ~Claims(c)' /\ ~IsFreeing(c)' /\ stage'[c] # "held",
         \A v \in Vals : IsFreeing(c)' /\ Gets(c, v)' /\ v # Free => data # Free,
         \A m, k \in wire' : FreesBy(c, m) /\ FreesBy(c, k) => m = k
  PROVE  Sole'
<1>1. \A d \in Callers \ {c} :
        /\ Live(d)' = Live(d) /\ HasFreed(d)' = HasFreed(d) /\ Claims(d)' = Claims(d)
        /\ IsFreeing(d)' = IsFreeing(d) /\ stage'[d] = stage[d] /\ \A v : Gets(d, v)' = Gets(d, v)
  BY SameViews DEF SameOf
<1>2. \A d \in Callers : Live(d)' => Live(d)
  BY <1>1
<1>3. \A b, d \in Callers : Live(b)' /\ Live(d)' => b = d
  BY <1>2 DEF Sole
<1>4. \A d \in Callers : Live(d)' => data' # Free \/ d \in taking'
  BY <1>2 DEF Sole
<1>5. \A d \in Callers : HasFreed(d)' => data' # Free /\ ~Claims(d)' /\ ~IsFreeing(d)' /\ stage'[d] # "held"
  BY <1>1 DEF Sole
<1>6. \A d \in Callers : \A v \in Vals : IsFreeing(d)' /\ Gets(d, v)' /\ v # Free => data' # Free
  BY <1>1 DEF Sole
<1>7. ASSUME NEW m \in wire', NEW k \in wire', FreesBy(m.by, m), FreesBy(m.by, k)
      PROVE  m = k
  <2>1. CASE m.by = c
    BY <1>7, <2>1
  <2>2. CASE m.by # c
    <3>1. m \in wire /\ k \in wire
      BY <1>7, <2>2 DEF FreesBy
    <3> QED
      BY <1>7, <3>1 DEF Sole
  <2> QED
    BY <2>1, <2>2
<1> QED
  BY <1>3, <1>4, <1>5, <1>6, <1>7 DEF Sole, FreesBy

-----------------------------------------------------------------------------
\* One lemma for each step of a program.
LEMMA GetNetLockStep ==
  ASSUME Settings, IInv, NEW c \in Callers, GetNetLock(c)
  PROVE  IInv'
<1> USE DEF GetNetLock
<1>1. Types'
  <2>1. round' \in [Callers -> 0 .. Rounds] /\ \A d \in Callers : stage'[d] # "idle" => round'[d] # 0
    BY DEF IInv, Types, Settings
  <2>2. /\ stage' \in [Callers -> {"idle", "ask", "sent", "wait", "close", "held"}]
        /\ op' \in [Callers -> {"take", "free"}] /\ polls' \in [Callers -> Nat]
    BY DEF IInv, Types
  <2> QED
    BY <2>1, <2>2 DEF IInv, Types
<1>2. \A d \in Callers \ {c} : SameOf(d)
  BY DEF SameOf, IInv, Types
<1>3. OneAnswer(c) /\ OwnChan(c) /\ ~Pending(c) /\ ~InChan(c)
  BY DEF IInv, OneAnswer, OwnChan, Pending, InCall, GaveUp, InChan, Types
<1>4. OneAnswer(c)' /\ OwnChan(c)' /\ ChanOf(c)' = ChanOf(c)
  BY <1>3 DEF OneAnswer, OwnChan, Pending, InCall, GaveUp, InChan, ChanOf, IInv, Types, Asks, Asking
<1>5. ASSUME ~race
      PROVE  Sole'
  <2>1. Sole
    BY <1>5 DEF IInv
  <2>2. /\ ~Claims(c)' /\ ~IsFreeing(c)' /\ stage'[c] # "held" /\ HasFreed(c)' = HasFreed(c)
    BY DEF Claims, Gets, InCall, IsFreeing, HasFreed, FreesBy, IInv, Types
  <2>3. wire' = wire /\ data' = data /\ taking' = taking
    OBVIOUS
  <2> QED
    BY <1>2, <2>1, <2>2, <2>3, QuietStep DEF Live, Sole, FreesBy
<1> QED
  BY <1>1, <1>2, <1>4, <1>5, StaysApart DEF IInv

LEMMA DelNetLockStep ==
  ASSUME Settings, IInv, NEW c \in Callers, DelNetLock(c)
  PROVE  IInv'
<1> USE DEF DelNetLock
<1>1. Types'
  BY DEF IInv, Types, Settings, Vals
<1>2. \A d \in Callers \ {c} : SameOf(d)
  BY DEF SameOf, IInv, Types
<1>3. OneAnswer(c) /\ OwnChan(c) /\ ~Pending(c) /\ ~InChan(c)
  BY DEF IInv, OneAnswer, OwnChan, Pending, InCall, GaveUp, InChan, Types
<1>4. OneAnswer(c)' /\ OwnChan(c)' /\ ChanOf(c)' = ChanOf(c)
  BY <1>3 DEF OneAnswer, OwnChan, Pending, InCall, GaveUp, InChan, ChanOf, IInv, Types, Asks, Asking
<1>5. ASSUME ~race
      PROVE  Sole'
  <2>1. Sole /\ Live(c)
    BY <1>5 DEF IInv, Live
  <2>2. ~Claims(c)' /\ HasFreed(c)' = HasFreed(c) /\ (\A v : ~Gets(c, v)') /\ stage'[c] # "held"
    BY DEF Claims, Gets, InCall, HasFreed, FreesBy, IInv, Types
  <2>3. wire' = wire /\ data' = data /\ taking' = taking /\ ~HasFreed(c)
    BY <2>1 DEF Sole
  <2> QED
    BY <1>2, <2>1, <2>2, <2>3, QuietStep DEF Sole, FreesBy
<1> QED
  BY <1>1, <1>2, <1>4, <1>5, StaysApart DEF IInv

\* There is always a channel to make.
LEMMA SomeUnused ==
  ASSUME Settings, IInv, NEW c \in Callers, ChanOf(c) = NoChan
  PROVE  \E h \in Chans : h \in Unused
<1> DEFINE n == Cardinality(Callers)
           f == [d \in Callers |-> ChanOf(d)]
           used == {f[d] : d \in Callers}
<1>1. n \in Nat /\ Chans = 1 .. n + 1
  BY FS_CardinalityType DEF Settings, Chans
<1>2. IsFiniteSet(used) /\ Cardinality(used) <= n
  <2>1. f \in Surjection(Callers, used)
    BY DEF Surjection
  <2> QED
    BY <2>1, FS_Surjection DEF Settings
<1>3. IsFiniteSet(Chans) /\ Cardinality(Chans) = n + 1
  BY <1>1, FS_Interval
<1>4. Cardinality(used) \in Nat
  BY <1>2, FS_CardinalityType
<1>5. ~(Chans \subseteq used)
  <2> HIDE DEF used, f
  <2>1. ASSUME Chans \subseteq used
        PROVE  FALSE
    <3>1. Cardinality(Chans) <= Cardinality(used)
      BY <1>2, <2>1, FS_Subset
    <3> QED
      BY <1>1, <1>2, <1>3, <1>4, <3>1
  <2> QED
    BY <2>1
<1>6. PICK h \in Chans : h \notin used
  BY <1>5
<1>7. \A d \in Callers : waits[d] # h /\ hand[d] # h /\ mine[d] # h
  <2>1. h # NoChan
    BY <1>1 DEF NoChan
  <2>2. TAKE d \in Callers
  <2>3. ChanOf(d) # h
    BY <1>6
  <2>4. OwnChan(d) /\ stage[d] \in {"idle", "ask", "sent", "wait", "close", "held"}
    BY DEF IInv, Types
  <2> QED
    BY <2>1, <2>3, <2>4 DEF OwnChan, ChanOf
<1>8. h \in Unused
  BY <1>7, OwnConns DEF Unused
<1> QED
  BY <1>8

LEMMA GetValStep ==
  ASSUME Settings, IInv, NEW c \in Callers, GetVal(c)
  PROVE  IInv'
<1> DEFINE h == CHOOSE x \in Unused : TRUE
           q == [act |-> "onGetVal", by |-> c, val |-> LockVal(c), n |-> polls[c], op |-> op[c]]
<1>0. ConnOf(c) = c /\ Conns = Callers
  BY OwnConns
<1>1. OneAnswer(c) /\ OwnChan(c) /\ ~Pending(c) /\ ~InChan(c) /\ ChanOf(c) = NoChan
  BY DEF IInv, OneAnswer, OwnChan, Pending, InCall, GaveUp, InChan, Types, GetVal, ChanOf
<1>2. h \in Chans /\ h \in Unused /\ h # NoChan
  <2>1. h \in Chans /\ h \in Unused
    BY <1>1, SomeUnused DEF Unused
  <2>2. NoChan \notin Chans
    BY FS_CardinalityType DEF Settings, Chans, NoChan
  <2> QED
    BY <2>1, <2>2
<1>3. \A d \in Callers : waits[d] # h /\ hand[d] # h /\ mine[d] # h
  BY <1>0, <1>2 DEF Unused
<1>4. /\ waits' = [waits EXCEPT ![c] = h]
      /\ chans' = [x \in Chans |-> IF x \in Unused THEN [got |-> <<>>, open |-> x = h] ELSE chans[x]]
  BY <1>0 DEF GetVal, SetWait
<1> HIDE DEF h
<1>5. Types'
  <2>1. q \in [act : {"onGetVal", "onSetVal"}, by : Callers, val : Vals, n : Nat, op : {"take", "free"}]
    BY ValsDiffer DEF IInv, Types
  <2>2. waits' \in [Callers -> Chans \cup {NoChan}] /\ wire' = wire \cup {q}
    BY <1>2, <1>4 DEF IInv, Types, GetVal
  <2>3. chans' \in [Chans -> [got : Seq(Vals), open : BOOLEAN]]
    BY <1>4 DEF IInv, Types
  <2> HIDE DEF q
  <2>4. wire' \subseteq [act : {"onGetVal", "onSetVal"}, by : Callers, val : Vals, n : Nat, op : {"take", "free"}]
    BY <2>1, <2>2 DEF IInv, Types
  <2> QED
    BY <2>2, <2>3, <2>4 DEF GetVal, IInv, Types, Vals
<1>6. wire' = wire \cup {q} /\ q.act = "onGetVal" /\ q.by = c /\ q.op = op[c]
  BY DEF GetVal
<1> HIDE DEF q
<1>7. \A d \in Callers \ {c} : SameOf(d)
  <2>1. \A x \in Chans : x \notin Unused => chans'[x] = chans[x]
    BY <1>4
  <2>2. \A d \in Callers : waits[d] \notin Unused /\ waits[d] \in Chans \cup {NoChan}
    BY <1>0 DEF Unused, IInv, Types
  <2>3. \A d \in Callers \ {c} : \A m : Asks(d, m) \/ FreesBy(d, m) => (m \in wire' <=> m \in wire)
    BY <1>6 DEF Asks, FreesBy
  <2> QED
    BY <1>4, <2>1, <2>2, <2>3 DEF SameOf, IInv, Types, GetVal
<1>8. stage'[c] = "sent" /\ waits'[c] = h /\ chans'[h].got = <<>> /\ chans'[h].open
  BY <1>2, <1>4 DEF GetVal, IInv, Types
<1>9. /\ mine'[c] = NoChan /\ hand'[c] = NoChan /\ back'[c] = <<>> /\ op'[c] = op[c]
      /\ \A m \in wire : ~Asks(c, m)
  BY <1>1 DEF GetVal, OwnChan, OneAnswer, Pending, Asking
<1>10. OneAnswer(c)' /\ OwnChan(c)' /\ ChanOf(c)' = h
  <2>1. OneAnswer(c)'
    <3>1. Len(back'[c]) <= 1
      BY <1>9
    <3>2. ~InChan(c)' /\ InCall(c)'
      BY <1>8 DEF InChan, InCall
    <3>3. \A m \in wire' : Asks(c, m) => m = q
      BY <1>6, <1>9
    <3> QED
      BY <1>6, <1>9, <3>1, <3>2, <3>3 DEF OneAnswer, Asks
  <2>2. OwnChan(c)' /\ ChanOf(c)' = h
    BY <1>2, <1>8, <1>9 DEF OwnChan, ChanOf
  <2> QED
    BY <2>1, <2>2
<1>11. \A d \in Callers \ {c} : ChanOf(c)' # ChanOf(d)
  BY <1>3, <1>10 DEF ChanOf
<1>12. ASSUME ~race
       PROVE  Sole'
  <2>1. Sole
    BY <1>12 DEF IInv
  <2>2. /\ \A v : ~Gets(c, v)'
        /\ stage'[c] # "held" /\ data' = data /\ taking' = taking
    BY <1>8, <1>9 DEF Gets, InChan, GetVal
  <2>3. \A m : FreesBy(c, m) => (m \in wire' <=> m \in wire)
    BY <1>6 DEF FreesBy
  <2>4. IsFreeing(c)' = IsFreeing(c) /\ HasFreed(c)' = HasFreed(c) /\ ~Claims(c)'
    BY <1>8, <1>9, <2>2, <2>3 DEF IsFreeing, HasFreed, Claims, GetVal
  <2>5. Live(c)' => Live(c)
    BY <2>2, <2>4 DEF Live
  <2>6. \A m \in wire' : m \in wire \/ m.by = c
    BY <1>6
  <2>7. \A m, k \in wire' : FreesBy(c, m) /\ FreesBy(c, k) => m = k
    BY <2>1, <2>3 DEF Sole, FreesBy
  <2>8. HasFreed(c)' => data # Free /\ ~Claims(c)' /\ ~IsFreeing(c)' /\ stage'[c] # "held"
    BY <2>1, <2>2, <2>4 DEF Sole
  <2> QED
    BY <1>7, <2>1, <2>2, <2>5, <2>6, <2>7, <2>8, QuietStep
<1>13. race' = race
  BY DEF GetVal
<1> QED
  BY <1>5, <1>7, <1>10, <1>11, <1>12, <1>13, StaysApart DEF IInv

LEMMA GetWaitChanStep ==
  ASSUME Settings, IInv, NEW c \in Callers, GetWaitChan(c)
  PROVE  IInv'
<1>0. ConnOf(c) = c
  BY OwnConns
<1>1. OneAnswer(c) /\ OwnChan(c) /\ waits[c] # NoChan
  BY DEF IInv, OwnChan, GetWaitChan
<1>2. /\ mine' = [mine EXCEPT ![c] = waits[c]] /\ stage' = [stage EXCEPT ![c] = "wait"] /\ taking' = taking
      /\ UNCHANGED <<data, wire, back, waits, hand, dead, chans, op, res, polls, round, timeouts, race>>
      /\ stage[c] = "sent"
  BY <1>0, <1>1 DEF GetWaitChan
<1>3. Types'
  BY <1>2 DEF IInv, Types, Settings, Vals
<1>4. \A d \in Callers \ {c} : SameOf(d)
  BY <1>2 DEF SameOf, IInv, Types
<1>5. stage'[c] = "wait" /\ mine'[c] = waits[c]
  BY <1>2 DEF IInv, Types
<1>6. InCall(c) /\ InCall(c)' /\ InChan(c)' = InChan(c) /\ Pending(c)' = Pending(c)
      /\ Asking(c)' = Asking(c) /\ ChanOf(c)' = ChanOf(c)
  BY <1>2, <1>5 DEF InCall, InChan, Pending, Asking, ChanOf, Asks
<1>7. OneAnswer(c)' /\ OwnChan(c)'
  BY <1>1, <1>2, <1>5, <1>6 DEF OneAnswer, OwnChan, Asks
<1>8. ASSUME ~race
      PROVE  Sole'
  <2>1. Sole
    BY <1>8 DEF IInv
  <2>2. \A v : Gets(c, v)' = Gets(c, v)
    BY <1>2, <1>5, <1>6 DEF Gets
  <2>3. /\ Claims(c)' = Claims(c) /\ HasFreed(c)' = HasFreed(c) /\ IsFreeing(c)' = IsFreeing(c)
        /\ stage'[c] # "held"
    BY <1>2, <1>5, <2>2 DEF Claims, HasFreed, IsFreeing, FreesBy
  <2> QED
    BY <1>2, <1>4, <2>1, <2>2, <2>3, QuietStep DEF Sole, Live, FreesBy
<1> QED
  BY <1>2, <1>3, <1>4, <1>6, <1>7, <1>8, StaysApart DEF IInv

\* The answer is taken out of the channel, which is still open.
LEMMA ReceivedStep ==
  ASSUME Settings, IInv, NEW c \in Callers, Received(c)
  PROVE  IInv'
<1> DEFINE h == mine[c]
<1>1. OneAnswer(c) /\ OwnChan(c) /\ waits[c] = h /\ h # NoChan /\ stage[c] = "wait"
  BY DEF IInv, OwnChan, Received
<1>2. chans[h].open /\ chans[h].got # <<>> /\ h \in Chans /\ InChan(c) /\ ~Pending(c)
  BY <1>1 DEF Received, OwnChan, OneAnswer, InChan, IInv, Types
<1>3. /\ res' = [res EXCEPT ![c] = Head(chans[h].got)]
      /\ chans' = [chans EXCEPT ![h].got = <<>>] /\ stage' = [stage EXCEPT ![c] = "close"]
      /\ UNCHANGED <<data, wire, back, waits, hand, dead, mine, op, polls, round, timeouts, taking, race>>
  BY <1>2 DEF Received
<1> HIDE DEF h
<1>4. Head(chans[h].got) \in Vals
  BY <1>2 DEF IInv, Types
<1>5. Types'
  <2>1. chans' \in [Chans -> [got : Seq(Vals), open : BOOLEAN]]
    <3>1. chans \in ChanTable /\ <<>> \in Seq(Vals)
      BY DEF IInv, Types, ChanTable
    <3> QED
      BY <1>2, <1>3, <3>1, ChanWritten DEF ChanTable
  <2>2. res' \in [Callers -> Vals \cup {Timeout}]
    <3>1. ASSUME NEW v \in Vals, res' = [res EXCEPT ![c] = v]
          PROVE  res' \in [Callers -> Vals \cup {Timeout}]
      BY <3>1 DEF IInv, Types
    <3> QED
      BY <1>3, <1>4, <3>1
  <2>4. /\ stage' \in [Callers -> {"idle", "ask", "sent", "wait", "close", "held"}]
        /\ \A d \in Callers : stage'[d] # "idle" => round'[d] # 0
    BY <1>1, <1>3 DEF IInv, Types
  <2>3. /\ data' = data /\ wire' = wire /\ back' = back /\ waits' = waits /\ hand' = hand /\ dead' = dead
        /\ mine' = mine /\ op' = op /\ polls' = polls /\ round' = round /\ timeouts' = timeouts
        /\ taking' = taking /\ race' = race
    BY <1>3
  <2> QED
    BY <2>1, <2>2, <2>3, <2>4 DEF IInv, Types
<1>6. \A d \in Callers \ {c} : SameOf(d)
  <2>1. \A d \in Callers \ {c} : waits[d] # h
    BY <1>1 DEF IInv, Apart, ChanOf
  <2> QED
    BY <1>3, <2>1 DEF SameOf, IInv, Types
<1>7. /\ stage'[c] = "close" /\ res'[c] = Head(chans[h].got)
      /\ chans'[waits[c]].open /\ chans'[waits[c]].got = <<>>
  BY <1>1, <1>2, <1>3 DEF IInv, Types
<1>8. ~Pending(c)' /\ ~InChan(c)' /\ ChanOf(c)' = ChanOf(c) /\ Asking(c)' = Asking(c)
  BY <1>2, <1>3, <1>7 DEF Pending, InChan, ChanOf, Asking, Asks
<1>9. OneAnswer(c)' /\ OwnChan(c)'
  BY <1>1, <1>3, <1>7, <1>8 DEF OneAnswer, OwnChan, Asks, InCall
<1>10. ASSUME ~race
       PROVE  Sole'
  <2>1. Sole
    BY <1>10 DEF IInv
  <2>2. \A v : Gets(c, v)' => Gets(c, v)
    BY <1>1, <1>2, <1>7 DEF Gets, InCall
  <2>3. /\ Claims(c)' => Claims(c)
        /\ HasFreed(c)' = HasFreed(c) /\ IsFreeing(c)' = IsFreeing(c) /\ stage'[c] # "held"
    BY <1>1, <1>3, <1>7, <2>2 DEF Claims, HasFreed, IsFreeing, FreesBy
  <2> QED
    BY <1>3, <1>6, <2>1, <2>2, <2>3, QuietStep DEF Sole, Live, FreesBy
<1> QED
  BY <1>3, <1>5, <1>6, <1>8, <1>9, <1>10, StaysApart DEF IInv

LEMMA TimesOutStep ==
  ASSUME Settings, IInv, NEW c \in Callers, TimesOut(c)
  PROVE  IInv'
<1>0. ConnOf(c) = c
  BY OwnConns
<1>1. OneAnswer(c) /\ OwnChan(c) /\ stage[c] = "wait"
  BY DEF IInv, TimesOut
<1>2. /\ res' = [res EXCEPT ![c] = Timeout] /\ stage' = [stage EXCEPT ![c] = "close"]
      /\ UNCHANGED <<data, wire, back, waits, hand, dead, chans, mine, op, polls, round, taking, race>>
  BY DEF TimesOut
<1>3. Types'
  <2>1. timeouts' \in Nat
    BY DEF TimesOut, IInv, Types
  <2>2. \A d \in Callers : stage'[d] # "idle" => round'[d] # 0
    BY <1>1, <1>2 DEF IInv, Types
  <2> QED
    BY <1>2, <2>1, <2>2 DEF IInv, Types
<1>4. \A d \in Callers \ {c} : SameOf(d)
  BY <1>2 DEF SameOf, IInv, Types
<1>5. stage'[c] = "close" /\ res'[c] = Timeout
  BY <1>2 DEF IInv, Types
<1>6. /\ InChan(c)' = InChan(c) /\ Pending(c)' = Pending(c) /\ Asking(c)' = Asking(c) /\ ChanOf(c)' = ChanOf(c)
      /\ ~InCall(c)'
  BY <1>2, <1>5 DEF InCall, InChan, Pending, Asking, ChanOf, Asks
<1>7. Pending(c) => GaveUp(c)'
  <2>1. CASE MaxTimeouts = 0
    <3>1. ~(timeouts < MaxTimeouts)
      BY <2>1 DEF IInv, Types
    <3>2. wire = {} /\ back[c] = <<>>
      BY <1>0, <3>1 DEF TimesOut
    <3> QED
      BY <3>2 DEF Pending, Asking
  <2>2. CASE MaxTimeouts # 0
    BY <1>5, <2>2 DEF GaveUp
  <2> QED
    BY <2>1, <2>2
<1>8. OneAnswer(c)' /\ OwnChan(c)'
  BY <1>1, <1>2, <1>5, <1>6, <1>7 DEF OneAnswer, OwnChan, Asks
<1>9. ASSUME ~race
      PROVE  Sole'
  <2>1. Sole
    BY <1>9 DEF IInv
  <2>2. \A v \in Vals : ~Gets(c, v)'
    BY <1>5, <1>6, ValsDiffer DEF Gets, IInv
  <2>3. ~Claims(c)' /\ HasFreed(c)' = HasFreed(c) /\ IsFreeing(c)' = IsFreeing(c) /\ stage'[c] # "held"
    BY <1>1, <1>2, <1>5, <2>2 DEF Claims, HasFreed, IsFreeing, FreesBy, Vals
  <2> QED
    BY <1>2, <1>4, <2>1, <2>2, <2>3, QuietStep DEF Sole, Live, FreesBy
<1> QED
  BY <1>2, <1>3, <1>4, <1>6, <1>8, <1>9, StaysApart DEF IInv

\* The value was received, or given up: the lock is taken, asked for again, given back or left.
LEMMA AnsweredStep ==
  ASSUME Settings, IInv, NEW c \in Callers, Answered(c)
  PROVE  IInv'
<1> DEFINE w == [act |-> "onSetVal", by |-> c, val |-> LockVal(c), n |-> polls[c], op |-> op[c]]
           f == [act |-> "onSetVal", by |-> c, val |-> Free, n |-> polls[c], op |-> op[c]]
           Message == [act : {"onGetVal", "onSetVal"}, by : Callers, val : Vals, n : Nat, op : {"take", "free"}]
<1>0. ConnOf(c) = c
  BY OwnConns
<1>1. OneAnswer(c) /\ OwnChan(c) /\ stage[c] = "close" /\ waits[c] # NoChan /\ waits[c] \in Chans
  BY DEF IInv, Answered, OwnChan, Types
<1>2. /\ waits' = [waits EXCEPT ![c] = NoChan] /\ chans' = [chans EXCEPT ![waits[c]].open = FALSE]
      /\ mine' = [mine EXCEPT ![c] = NoChan]
      /\ UNCHANGED <<data, back, hand, dead, op, res, round, timeouts, race>>
  BY <1>0, <1>1 DEF Answered, CloseWaitChan
<1>3. /\ w \in Message /\ w.act = "onSetVal" /\ w.by = c /\ w.val # Free
      /\ f \in Message /\ f.act = "onSetVal" /\ f.by = c
  BY ValsDiffer DEF IInv, Types
<1>4. \/ /\ op[c] = "take" /\ res[c] = Free /\ wire' = wire \cup {w} /\ stage' = [stage EXCEPT ![c] = "held"]
         /\ polls' = polls /\ taking' = taking
      \/ /\ op[c] = "take" /\ res[c] # Free /\ res[c] # Timeout /\ wire' = wire
         /\ stage' = [stage EXCEPT ![c] = "ask"] /\ polls' = [polls EXCEPT ![c] = polls[c] + 1] /\ taking' = taking
      \/ /\ op[c] = "take" /\ res[c] # Free /\ wire' = wire
         /\ stage' = [stage EXCEPT ![c] = "idle"] /\ polls' = polls /\ taking' = taking \ {c}
      \/ /\ op[c] # "take" /\ res[c] = LockVal(c) /\ wire' = wire \cup {f}
         /\ stage' = [stage EXCEPT ![c] = "idle"] /\ polls' = polls /\ taking' = taking
      \/ /\ op[c] # "take" /\ res[c] # LockVal(c) /\ wire' = wire
         /\ stage' = [stage EXCEPT ![c] = "idle"] /\ polls' = polls /\ taking' = taking
  <2>1. CASE op[c] = "take"
    BY <2>1 DEF Answered, Takes, TakesIt, Sends
  <2>2. CASE op[c] # "take"
    BY <2>2 DEF Answered, Frees, Sends
  <2> QED
    BY <2>1, <2>2
<1> HIDE DEF w, f
<1>5. Types'
  <2>1. wire' \subseteq Message
    BY <1>3, <1>4 DEF IInv, Types
  <2>2. chans' \in [Chans -> [got : Seq(Vals), open : BOOLEAN]]
    <3>1. chans \in ChanTable
      BY DEF IInv, Types, ChanTable
    <3>2. <<>> \in Seq(Vals)
      OBVIOUS
    <3> QED
      BY <1>1, <1>2, <3>1, <3>2, ChanWritten DEF ChanTable
  <2>3. /\ stage' \in [Callers -> {"idle", "ask", "sent", "wait", "close", "held"}]
        /\ polls' \in [Callers -> Nat] /\ taking' \subseteq Callers
    <3>1. polls' \in [Callers -> Nat]
      <4>1. polls' = polls \/ polls' = [polls EXCEPT ![c] = polls[c] + 1]
        BY <1>4, Zenon
      <4>2. polls \in [Callers -> Nat]
        BY DEF IInv, Types
      <4> QED
        BY <4>1, <4>2
    <3>2. taking' \subseteq Callers
      BY <1>4 DEF IInv, Types
    <3>3. \E s \in {"idle", "ask", "held"} : stage' = [stage EXCEPT ![c] = s]
      BY <1>4
    <3> QED
      BY <3>1, <3>2, <3>3 DEF IInv, Types
  <2>5. \A d \in Callers : stage'[d] # "idle" => round'[d] # 0
    <3>1. \A d \in Callers \ {c} : stage'[d] = stage[d]
      BY <1>4 DEF IInv, Types
    <3>2. /\ \A d \in Callers : stage[d] # "idle" => round[d] # 0
          /\ round' = round /\ stage[c] # "idle"
      BY <1>1, <1>2 DEF IInv, Types
    <3> QED
      BY <3>1, <3>2
  <2>4. waits' \in [Callers -> Chans \cup {NoChan}] /\ mine' \in [Callers -> Chans \cup {NoChan}]
    BY <1>2 DEF IInv, Types
  <2> QED
    BY <1>2, <2>1, <2>2, <2>3, <2>4, <2>5 DEF IInv, Types
<1>6. \A d \in Callers \ {c} : SameOf(d)
  <2>1. \A d \in Callers \ {c} : waits[d] # waits[c]
    BY <1>1 DEF IInv, Apart, ChanOf
  <2>2. \A x \in Chans \ {waits[c]} : chans'[x] = chans[x]
    <3>1. chans \in ChanTable /\ <<>> \in Seq(Vals)
      BY DEF IInv, Types, ChanTable
    <3> QED
      BY <1>1, <1>2, <3>1, ChanWritten
  <2>3. \A d \in Callers \ {c} : \A m : Asks(d, m) \/ FreesBy(d, m) => (m \in wire' <=> m \in wire)
    BY <1>3, <1>4 DEF Asks, FreesBy
  <2>4. \A d \in Callers \ {c} : waits'[d] = waits[d] /\ mine'[d] = mine[d] /\ stage'[d] = stage[d]
    BY <1>2, <1>4 DEF IInv, Types
  <2> QED
    BY <1>2, <2>1, <2>2, <2>3, <2>4 DEF SameOf, IInv, Types
<1>7. /\ waits'[c] = NoChan /\ mine'[c] = NoChan /\ stage'[c] \in {"idle", "ask", "held"}
      /\ back'[c] = back[c] /\ hand'[c] = hand[c] /\ op'[c] = op[c] /\ round'[c] = round[c]
  BY <1>2, <1>4 DEF IInv, Types
<1>8. \A m : Asks(c, m) => (m \in wire' <=> m \in wire)
  BY <1>3, <1>4 DEF Asks
<1>9. Asking(c)' = Asking(c) /\ Pending(c)' = Pending(c) /\ ~InChan(c)' /\ ~InCall(c)'
  BY <1>7, <1>8 DEF Asking, Pending, InChan, InCall, Asks
<1>10. Pending(c) => GaveUp(c)'
  <2>1. HAVE Pending(c)
  <2>2. MaxTimeouts # 0 /\ res[c] = Timeout
    BY <1>1, <2>1 DEF OneAnswer, InCall, GaveUp
  <2>3. round[c] = Rounds
    BY <1>1, <2>2 DEF Settings, IInv, Types
  <2>4. stage'[c] = "idle"
    <3>1. Timeout # Free /\ Timeout # LockVal(c)
      BY ValsDiffer DEF IInv
    <3> QED
      BY <1>4, <2>2, <3>1 DEF IInv, Types
  <2> QED
    BY <1>7, <2>2, <2>3, <2>4 DEF GaveUp
<1>11. OneAnswer(c)' /\ OwnChan(c)' /\ ChanOf(c)' \in {ChanOf(c), NoChan}
  <2>1. OneAnswer(c)'
    BY <1>1, <1>7, <1>8, <1>9, <1>10 DEF OneAnswer, Asks
  <2>2. OwnChan(c)'
    BY <1>7 DEF OwnChan
  <2>3. ChanOf(c)' \in {ChanOf(c), NoChan}
    BY <1>1, <1>7 DEF ChanOf, OwnChan
  <2> QED
    BY <2>1, <2>2, <2>3
<1>12. ASSUME ~race
       PROVE  Sole'
  <2>1. Sole
    BY <1>12 DEF IInv
  <2>2. /\ \A v : ~Gets(c, v)'
        /\ (~Claims(c)' /\ ~IsFreeing(c)') \/ op[c] = "free"
    BY <1>7, <1>9 DEF Gets, Claims, IsFreeing
  <2>3. ~Claims(c)' /\ ~IsFreeing(c)'
    <3>1. op[c] = "free" => stage'[c] = "idle"
      BY <1>4 DEF IInv, Types
    <3> QED
      BY <1>7, <2>2, <3>1 DEF Claims, IsFreeing
  <2>4. \A m \in wire' : m \in wire \/ m.by = c
    BY <1>3, <1>4
  <2>5. CASE op[c] = "take" /\ res[c] = Free
    <3>1. Claims(c)
      BY <1>1, <2>5 DEF Claims, Gets
    <3>2. Live(c) /\ ~HasFreed(c) /\ taking' = taking
      BY <1>4, <2>1, <2>5, <3>1 DEF Live, Sole
    <3>3. ~HasFreed(c)'
      BY <1>3, <1>4, <2>5, <3>2 DEF HasFreed, FreesBy
    <3> QED
      BY <1>2, <1>6, <2>1, <2>2, <2>3, <2>4, <3>2, <3>3, QuietStep DEF HasFreed
  <2>6. CASE op[c] = "take" /\ res[c] # Free
    <3>1. wire' = wire /\ stage'[c] # "held" /\ taking' \in {taking, taking \ {c}}
      BY <1>4, <2>6 DEF IInv, Types
    <3>2. HasFreed(c)' = HasFreed(c)
      BY <3>1 DEF HasFreed, FreesBy
    <3>3. Live(c)' => HasFreed(c) /\ Live(c) /\ data # Free
      BY <2>1, <2>3, <3>1, <3>2 DEF Live, Sole
    <3>4. HasFreed(c)' => data # Free
      BY <2>1, <3>2 DEF Sole
    <3>5. \A m, k \in wire' : FreesBy(c, m) /\ FreesBy(c, k) => m = k
      BY <2>1, <3>1 DEF Sole, FreesBy
    <3> QED
      BY <1>2, <1>6, <2>1, <2>2, <2>3, <2>4, <3>1, <3>3, <3>4, <3>5, QuietStep
  <2>7. CASE op[c] # "take"
    <3>1. IsFreeing(c) /\ taking' = taking /\ stage'[c] # "held"
      BY <1>1, <1>4, <2>7 DEF IsFreeing, IInv, Types
    <3>2. Live(c) /\ ~HasFreed(c)
      BY <2>1, <3>1 DEF Live, Sole
    <3>3. res[c] = LockVal(c) => data # Free
      <4>1. Gets(c, res[c])
        BY <1>1 DEF Gets
      <4> QED
        BY <2>1, <3>1, <4>1, ValsDiffer DEF Sole, IInv
    <3>4. HasFreed(c)' => data # Free
      BY <1>4, <2>7, <3>2, <3>3 DEF HasFreed, FreesBy
    <3>5. \A m \in wire' : FreesBy(c, m) => m = f
      BY <1>4, <2>7, <3>2 DEF HasFreed, FreesBy
    <3> QED
      BY <1>2, <1>6, <2>1, <2>2, <2>3, <2>4, <3>1, <3>2, <3>4, <3>5, QuietStep
  <2> QED
    BY <2>5, <2>6, <2>7
<1> QED
  BY <1>2, <1>5, <1>6, <1>11, <1>12, StaysApart DEF IInv

-----------------------------------------------------------------------------
\* The steps of a connection and of the server.
LEMMA EmptyTail ==
  ASSUME NEW s \in Seq(Vals), s # <<>>, Len(s) <= 1
  PROVE  Tail(s) = <<>> /\ Head(s) \in Vals
OBVIOUS

LEMMA LookUpStep ==
  ASSUME Settings, IInv, NEW c \in Callers, LookUp(c)
  PROVE  IInv'
<1>1. OneAnswer(c) /\ OwnChan(c) /\ back[c] # <<>> /\ hand[c] = NoChan
  BY DEF IInv, LookUp
<1>2. /\ hand' = [hand EXCEPT ![c] = waits[c]]
      /\ UNCHANGED <<data, wire, waits, dead, chans, mine, stage, op, res, polls, round, timeouts, taking, race>>
      /\ back' = back \/ (waits[c] = NoChan /\ back' = [back EXCEPT ![c] = <<>>])
  <2>1. Tail(back[c]) = <<>>
    BY <1>1, EmptyTail DEF IInv, Types, OneAnswer
  <2>2. back' = back \/ (waits[c] = NoChan /\ back' = [back EXCEPT ![c] = Tail(back[c])])
    BY DEF LookUp
  <2>3. back' = back \/ (waits[c] = NoChan /\ back' = [back EXCEPT ![c] = <<>>])
    BY <2>1, <2>2
  <2> QED
    BY <2>3 DEF LookUp
<1>3. Types'
  <2>1. back' \in [Callers -> Seq(Vals)] /\ hand' \in [Callers -> Chans \cup {NoChan}]
    <3>1. /\ back \in [Callers -> Seq(Vals)] /\ <<>> \in Seq(Vals)
          /\ waits \in [Callers -> Chans \cup {NoChan}] /\ hand \in [Callers -> Chans \cup {NoChan}]
      BY DEF IInv, Types
    <3>2. back' \in [Callers -> Seq(Vals)]
      BY <1>2, <3>1
    <3>3. hand' \in [Callers -> Chans \cup {NoChan}]
      BY <1>2, <3>1
    <3> QED
      BY <3>2, <3>3
  <2>2. UNCHANGED <<data, wire, waits, dead, chans, mine, stage, op, res, polls, round, timeouts, taking, race>>
    BY <1>2
  <2>3. Types
    BY DEF IInv
  <2> QED
    BY <2>1, <2>2, <2>3 DEF Types
<1>4. \A d \in Callers \ {c} : SameOf(d)
  BY <1>2 DEF SameOf, IInv, Types
<1>5. hand'[c] = waits[c] /\ (back'[c] = back[c] \/ (waits[c] = NoChan /\ back'[c] = <<>>))
  BY <1>2 DEF IInv, Types
<1>6. /\ InCall(c)' = InCall(c) /\ InChan(c)' = InChan(c) /\ Asking(c)' = Asking(c) /\ GaveUp(c)' = GaveUp(c)
      /\ Pending(c)' => Pending(c)
  BY <1>1, <1>2, <1>5 DEF InCall, InChan, Asking, GaveUp, Pending, Asks
<1>7. OneAnswer(c)' /\ OwnChan(c)' /\ ChanOf(c)' \in {ChanOf(c), NoChan}
  <2>1. OneAnswer(c)'
    <3>1. hand'[c] # NoChan => back'[c] # <<>>
      BY <1>1, <1>5
    <3>2. Len(back'[c]) <= 1
      BY <1>1, <1>5 DEF OneAnswer
    <3>3. Asking(c)' => back'[c] = <<>>
      BY <1>1, <1>5, <1>6 DEF OneAnswer
    <3> QED
      BY <1>1, <1>2, <1>6, <3>1, <3>2, <3>3 DEF OneAnswer, Asks
  <2>2. OwnChan(c)' /\ ChanOf(c)' \in {ChanOf(c), NoChan}
    BY <1>1, <1>2, <1>5 DEF OwnChan, ChanOf
  <2> QED
    BY <2>1, <2>2
<1>8. ASSUME ~race
      PROVE  Sole'
  <2>1. Sole
    BY <1>8 DEF IInv
  <2>2. \A v : Gets(c, v)' => Gets(c, v)
    BY <1>2, <1>5, <1>6 DEF Gets
  <2>3. /\ Claims(c)' => Claims(c)
        /\ HasFreed(c)' = HasFreed(c) /\ IsFreeing(c)' = IsFreeing(c) /\ stage'[c] = stage[c]
    BY <1>2, <2>2 DEF Claims, HasFreed, IsFreeing, FreesBy
  <2> QED
    BY <1>2, <1>4, <2>1, <2>2, <2>3, QuietStep DEF Sole, Live, FreesBy
<1> QED
  BY <1>2, <1>3, <1>4, <1>7, <1>8, StaysApart DEF IInv

\* The answer of a caller who waits goes into its channel.
LEMMA PutStep ==
  ASSUME Settings, IInv, NEW c \in Callers, Put(c)
  PROVE  IInv'
<1> DEFINE h == hand[c]
           g == <<Head(back[c])>>
<1>1. OneAnswer(c) /\ OwnChan(c) /\ h # NoChan /\ h \in Chans /\ back[c] # <<>> /\ Pending(c) /\ ~InChan(c)
  BY DEF IInv, Put, OneAnswer, Types, Pending
<1>2. waits[c] = h \/ waits[c] = NoChan
  BY <1>1 DEF OwnChan
<1>3. Tail(back[c]) = <<>> /\ Head(back[c]) \in Vals
  BY <1>1, EmptyTail DEF IInv, Types, OneAnswer
<1>4. /\ hand' = [hand EXCEPT ![c] = NoChan] /\ back' = [back EXCEPT ![c] = <<>>]
      /\ UNCHANGED <<data, wire, mine, stage, op, res, polls, round, timeouts, taking, race>>
  BY <1>3 DEF Put
<1>5. waits[c] = h => stage[c] \in {"sent", "wait", "close"} /\ chans[h].open /\ chans[h].got = <<>>
  BY <1>1 DEF OwnChan, InChan, IInv, Types
<1>6. /\ waits' = waits
      /\ \/ chans' = chans /\ waits[c] = NoChan
         \/ chans' = [chans EXCEPT ![h].got = g]
      /\ dead' \subseteq dead \cup {c}
  <2>1. CASE waits[c] = h
    <3>1. chans' = [chans EXCEPT ![h].got = g] /\ waits' = waits /\ dead' = dead
      BY <1>5, <2>1 DEF Put
    <3> QED
      BY <3>1
  <2>2. CASE waits[c] = NoChan
    <3>1. waits' = waits
      <4>1. [waits EXCEPT ![c] = NoChan] = waits
        BY <2>2 DEF IInv, Types
      <4> QED
        BY <4>1 DEF Put
    <3>2. chans' = chans \/ chans' = [chans EXCEPT ![h].got = g]
      BY <2>2 DEF Put
    <3>3. dead' \subseteq dead \cup {c}
      BY DEF Put
    <3> QED
      BY <2>2, <3>1, <3>2, <3>3
  <2> QED
    BY <1>2, <2>1, <2>2
<1> HIDE DEF h
<1>7. g \in Seq(Vals) /\ g # <<>> /\ Head(g) = Head(back[c])
  BY <1>3
<1> HIDE DEF g
<1>8. /\ chans' \in ChanTable /\ \A x \in Chans \ {h} : chans'[x] = chans[x]
      /\ waits[c] = h => chans'[h].open /\ chans'[h].got # <<>> /\ Head(chans'[h].got) = Head(back[c])
  <2>1. chans \in ChanTable
    BY DEF IInv, Types, ChanTable
  <2>2. CASE chans' = [chans EXCEPT ![h].got = g]
    <3>1. /\ chans' \in ChanTable /\ chans'[h].got = g /\ chans'[h].open = chans[h].open
          /\ \A x \in Chans \ {h} : chans'[x] = chans[x]
      <4>1. PICK v \in Seq(Vals) : v = g
        BY <1>7
      <4>2. h \in Chans /\ chans' = [chans EXCEPT ![h].got = v]
        BY <1>1, <2>2, <4>1
      <4> QED
        BY <2>1, <4>1, <4>2 DEF ChanTable
    <3> QED
      BY <1>5, <1>7, <3>1
  <2>3. CASE chans' = chans /\ waits[c] = NoChan
    BY <1>1, <2>1, <2>3
  <2> QED
    BY <1>6, <2>2, <2>3
<1>9. Types'
  <2>1. back' \in [Callers -> Seq(Vals)] /\ hand' \in [Callers -> Chans \cup {NoChan}] /\ dead' \subseteq Callers
    BY <1>4, <1>6 DEF IInv, Types
  <2> QED
    BY <1>4, <1>6, <1>8, <2>1 DEF IInv, Types, ChanTable
<1>10. \A d \in Callers \ {c} : SameOf(d)
  <2>1. \A d \in Callers \ {c} : waits[d] # NoChan => waits[d] \in Chans \ {h}
    <3>1. ChanOf(c) = h /\ h # NoChan
      BY <1>1, <1>2 DEF ChanOf, h
    <3>2. \A d \in Callers \ {c} : waits[d] # h
      BY <3>1 DEF IInv, Apart, ChanOf
    <3> QED
      BY <3>2 DEF IInv, Types
  <2>2. \A d \in Callers \ {c} : hand'[d] = hand[d] /\ back'[d] = back[d]
    BY <1>4 DEF IInv, Types
  <2> QED
    BY <1>4, <1>6, <1>8, <2>1, <2>2 DEF SameOf
<1>11. hand'[c] = NoChan /\ back'[c] = <<>> /\ waits'[c] = waits[c] /\ mine'[c] = mine[c]
  BY <1>4, <1>6 DEF IInv, Types
<1>12. ~Pending(c)' /\ InCall(c)' = InCall(c) /\ ~Asking(c) /\ Asking(c)' = Asking(c)
  BY <1>1, <1>4, <1>11 DEF Pending, InCall, Asking, Asks, OneAnswer
<1>13. OneAnswer(c)' /\ OwnChan(c)' /\ ChanOf(c)' \in {ChanOf(c), NoChan}
  <2>1. OneAnswer(c)'
    BY <1>11, <1>12 DEF OneAnswer, Asking
  <2>2. OwnChan(c)'
    BY <1>1, <1>2, <1>4, <1>8, <1>11 DEF OwnChan
  <2>3. ChanOf(c)' \in {ChanOf(c), NoChan}
    BY <1>11 DEF ChanOf
  <2> QED
    BY <2>1, <2>2, <2>3
<1>14. ASSUME ~race
       PROVE  Sole'
  <2>1. Sole
    BY <1>14 DEF IInv
  <2>2. \A v : Gets(c, v)' => Gets(c, v)
    <3>1. InCall(c) => waits[c] = h
      BY <1>1, <1>2 DEF InCall, OwnChan
    <3> QED
      BY <1>1, <1>4, <1>8, <1>11, <1>12, <3>1 DEF Gets, InChan
  <2>3. /\ Claims(c)' => Claims(c)
        /\ HasFreed(c)' = HasFreed(c) /\ IsFreeing(c)' = IsFreeing(c) /\ stage'[c] = stage[c]
    BY <1>4, <2>2 DEF Claims, HasFreed, IsFreeing, FreesBy
  <2> QED
    BY <1>4, <1>10, <2>1, <2>2, <2>3, QuietStep DEF Sole, Live, FreesBy
<1> QED
  BY <1>4, <1>9, <1>10, <1>13, <1>14, StaysApart DEF IInv

\* The server answers, and the caller asked for the lock and is told that it is free, or not.
LEMMA ServerGetValStep ==
  ASSUME Settings, IInv, NEW m \in wire, wire' = wire \ {m}, ServerGetVal(m),
         UNCHANGED <<waits, hand, dead, chans, mine, stage, op, res, polls, round, timeouts>>
  PROVE  IInv'
<1> DEFINE c == m.by
           told == m.op = "take" /\ data = Free
<1>1. c \in Callers /\ OneAnswer(c) /\ OwnChan(c) /\ Asks(c, m) /\ data \in Vals
  BY DEF IInv, Types, ServerGetVal, Asks
<1>2. Asking(c) /\ Pending(c) /\ back[c] = <<>> /\ ~InChan(c) /\ (InCall(c) \/ GaveUp(c)) /\ (InCall(c) => m.op = op[c])
  <2>1. Asking(c)
    BY <1>1 DEF Asking
  <2> QED
    BY <1>1, <2>1 DEF OneAnswer, Pending
<1>3. back' = [back EXCEPT ![c] = <<data>>] /\ data' = data
  <2>1. Append(back[c], data) = <<data>>
    BY <1>1, <1>2
  <2>2. ConnOf(m.by) = c
    BY <1>1, OwnConns
  <2> QED
    BY <2>1, <2>2 DEF ServerGetVal
<1>4. race' = (race \/ (told /\ taking \ {c} # {})) /\ taking' = IF told THEN taking \cup {c} ELSE taking
  BY DEF ServerGetVal
<1> HIDE DEF c
<1>5. Types'
  <2>1. Types
    BY DEF IInv
  <2>2. back' \in [Callers -> Seq(Vals)]
    BY <1>1, <1>3, <2>1 DEF Types
  <2>3. taking' \subseteq Callers /\ race' \in BOOLEAN
    BY <1>1, <1>4, <2>1 DEF Types
  <2> QED
    BY <1>3, <2>1, <2>2, <2>3 DEF Types
<1>6. \A d \in Callers \ {c} : SameOf(d)
  <2>1. \A d \in Callers \ {c} : back'[d] = back[d]
    BY <1>1, <1>3 DEF IInv, Types
  <2>2. \A d \in Callers \ {c} : \A k : Asks(d, k) \/ FreesBy(d, k) => (k \in wire' <=> k \in wire)
    BY DEF Asks, FreesBy, c
  <2> QED
    BY <2>1, <2>2 DEF SameOf
<1>7. back'[c] = <<data>> /\ back'[c] # <<>> /\ Len(back'[c]) = 1 /\ Head(back'[c]) = data
  BY <1>1, <1>3 DEF IInv, Types
<1>8. ~Asking(c)' /\ InCall(c)' = InCall(c) /\ InChan(c)' = InChan(c) /\ GaveUp(c)' = GaveUp(c)
  <2>1. ~Asking(c)'
    BY <1>1 DEF Asking, OneAnswer, Asks
  <2> QED
    BY <2>1 DEF InCall, InChan, GaveUp
<1>9. OneAnswer(c)' /\ OwnChan(c)' /\ ChanOf(c)' = ChanOf(c)
  <2>1. OneAnswer(c)'
    BY <1>2, <1>7, <1>8 DEF OneAnswer, Asking
  <2> QED
    BY <1>1, <2>1 DEF OwnChan, ChanOf
<1>10. ASSUME ~race'
       PROVE  Sole'
  <2>1. Sole /\ (told => taking \subseteq {c})
    BY <1>4, <1>10 DEF IInv
  <2>2. \A v : Gets(c, v)' => Gets(c, v) \/ (InCall(c) /\ v = data)
    BY <1>2, <1>7, <1>8 DEF Gets
  <2>3. HasFreed(c)' = HasFreed(c) /\ IsFreeing(c)' = IsFreeing(c) /\ stage'[c] = stage[c] /\ op'[c] = op[c]
    <3>1. HasFreed(c)' = HasFreed(c)
      BY DEF HasFreed, FreesBy, ServerGetVal
    <3> QED
      BY <3>1 DEF IsFreeing
  <2>4. \A d \in Callers \ {c} :
          /\ Live(d)' = Live(d) /\ HasFreed(d)' = HasFreed(d) /\ Claims(d)' = Claims(d)
          /\ IsFreeing(d)' = IsFreeing(d) /\ stage'[d] = stage[d] /\ \A v : Gets(d, v)' = Gets(d, v)
    BY <1>6, SameViews DEF SameOf
  <2>5. \A v \in Vals : IsFreeing(c)' /\ Gets(c, v)' /\ v # Free => data # Free
    BY <1>1, <2>1, <2>2, <2>3 DEF Sole
  <2>6. \A k, l \in wire' : FreesBy(k.by, k) /\ FreesBy(k.by, l) => k = l
    BY <2>1 DEF Sole
  <2>7. \A d \in Callers : \A v \in Vals : IsFreeing(d)' /\ Gets(d, v)' /\ v # Free => data' # Free
    BY <1>3, <2>1, <2>4, <2>5 DEF Sole
  <2>8. CASE told
    <3>1. \A d \in Callers : Live(d)' => d = c
      BY <2>1, <2>4, <2>8 DEF Sole
    <3>2. \A d \in Callers : ~HasFreed(d)'
      BY <2>1, <2>3, <2>4, <2>8 DEF Sole
    <3>3. \A d \in Callers : Live(d)' => data' # Free \/ d \in taking'
      BY <1>4, <2>8, <3>1
    <3> QED
      BY <2>6, <2>7, <3>1, <3>2, <3>3 DEF Sole, FreesBy
  <2>9. CASE ~told
    <3>1. Claims(c)' => Claims(c)
      <4>1. InCall(c) /\ op[c] = "take" => data # Free
        BY <1>2, <2>9
      <4> QED
        BY <2>2, <2>3, <4>1 DEF Claims
    <3>2. \A d \in Callers : Live(d)' => Live(d)
      BY <2>3, <2>4, <3>1 DEF Live
    <3>3. \A d \in Callers : HasFreed(d)' => data' # Free /\ ~Claims(d)' /\ ~IsFreeing(d)' /\ stage'[d] # "held"
      BY <1>3, <2>1, <2>3, <2>4, <3>1 DEF Sole
    <3>4. \A d \in Callers : Live(d)' => data' # Free \/ d \in taking'
      BY <1>3, <1>4, <2>1, <2>9, <3>2 DEF Sole
    <3>5. \A b, d \in Callers : Live(b)' /\ Live(d)' => b = d
      BY <2>1, <3>2 DEF Sole
    <3> QED
      BY <2>6, <2>7, <3>3, <3>4, <3>5 DEF Sole, FreesBy
  <2> QED
    BY <2>8, <2>9
<1> QED
  BY <1>1, <1>5, <1>6, <1>9, <1>10, StaysApart DEF IInv

\* The server stores a value, or the lock is free again.
LEMMA ServerSetValStep ==
  ASSUME Settings, IInv, NEW m \in wire, wire' = wire \ {m}, ServerSetVal(m),
         UNCHANGED <<waits, hand, dead, chans, mine, stage, op, res, polls, round, timeouts>>
  PROVE  IInv'
<1> DEFINE c == m.by
<1>1. c \in Callers /\ m.act = "onSetVal" /\ m.val \in Vals
  BY DEF IInv, Types, ServerSetVal
<1>2. data' = m.val /\ taking' = taking \ {c} /\ back' = back /\ race' = race
  BY DEF ServerSetVal
<1>3. Types'
  <2>1. Types
    BY DEF IInv
  <2> QED
    BY <1>1, <1>2, <2>1 DEF Types
<1>4. \A d \in Callers \ {c} : SameOf(d)
  BY <1>2 DEF SameOf, Asks, FreesBy
<1>5. \A k : Asks(c, k) => (k \in wire' <=> k \in wire)
  BY <1>1 DEF Asks
<1>6. /\ Asking(c)' = Asking(c) /\ Pending(c)' = Pending(c) /\ InCall(c)' = InCall(c) /\ InChan(c)' = InChan(c)
      /\ GaveUp(c)' = GaveUp(c) /\ \A v : Gets(c, v)' = Gets(c, v)
  <2>1. Asking(c)' = Asking(c)
    BY <1>5 DEF Asking, Asks
  <2>2. InCall(c)' = InCall(c) /\ InChan(c)' = InChan(c) /\ GaveUp(c)' = GaveUp(c)
    BY DEF InCall, InChan, GaveUp
  <2> QED
    BY <1>2, <2>1, <2>2 DEF Pending, Gets
<1>7. OneAnswer(c)' /\ OwnChan(c)' /\ ChanOf(c)' = ChanOf(c)
  <2>1. OneAnswer(c)'
    BY <1>1, <1>2, <1>5, <1>6 DEF IInv, OneAnswer, Asks
  <2> QED
    BY <1>1, <2>1 DEF IInv, OwnChan, ChanOf
<1>8. ASSUME ~race'
      PROVE  Sole'
  <2>1. Sole
    BY <1>2, <1>8 DEF IInv
  <2>2. \A d \in Callers : /\ Claims(d)' = Claims(d) /\ IsFreeing(d)' = IsFreeing(d) /\ stage'[d] = stage[d]
                           /\ HasFreed(d)' => HasFreed(d)
    <3>1. \A d \in Callers \ {c} : Claims(d)' = Claims(d) /\ IsFreeing(d)' = IsFreeing(d)
      BY <1>4, SameViews
    <3>2. Claims(c)' = Claims(c) /\ IsFreeing(c)' = IsFreeing(c)
      BY <1>6 DEF Claims, IsFreeing
    <3> QED
      BY <3>1, <3>2 DEF HasFreed, FreesBy
  <2>3. \A d \in Callers : Live(d)' => Live(d)
    BY <2>2 DEF Live
  <2>4. \A b, d \in Callers : Live(b)' /\ Live(d)' => b = d
    BY <2>1, <2>3 DEF Sole
  <2>5. \A k, l \in wire' : FreesBy(k.by, k) /\ FreesBy(k.by, l) => k = l
    BY <2>1 DEF Sole
  <2>6. CASE m.val = Free
    <3>1. FreesBy(c, m) /\ HasFreed(c)
      BY <1>1, <2>6 DEF FreesBy, HasFreed
    <3>2. ~HasFreed(c)'
      BY <2>1, <3>1 DEF Sole, HasFreed, FreesBy
    <3>3. ~Live(c)'
      BY <1>1, <2>1, <2>2, <3>1, <3>2 DEF Live, Sole
    <3>4. \A d \in Callers : ~Live(d)'
      BY <1>1, <2>1, <2>3, <3>1, <3>3 DEF Sole, Live
    <3> QED
      BY <2>5, <3>4 DEF Sole, Live, FreesBy
  <2>7. CASE m.val # Free
    BY <1>2, <2>1, <2>2, <2>4, <2>5, <2>7 DEF Sole, FreesBy
  <2> QED
    BY <2>6, <2>7
<1> QED
  BY <1>1, <1>3, <1>4, <1>7, <1>8, StaysApart DEF IInv

-----------------------------------------------------------------------------
LEMMA InitIInv == ASSUME Settings, Init PROVE IInv
<1>1. Types
  <2>1. Free \in Vals /\ <<>> \in Seq(Vals) /\ 0 \in 0 .. Rounds
    BY DEF Settings, Vals
  <2>2. /\ data \in Vals /\ dead = {} /\ taking = {} /\ race = FALSE /\ timeouts = 0 /\ wire = {}
        /\ round = [c \in Callers |-> 0] /\ polls = [c \in Callers |-> 0] /\ res = [c \in Callers |-> Free]
        /\ back = [c \in Callers |-> <<>>] /\ waits = [c \in Callers |-> NoChan] /\ hand = [c \in Callers |-> NoChan]
        /\ mine = [c \in Callers |-> NoChan] /\ stage = [c \in Callers |-> "idle"] /\ op = [c \in Callers |-> "take"]
        /\ chans = [h \in Chans |-> [got |-> <<>>, open |-> FALSE]]
    BY <2>1, OwnConns DEF Init
  <2>3. chans \in [Chans -> [got : Seq(Vals), open : BOOLEAN]]
    BY <2>1, <2>2
  <2>4. res \in [Callers -> Vals \cup {Timeout}]
    BY <2>1, <2>2
  <2>5. back \in [Callers -> Seq(Vals)]
    BY <2>1, <2>2
  <2> QED
    BY <2>1, <2>2, <2>3, <2>4, <2>5 DEF Types
<1>2. /\ wire = {} /\ taking = {} /\ \A c \in Callers : /\ back[c] = <<>> /\ waits[c] = NoChan /\ hand[c] = NoChan
                                                          /\ mine[c] = NoChan /\ stage[c] = "idle"
  BY OwnConns DEF Init
<1>3. \A c \in Callers : /\ ~Asking(c) /\ ~Pending(c) /\ ~InChan(c) /\ ~InCall(c) /\ ~HasFreed(c) /\ ~Live(c)
                         /\ ~Claims(c) /\ ~IsFreeing(c) /\ ChanOf(c) = NoChan
  <2>1. \A c \in Callers : ~Asking(c) /\ ~Pending(c) /\ ~InChan(c) /\ ~InCall(c) /\ ~HasFreed(c) /\ ChanOf(c) = NoChan
    BY <1>2 DEF Asking, Pending, InChan, InCall, HasFreed, ChanOf
  <2>2. \A c \in Callers : ~Claims(c) /\ ~IsFreeing(c)
    BY <1>2, <2>1 DEF Claims, Gets, IsFreeing
  <2> QED
    BY <1>2, <2>1, <2>2 DEF Live
<1>4. \A c \in Callers : OneAnswer(c) /\ OwnChan(c)
  BY <1>2, <1>3 DEF OneAnswer, OwnChan
<1>5. Apart
  BY <1>3 DEF Apart
<1>6. Sole
  BY <1>2, <1>3 DEF Sole
<1> QED
  BY <1>1, <1>4, <1>5, <1>6 DEF IInv

LEMMA NextIInv == ASSUME Settings, IInv, [Next]_vars PROVE IInv'
<1>1. CASE \E m \in wire : /\ wire' = wire \ {m} /\ (ServerGetVal(m) \/ ServerSetVal(m))
                          /\ UNCHANGED <<waits, hand, dead, chans, mine, stage, op, res, polls, round, timeouts>>
  BY <1>1, ServerGetValStep, ServerSetValStep
<1>2. ASSUME NEW n \in Conns, LookUp(n) \/ Put(n)
      PROVE  IInv'
  BY <1>2, OwnConns, LookUpStep, PutStep
<1>3. ASSUME NEW c \in Callers, Call(c) \/ Step(c)
      PROVE  IInv'
  BY <1>3, GetNetLockStep, DelNetLockStep, TimesOutStep, GetValStep, GetWaitChanStep, ReceivedStep, AnsweredStep
     DEF Call, Step
<1>4. CASE UNCHANGED vars
  <2>1. Types'
    BY <1>4 DEF IInv, Types, vars
  <2>2. \A d \in Callers : SameOf(d)
    BY <1>4 DEF SameOf, vars
  <2>3. \A d \in Callers : OneAnswer(d)' /\ OwnChan(d)' /\ ChanOf(d)' = ChanOf(d)
    BY <2>2, SameViews, SameStays DEF IInv
  <2>4. Apart'
    BY <2>3 DEF IInv, Apart
  <2>5. ASSUME ~race
        PROVE  Sole'
    <3>1. \A d \in Callers :
            /\ Live(d)' = Live(d) /\ HasFreed(d)' = HasFreed(d) /\ Claims(d)' = Claims(d)
            /\ IsFreeing(d)' = IsFreeing(d) /\ stage'[d] = stage[d] /\ \A v : Gets(d, v)' = Gets(d, v)
      BY <2>2, SameViews DEF SameOf
    <3> QED
      BY <1>4, <2>5, <3>1 DEF IInv, Sole, FreesBy, vars
  <2> QED
    BY <1>4, <2>1, <2>3, <2>4, <2>5 DEF IInv, vars
<1> QED
  BY <1>1, <1>2, <1>3, <1>4 DEF Next, Serve, Handle

(* The lock is held by one caller at most unless two were told at once that it *)
(* is free: answers go to the callers they are for, each caller's in a channel *)
(* no other has, and of those told "free", holding the lock, or giving it back *)
(* (with the message to the server still under way) there is one (banio.go).   *)
THEOREM LockInvariant == Settings => (Spec => []IInv)
<1>1. Settings /\ Init => IInv
  BY InitIInv
<1>2. Settings /\ IInv /\ [Next]_vars => IInv'
  BY NextIInv
<1> HIDE DEF Settings, IInv, Init, Next, vars
<1>3. ASSUME Settings PROVE Spec => []IInv
  <2>1. Init => IInv
    BY <1>1, <1>3
  <2>2. IInv /\ [Next]_vars => IInv'
    BY <1>2, <1>3
  <2> QED
    BY <2>1, <2>2, PTL DEF Spec
<1> QED
  BY <1>3

LEMMA SoleHolder == ASSUME Settings, IInv PROVE Exclusive
<1> DEFINE H == {c \in Callers : stage[c] = "held"}
<1>1. ASSUME ~race
      PROVE  Cardinality(H) <= 1
  <2>1. \A c, d \in H : c = d
    BY <1>1 DEF IInv, Sole, Live
  <2>2. CASE H = {}
    BY <2>2, FS_EmptySet
  <2>3. CASE H # {}
    <3>1. PICK c \in H : TRUE
      BY <2>3
    <3>2. H = {c}
      BY <2>1, <3>1
    <3>3. Cardinality(H) = 1
      BY <3>2, FS_Singleton
    <3> QED
      BY <3>3
  <2> QED
    BY <2>2, <2>3
<1> QED
  BY <1>1 DEF Exclusive

\* GetNetLock and DelNetLock: as long as no two are told at once, one caller at most has the lock.
THEOREM OneHolder == Settings => (Spec => []Exclusive)
<1>1. ASSUME Settings PROVE Spec => []Exclusive
  <2>1. IInv => Exclusive
    BY <1>1, SoleHolder
  <2>2. Spec => []IInv
    BY <1>1, LockInvariant
  <2> QED
    BY <2>1, <2>2, PTL
<1> QED
  BY <1>1
=============================================================================
