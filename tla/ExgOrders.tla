----------------------------- MODULE ExgOrders -----------------------------
(* The orders of an account, downloaded from the exchange and kept in a file  *)
(* (biz/tools.go ExgOrderSet): only what the file lacks of a range is fetched, *)
(* page by page, for one pair after the other; the file is written once, at   *)
(* the end.  Orders go on being made meanwhile.                               *)
EXTENDS Integers, Sequences, FiniteSets, FiniteSetsExt, SequencesExt, TLC
CONSTANTS
  Pairs,
  MaxTime, MaxOrders,  \* of all pairs
  Limit,     \* orders in a page
  Delay,     \* what was made in the last minute is left for later
  Back,      \* the exchange answers for a year
  MaxAsks
VARIABLES
  now,
  made,      \* [Pairs -> sequence of stamps]; the exchange's orders, numbered
  file,      \* [Pairs -> [start, end, orders]] on disk; orders holds their numbers
  data,      \* the same, in memory
  req,       \* [start, end, force] as asked
  left,      \* pairs still to be looked at
  ranges,    \* downloadRanges of the first of them
  offset,    \* offsetMS
  phase,     \* "idle", "pair", "page", "save"
  asks
vars == <<now, made, file, data, req, left, ranges, offset, phase, asks>>

Nothing == [start |-> 0, end |-> 0, orders |-> <<>>]
NoReq == [start |-> 0, end |-> 0, force |-> FALSE]
AtMost(a, b) == IF a < b THEN a ELSE b
AtLeast(a, b) == IF a > b THEN a ELSE b
Init ==
  /\ now = 1 /\ made = [p \in Pairs |-> <<>>]
  /\ file = [p \in Pairs |-> Nothing] /\ data = file
  /\ req = NoReq /\ left = <<>> /\ ranges = <<>> /\ offset = 0 /\ phase = "idle" /\ asks = 0

(* The exchange *)
Tick == now < MaxTime /\ now' = now + 1 /\ UNCHANGED <<made, file, data, req, left, ranges, offset, phase, asks>>
Made == FoldFunctionOnSet(LAMBDA s, n : n + Len(s), 0, made, Pairs)
Trade ==
  /\ Made < MaxOrders /\ \E p \in Pairs : made' = [made EXCEPT ![p] = Append(@, now)]
  /\ UNCHANGED <<now, file, data, req, left, ranges, offset, phase, asks>>
\* FetchOrders: at most Limit orders since a stamp, in their order.
FetchOrders(p, since) ==
  LET all == SelectSeq([i \in DOMAIN made[p] |-> i], LAMBDA i : made[p][i] >= since)
  IN SubSeq(all, 1, AtMost(Limit, Len(all)))
-----------------------------------------------------------------------------
(* GetExgOrderSet and the beginning of Download. *)
Orders == SetToSeq(Pairs)
EndOf(end) == AtMost(now - Delay, end)
Download ==
  /\ phase = "idle" /\ asks < MaxAsks /\ asks' = asks + 1
  /\ \E start \in 1 .. MaxTime, end \in 2 .. MaxTime + 1, force \in BOOLEAN :
       /\ start < end
       /\ req' = [start |-> AtLeast(start, now - Back), end |-> EndOf(end), force |-> force]
  /\ data' = file /\ left' = Orders /\ phase' = "pair"
  /\ UNCHANGED <<now, made, file, ranges, offset>>

Pair == Head(left)
Old == data[Pair]
StampOf(p, i) == made[p][i]
\* With force the range is that of the orders, not that of the requests.
Held(old) ==
  IF req.force /\ old.orders # <<>>
  THEN [start |-> StampOf(Pair, Head(old.orders)), end |-> StampOf(Pair, Last(old.orders)) + 1]
  ELSE [start |-> old.start, end |-> old.end]
DownloadRanges(held) ==
  IF held.start = 0 THEN <<<<req.start, req.end>>>>
  ELSE (IF req.start < held.start THEN <<<<req.start, held.start>>>> ELSE <<>>)
       \o (IF req.end > held.end THEN <<<<held.end, req.end>>>> ELSE <<>>)
Begin(rs) == IF rs = <<>> THEN 0 ELSE Head(rs)[1]
LookAtPair ==
  /\ phase = "pair" /\ left # <<>>
  /\ LET rs == DownloadRanges(Held(Old))
     IN IF rs = <<>> THEN left' = Tail(left) /\ UNCHANGED <<ranges, offset, phase>>
        ELSE ranges' = rs /\ offset' = Begin(rs) /\ phase' = "page" /\ UNCHANGED left
  /\ UNCHANGED <<now, made, file, data, req, asks>>

NextRange == ranges' = Tail(ranges) /\ offset' = Begin(Tail(ranges))
\* A page may reach past the range: its orders are added all the same.
Page ==
  /\ phase = "page" /\ ranges # <<>>
  /\ LET new == FetchOrders(Pair, offset)
         after == StampOf(Pair, Last(new)) + 1
     IN IF offset >= Head(ranges)[2] \/ new = <<>> THEN NextRange /\ UNCHANGED data
        ELSE /\ data' = [data EXCEPT ![Pair].orders = @ \o new]
             /\ IF Len(new) < Limit THEN NextRange ELSE offset' = after /\ UNCHANGED ranges
  /\ UNCHANGED <<now, made, file, req, left, phase, asks>>
\* An error ends the download: nothing is written, of no pair.
PageFails ==
  /\ phase = "page" /\ ranges # <<>> /\ phase' = "idle"
  /\ data' = [p \in Pairs |-> Nothing] /\ left' = <<>> /\ ranges' = <<>> /\ offset' = 0
  /\ UNCHANGED <<now, made, file, req, asks>>

Sorted(p, s) == SortSeq(s, LAMBDA i, j : StampOf(p, i) < StampOf(p, j))
PairDone ==
  /\ phase = "page" /\ ranges = <<>> /\ phase' = "pair" /\ left' = Tail(left)
  /\ data' = [data EXCEPT ![Pair] =
       [start |-> IF Old.start = 0 \/ Old.start > req.start THEN req.start ELSE Old.start,
        end |-> AtLeast(Old.end, req.end), orders |-> Sorted(Pair, Old.orders)]]
  /\ UNCHANGED <<now, made, file, req, ranges, offset, asks>>
Save ==
  /\ phase = "pair" /\ left = <<>> /\ phase' = "idle" /\ file' = data
  /\ UNCHANGED <<now, made, data, req, left, ranges, offset, asks>>
\* Killed as it writes: what cannot be decoded is an empty set.
SaveTorn ==
  /\ phase = "pair" /\ left = <<>> /\ phase' = "idle"
  /\ file' = [p \in Pairs |-> Nothing] /\ data' = file'
  /\ UNCHANGED <<now, made, req, left, ranges, offset, asks>>

Next == Tick \/ Trade \/ Download \/ LookAtPair \/ Page \/ PageFails \/ PairDone \/ Save \/ SaveTorn
Spec == Init /\ [][Next]_vars
-----------------------------------------------------------------------------
(* Get: the part of the orders between two stamps, by binary search. *)
FirstAt(p, s, t) ==
  LET from == {i \in DOMAIN s : StampOf(p, s[i]) >= t} IN IF from = {} THEN Len(s) + 1 ELSE Min(from)
Get(p, start, end) == SubSeq(file[p].orders, FirstAt(p, file[p].orders, start), FirstAt(p, file[p].orders, end + 1) - 1)

TypeOK ==
  /\ phase \in {"idle", "pair", "page", "save"} /\ Range(left) \subseteq Pairs
  /\ \A p \in Pairs : Range(file[p].orders) \subseteq DOMAIN made[p]

Shares(p, i, s) == \E j \in Range(s) : StampOf(p, j) = StampOf(p, i)
(* The file has every order of the range it claims, but for those that share   *)
(* their stamp with one it has: a page may end between them.                   *)
NothingMissing ==
  \A p \in Pairs : LET f == file[p] IN f.start # 0 =>
    \A i \in DOMAIN made[p] : StampOf(p, i) \in f.start .. f.end - 1 => Shares(p, i, f.orders)
(* Get gives, of the file, exactly the orders of the range asked for.          *)
GetIsExact ==
  \A p \in Pairs : \A start \in 1 .. MaxTime, end \in 1 .. MaxTime :
    Range(Get(p, start, end)) = {i \in Range(file[p].orders) : StampOf(p, i) \in start .. end}
ExgOrdersSound == NothingMissing /\ GetIsExact
=============================================================================
