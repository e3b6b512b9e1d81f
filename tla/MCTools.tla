------------------------------- MODULE MCTools -------------------------------
(* The tools around the bot, each in small settings: the search of parameters *)
(* (OptLog, RollOpt), the choice of pairs by a factor (FacRoll), the orders of *)
(* the exchange (ExgOrders) compared with back tests (ExgMatch, CmpLive), and  *)
(* what an operator may stop or close (EntryStops).  part says which; the      *)
(* variables of the others do not change.                                      *)
EXTENDS Integers, Sequences, FiniteSets, FiniteSetsExt, TLC
VARIABLES
  phase, now, at, rows, left, orders, stops,  \* of several parts
  market, ran, picker, todo, pol, tuned, best, items, log, printed, got,
  mode, blends, range, cur, dateRange, logs, polList, policies, lastPols, wallet, histODs, lastWal, allHisOds, row, runs,
  made, file, data, req, ranges, offset, asks,
  ods, bts, skips, ids, temps, lots,
  signals, live, gone, curMS, startMS, positions, btOpens, btAll, odNextMS, told, report,
  bars, rangeStart, rangeEnd, chosen, stats, testOrders,
  startAt, disabled, writing, until, noEnter, cmd, checked, count, crashes,
  part
optVars == <<market, ran, picker, todo, pol, tuned, best, items, log, printed, got>>
rollVars == <<mode, blends, range, cur, dateRange, logs, polList, policies, lastPols, wallet, histODs, lastWal, allHisOds, row, runs>>
exgVars == <<made, file, data, req, ranges, offset, asks>>
matchVars == <<ods, bts, skips, ids, temps, lots>>
cmpVars == <<signals, live, gone, curMS, startMS, positions, btOpens, btAll, odNextMS, told, report>>
facVars == <<bars, rangeStart, rangeEnd, chosen, stats, testOrders>>
stopVars == <<startAt, disabled, writing, until, noEnter, cmd, checked, count, crashes>>
toolVars == <<phase, now, at, rows, left, orders, stops, optVars, rollVars, exgVars, matchVars, cmpVars, facVars, stopVars>>
-----------------------------------------------------------------------------
\* A plan of one policy, two of one name, two of different names; parameters give what a market says.
Pol(n, d) == [name |-> n, dirt |-> d]
Markets ==
  LET a == <<-20, -20, 4, 5>>
      b == <<0, 8, 40, 4>>
      c == <<4, 60, 8, 20>>
      d == <<-20, -30, -8, -9>>
  IN {[long |-> l, short |-> s, both |-> o, bonus |-> x[1], n |-> x[2]] :
        l \in {a, c, d}, s \in {a, b}, o \in {c, d}, x \in {<<-10, 2>>, <<0, 1>>, <<0, 2>>, <<30, 1>>}}
Policies == {"long", "short", ""} \X {2, 3, 4}
Side(m, p) == IF p[1] = "long" THEN m.long[p[2]] ELSE IF p[1] = "short" THEN m.short[p[2]] ELSE m.both[p[2]]
Measured ==
  [m \in Markets |->
     [S \in {{p, q} : p \in Policies, q \in Policies} |->
        IF Cardinality(S) = 1 THEN LET p == CHOOSE p \in S : TRUE IN [score |-> Side(m, p), num |-> 2]
        ELSE LET p == CHOOSE p \in S : TRUE
                 q == CHOOSE q \in S : q # p
             IN [score |-> Side(m, p) + Side(m, q) + m.bonus, num |-> 2 * m.n]]]
Opt == INSTANCE OptLog WITH
  Plans <- {<<Pol("a", "any")>>, <<Pol("a", "long"), Pol("a", "any")>>, <<Pol("a", "short"), Pol("b", "any")>>},
  Tries <- {<<2, 4>>, <<4, 2>>}, Result <- Measured, Pickers <- {"score", "good3", "goodAvg"}, MaxCollects <- 2
Roll == INSTANCE RollOpt WITH
  Start <- 0, End <- 5, RunPeriod <- 1, ReviewPeriod <- 2, Modes <- {"bt", "pickers"}, Pickers <- 2,
  Keys <- {"a", "b"}, Results <- {5, 20}, MaxStops <- 1

\* Three orders in pages of two; the last stamp is left for later.
Down == INSTANCE ExgOrders WITH
  Pairs <- {"a"}, MaxTime <- 3, MaxOrders <- 3, Limit <- 2, Delay <- 1, Back <- 2, MaxAsks <- 2

\* Three records of two orders and one made by hand, amounts a little or much apart.
Record(i, s, f, t) == [id |-> i, bot |-> i # "m", side |-> s, filled |-> f, at |-> t, done |-> t]
Some(t, I, F) == {Record(i, s, f, t) : i \in I, s \in {"buy", "sell"}, f \in F}
Records ==
  {<<a, b, c>> : a \in Some(1, {"x", "m"}, {100, 200}), b \in Some(2, {"x", "y", "m"}, {100, 201}),
                 c \in Some(2, {"y", "x"}, {100, 200}) \cup Some(5, {"y", "m"}, {100, 201})}
Test(s, a, b, f) == [short |-> s, enter |-> a, exit |-> b, filled |-> f]
Match == INSTANCE ExgMatch WITH
  Tests <- {<<Test(FALSE, 1, 5, 100), Test(FALSE, 2, 2, 100)>>, <<Test(TRUE, 2, 5, 200), Test(FALSE, 1, 2, 190)>>},
  TF <- 3, AmtRate <- 10

\* Two orders of a strategy, open at different bars; the comparison runs every so often.
Life(a, b) == [open |-> a, close |-> b]
Compared == INSTANCE CmpLive WITH
  Signals <- {[p |-> Life(0, 4), q |-> Life(8, 12)], [p |-> Life(4, 12), q |-> Life(8, 16)], [p |-> Life(0, 16), q |-> Life(8, 12)]},
  TF <- 4, MaxTime <- 9, Late <- 3, Ago <- 6, StartAt <- 2

\* Four orders of two pairs; one pair may have no bars for a while.
Held(p, a, b) == [pair |-> p, enter |-> a, exit |-> b]
Starts == {2 * i : i \in 0 .. 8}
Factor == INSTANCE FacRoll WITH
  Orders <- {<<Held("p", 1, 3), Held(p, a, b), Held("q", c, d), Held("q", 14, 17)>> :
               p \in {"p", "q"}, a \in {2, 5, 6}, b \in {0, 7, 10, 15}, c \in {4, 9}, d \in {11, 16}},
  Bars <- {[p |-> Starts, q |-> b] : b \in {Starts, Starts \ {4, 6, 8}, Starts \ {8, 10, 12}}},
  TF <- 2, MinBack <- 4, MaxBack <- 7, Interval <- 3

\* Two chat bots; two accounts; two orders and a restart.
Loss == (1 :> 30) @@ (3 :> 10)
Chats == INSTANCE EntryStops WITH
  Accounts <- {"x"}, Bots <- {"t", "u"}, Hours <- {2}, Ids <- {1}, Profits <- {-50}, Balance <- 100,
  FatalStop <- Loss, FatalStopHours <- 2, MaxTime <- 3, MaxCommands <- 2, MaxCrashes <- 0
Accs == INSTANCE EntryStops WITH
  Accounts <- {"x", "y"}, Bots <- {"t"}, Hours <- {0, 2}, Ids <- {1}, Profits <- {-50}, Balance <- 100,
  FatalStop <- Loss, FatalStopHours <- 2, MaxTime <- 3, MaxCommands <- 1, MaxCrashes <- 0
Again == INSTANCE EntryStops WITH
  Accounts <- {"x"}, Bots <- {"t"}, Hours <- {1}, Ids <- {1, 2}, Profits <- {-50}, Balance <- 100,
  FatalStop <- Loss, FatalStopHours <- 2, MaxTime <- 2, MaxCommands <- 1, MaxCrashes <- 1
-----------------------------------------------------------------------------
Idle(v) == v = [x \in {} |-> 0]
NoOpt ==
  /\ Idle(market) /\ Idle(ran) /\ Idle(picker) /\ Idle(todo) /\ Idle(pol) /\ Idle(tuned) /\ Idle(best)
  /\ Idle(items) /\ Idle(log) /\ Idle(printed) /\ Idle(got)
NoRoll ==
  /\ Idle(mode) /\ Idle(blends) /\ Idle(range) /\ Idle(cur) /\ Idle(dateRange) /\ Idle(logs) /\ Idle(polList)
  /\ Idle(policies) /\ Idle(lastPols) /\ Idle(wallet) /\ Idle(histODs) /\ Idle(lastWal) /\ Idle(allHisOds)
  /\ Idle(row) /\ Idle(runs)
NoExg == Idle(made) /\ Idle(file) /\ Idle(data) /\ Idle(req) /\ Idle(ranges) /\ Idle(offset) /\ Idle(asks)
NoMatch == Idle(ods) /\ Idle(bts) /\ Idle(skips) /\ Idle(ids) /\ Idle(temps) /\ Idle(lots)
NoCmp ==
  /\ Idle(signals) /\ Idle(live) /\ Idle(gone) /\ Idle(curMS) /\ Idle(startMS) /\ Idle(positions) /\ Idle(btOpens)
  /\ Idle(btAll) /\ Idle(odNextMS) /\ Idle(told) /\ Idle(report)
NoFac == Idle(bars) /\ Idle(rangeStart) /\ Idle(rangeEnd) /\ Idle(chosen) /\ Idle(stats) /\ Idle(testOrders)
NoStop ==
  /\ Idle(startAt) /\ Idle(disabled) /\ Idle(writing) /\ Idle(until) /\ Idle(noEnter) /\ Idle(cmd)
  /\ Idle(checked) /\ Idle(count) /\ Idle(crashes)
NoTool ==
  /\ NoOpt /\ NoRoll /\ NoExg /\ NoMatch /\ NoCmp /\ NoFac /\ NoStop
  /\ Idle(phase) /\ Idle(now) /\ Idle(at) /\ Idle(rows) /\ Idle(left) /\ Idle(orders) /\ Idle(stops)

StopParts == {"chats", "accs", "again"}
StopInit ==
  \/ part = "chats" /\ Chats!Init
  \/ part = "accs" /\ Accs!Init
  \/ part = "again" /\ Again!Init
StopNext == (part = "chats" /\ Chats!Next) \/ (part = "accs" /\ Accs!Next) \/ (part = "again" /\ Again!Next)
ToolInit ==
  /\ \/ part = "opt" /\ Opt!Init /\ Idle(now) /\ Idle(at) /\ Idle(rows) /\ Idle(orders) /\ Idle(stops)
     \/ part = "roll" /\ Roll!Init /\ Idle(now) /\ Idle(left) /\ Idle(orders)
     \/ part = "download" /\ Down!Init /\ Idle(at) /\ Idle(rows) /\ Idle(orders) /\ Idle(stops)
     \/ part = "match" /\ Match!Init /\ Idle(now) /\ Idle(left) /\ Idle(orders) /\ Idle(stops)
     \/ part = "compare" /\ Compared!Init /\ Idle(at) /\ Idle(rows) /\ Idle(left) /\ Idle(orders) /\ Idle(stops)
     \/ part = "factor" /\ Factor!Init /\ Idle(now) /\ Idle(at) /\ Idle(rows) /\ Idle(left) /\ Idle(stops)
     \/ StopInit /\ Idle(phase) /\ Idle(at) /\ Idle(rows) /\ Idle(left)
  /\ part = "opt" \/ (part # "opt" /\ NoOpt)
  /\ part = "roll" \/ (part # "roll" /\ NoRoll)
  /\ part = "download" \/ (part # "download" /\ NoExg)
  /\ part = "match" \/ (part # "match" /\ NoMatch)
  /\ part = "compare" \/ (part # "compare" /\ NoCmp)
  /\ part = "factor" \/ (part # "factor" /\ NoFac)
  /\ part \in StopParts \/ (part \notin StopParts /\ NoStop)
ToolNext ==
  /\ part' = part
  /\ \/ part = "opt" /\ Opt!Next /\ UNCHANGED <<now, at, rows, orders, stops>>
     \/ part = "roll" /\ Roll!Next /\ UNCHANGED <<now, left, orders>>
     \/ part = "download" /\ Down!Next /\ UNCHANGED <<at, rows, orders, stops>>
     \/ part = "match" /\ Match!Next /\ UNCHANGED <<now, left, orders, stops>>
     \/ part = "compare" /\ Compared!Next /\ UNCHANGED <<at, rows, left, orders, stops>>
     \/ part = "factor" /\ Factor!Next /\ UNCHANGED <<now, at, rows, left, stops>>
     \/ StopNext /\ UNCHANGED <<phase, at, rows, left>>
  /\ part = "opt" \/ (part # "opt" /\ UNCHANGED optVars)
  /\ part = "roll" \/ (part # "roll" /\ UNCHANGED rollVars)
  /\ part = "download" \/ (part # "download" /\ UNCHANGED exgVars)
  /\ part = "match" \/ (part # "match" /\ UNCHANGED matchVars)
  /\ part = "compare" \/ (part # "compare" /\ UNCHANGED cmpVars)
  /\ part = "factor" \/ (part # "factor" /\ UNCHANGED facVars)
  /\ part \in StopParts \/ (part \notin StopParts /\ UNCHANGED stopVars)
ToolSpec == ToolInit /\ [][ToolNext]_<<toolVars, part>>
-----------------------------------------------------------------------------
(* Every variable of a part has its type, in every part.                      *)
ToolTypeOK ==
  /\ part = "opt" => Opt!TypeOK
  /\ part = "roll" => Roll!TypeOK
  /\ part = "download" => Down!TypeOK
  /\ part = "match" => Match!TypeOK
  /\ part = "compare" => Compared!TypeOK
  /\ part = "factor" => Factor!TypeOK
  /\ part = "chats" => Chats!TypeOK
  /\ part = "accs" => Accs!TypeOK
  /\ part = "again" => Again!TypeOK


(* Downloaded orders are whole and given as asked; a record is used for what  *)
(* was filled and a report holds every order once; the live comparison raises *)
(* no false alarm and tells what is wrong once a bar; pairs are chosen by the *)
(* past and gains counted once (ExgOrderSet, buildExgOrders,                  *)
(* CompareExgBTOrders, BacktestToCompare, BtFactors).                         *)
ComparesSound ==
  /\ part = "download" => Down!ExgOrdersSound
  /\ part = "match" => Match!ExgMatchSound
  /\ part = "compare" => Compared!CmpLiveSound
  /\ part = "factor" => Factor!FacRollSound

(* No order is asked for in the time a chat bot promised to stop entries, and *)
(* the answer to a command that closes orders claims no order that goes on    *)
(* (disableTrading, closeOrders, closeAllOrders).                             *)
EntryStopsSound ==
  /\ part = "chats" => Chats!EntryStopsSound
  /\ part = "accs" => Accs!EntryStopsSound
  /\ part = "again" => Again!EntryStopsSound
=============================================================================
