------------------------------ MODULE HistFeed ------------------------------
(* The bars of a back test (data/provider.go RunHistFeeders, data/feeder.go    *)
(* DBKlineFeeder, opt/backtest.go): a feeder per pair reads stored bars of its *)
(* smallest time frame in batches, the loop runs the bar that ends first and   *)
(* the feeder builds the larger ones of it; a refresh of the pairs inside a    *)
(* callback changes the feeders, and the loop learns of it from a channel,     *)
(* which also carries the order to stop.  Bars are known by their start.       *)
EXTENDS Naturals, Sequences, FiniteSets, FiniteSetsExt, SequencesExt, Functions
CONSTANTS
  Data,        \* what may be stored: functions from the pairs, 1 .. n, to times of bars
  Plans,       \* what a refresh may choose: functions from pairs to time frames
  Start, End,  \* config.TimeRange
  Cron,        \* the times of the refreshes
  BatchSize,   \* bars read at once
  Cap,         \* places of dirtyVers
  Bombs        \* callbacks that may end the test (liquidation, low funds)
VARIABLES
  stored,
  pc,          \* "loop", "call", "send", "end"; "mid": a refresh before the last callback of a bar, no further
  feeder,      \* holders: [tfs, tf, sub, nxt, wait, end, caches, next, off]
  holds, cur,  \* the feeders of the loop; the one whose bar runs
  calls, out,  \* callbacks still to be called: [tf, t]; versions still to be sent
  vers, oldVer, dirtyLast,
  clock, nextRefresh, maxTf,
  bot,         \* "on"; "off": BotRunning is false
  bombs,
  told         \* [pair, tf]: the end of the last bar its environment has seen
vars == <<stored, pc, feeder, holds, cur, calls, out, vers, oldVer, dirtyLast, clock, nextRefresh, maxTf, bot, bombs, told>>

Never == End * 100   \* math.MaxInt64
Pairs == UNION {DOMAIN pl : pl \in Plans}
AllTfs == UNION {UNION Range(pl) : pl \in Plans}
NoBar == Never
NoPair == 0
Align(t, tf) == (t \div tf) * tf
Ceil(t, tf) == Align(t + tf - 1, tf)
Stop == -1
Least(a, b) == IF a < b THEN a ELSE b
Most(a, b) == IF a < b THEN b ELSE a

(* QueryOHLCV: stored bars, aggregated where the time frame asks for it; the   *)
(* start is rounded up to a whole bar, and so is the end.                      *)
BarsOf(p, tf, from, to) == {t \in {Align(x, tf) : x \in stored[p]} : Ceil(from, tf) <= t /\ t < Ceil(to, tf)}
InTurn(S) == LET at(i) == CHOOSE t \in S : Cardinality({x \in S : x < t}) = i - 1 IN [i \in 1 .. Cardinality(S) |-> at(i)]
FirstOf(S) == LET s == InTurn(S) IN SubSeq(s, 1, Least(BatchSize, Len(s)))

-----------------------------------------------------------------------------
(* TfKlineLoader *)

Ended(f) == [f EXCEPT !.caches = <<>>, !.off = Most(f.off, f.next), !.next = Never]
SetNext(p, f) ==
  IF Len(f.caches) > 1 THEN [f EXCEPT !.caches = Tail(@), !.next = f.caches[2] + f.tf]
  ELSE LET bars == FirstOf(BarsOf(p, f.tf, f.off, f.end))
       IN IF f.next >= f.end \/ bars = <<>> THEN Ended(f)
          ELSE [f EXCEPT !.caches = bars, !.next = bars[1] + f.tf, !.off = Last(bars) + f.tf]
Reset(f, since) == [f EXCEPT !.caches = <<>>, !.next = 0, !.off = since]
SetSeek(p, f, since) == SetNext(p, Reset(f, since))

(* SubTfs: caches of time frames that stay are kept; the loader begins anew    *)
(* when the smallest changes.                                                  *)
KeptOr0(g, tfs) == [tf \in tfs |-> IF tf \in DOMAIN g THEN g[tf] ELSE 0]
SubTfs(f, tfs) ==
  LET g == [f EXCEPT !.tfs = tfs, !.sub = KeptOr0(f.sub, tfs), !.nxt = KeptOr0(f.nxt, tfs),
                     !.wait = [tf \in tfs |-> IF tf \in f.tfs THEN f.wait[tf] ELSE NoBar]]
  IN IF Min(tfs) = f.tf THEN g ELSE [Reset(g, 0) EXCEPT !.tf = Min(tfs), !.end = Align(f.end, Min(tfs))]
NewFeeder(tfs) ==
  SubTfs([tfs |-> {}, tf |-> 0, sub |-> <<>>, nxt |-> <<>>, wait |-> <<>>, end |-> End, caches |-> <<>>, next |-> 0, off |-> 0], tfs)

(* WarmTfs of the time frames that are new: each environment sees the bars     *)
(* before now.                                                                 *)
WarmEnd(p, tf, now) ==
  LET bars == {t \in BarsOf(p, tf, 0, Align(now, tf)) : t < Align(now, tf)} IN IF bars = {} THEN 0 ELSE Max(bars) + tf
WarmTfs(p, f, tfs, now) == [f EXCEPT !.sub = [tf \in f.tfs |-> IF tf \in tfs /\ WarmEnd(p, tf, now) > 0 THEN WarmEnd(p, tf, now) ELSE @[tf]]]
WarmSince(p, tfs, now) == Max({WarmEnd(p, tf, now) : tf \in tfs} \cup {0})

(* SubWarmPairs of one pair: a new feeder, or one whose smallest time frame    *)
(* changed, seeks the end of its warm-up; others go on where they are.         *)
Subscribed(p, tfs, now) ==
  LET isNew == p \notin DOMAIN feeder
      old == IF isNew THEN {} ELSE feeder[p].tfs
      f == WarmTfs(p, IF isNew THEN NewFeeder(tfs) ELSE SubTfs(feeder[p], tfs), tfs \ old, now)
      same == ~isNew /\ f.tf = feeder[p].tf
      since0 == IF same THEN f.sub[f.tf] ELSE WarmSince(p, tfs \ old, now)
      since == IF since0 = 0 THEN now ELSE since0
  IN IF ~same /\ tfs \subseteq old THEN SetSeek(p, f, f.sub[f.tf])
     ELSE IF f.next = 0 \/ f.sub[f.tf] # since THEN SetSeek(p, f, since) ELSE f

Seen == [told EXCEPT ![<<cur, calls[1].tf>>] = calls[1].t + calls[1].tf]
SubWarmPairs(plan, now, refresh) ==
  LET max == Max(UNION Range(plan) \cup {maxTf})
      end == Least(refresh + 3 * max, End)
  IN /\ feeder' = [p \in DOMAIN plan |-> [Subscribed(p, plan[p], now) EXCEPT !.end = end]]
     /\ maxTf' = max
     /\ told' = [x \in {<<p, tf>> : p \in DOMAIN plan, tf \in AllTfs} \cap UNION {{p} \X plan[p] : p \in DOMAIN plan} |->
                   IF x[1] \in DOMAIN feeder /\ x[2] \in feeder[x[1]].tfs THEN Seen[x] ELSE WarmEnd(x[1], x[2], now)]

NextCron(t) == Min({c \in Cron : c > t} \cup {Never})

Init ==
  \E data \in Data, plan \in Plans :
    LET ends == Least(NextCron(Start) + 3 * Max(UNION Range(plan)), End)
        warm(p) == WarmTfs(p, NewFeeder(plan[p]), plan[p], Start)
    IN /\ stored = data /\ pc = "loop" /\ holds = {} /\ cur = NoPair /\ calls = <<>> /\ out = <<>> /\ vers = <<>>
       /\ oldVer = 0 /\ dirtyLast = 0 /\ clock = Start /\ nextRefresh = NextCron(Start) /\ bot = "on" /\ bombs = 0
       /\ maxTf = Max(UNION Range(plan))
       /\ feeder = [p \in DOMAIN plan |-> [SetSeek(p, warm(p), WarmSince(p, plan[p], Start)) EXCEPT !.end = ends]]
       /\ told = [x \in UNION {{p} \X plan[p] : p \in DOMAIN plan} |-> WarmEnd(x[1], x[2], Start)]

-----------------------------------------------------------------------------
(* KlineFeeder.onNewBars: the larger caches take the bar, largest first. *)

Lacks(f, tf, bar) == f.sub[tf] # 0 /\ f.sub[tf] < bar
Pending(p, f, tf, bar) ==
  {Align(bar, tf)} \cup
  (IF Lacks(f, tf, bar) THEN {Align(b, tf) : b \in BarsOf(p, f.tf, Align(f.sub[tf], tf), bar)} ELSE {f.wait[tf]} \ {NoBar})
IsDone(f, tf, bar) == Align(bar + f.tf, tf) > Align(bar, tf)
DoneBars(p, f, tf, bar) ==
  LET all == Pending(p, f, tf, bar) IN {b \in IF IsDone(f, tf, bar) THEN all ELSE all \ {Max(all)} : b >= f.nxt[tf]}
Larger(f) == f.tfs \ {f.tf}
OwnBars(f, bar) == {b \in {bar, f.wait[f.tf]} : f.nxt[f.tf] <= b /\ b <= bar}
Due(p, f, tf, bar) == IF tf = f.tf THEN OwnBars(f, bar) ELSE DoneBars(p, f, tf, bar)
CallsOf(p, f, bar) ==
  FlattenSeq([i \in 1 .. Cardinality(f.tfs) |->
    LET tf == Reverse(InTurn(f.tfs))[i]
        ts == InTurn(Due(p, f, tf, bar))
    IN [n \in DOMAIN ts |-> [tf |-> tf, t |-> ts[n]]]])
AfterBar(p, f, bar) ==
  [f EXCEPT !.sub = [tf \in f.tfs |-> IF tf = f.tf THEN @[tf] ELSE bar + f.tf],
            !.wait = [tf \in f.tfs |-> IF tf = f.tf \/ IsDone(f, tf, bar) THEN NoBar ELSE Align(bar, tf)],
            !.nxt = [tf \in f.tfs |-> LET due == Due(p, f, tf, bar) IN IF due = {} THEN @[tf] ELSE Max(due) + tf]]

(* RunHistFeeders: the feeder whose next bar ends first; the feeders are       *)
(* sorted anew when a version is received.                                     *)
IsNewer(ver) == ver > oldVer
LastFirst(H) == CHOOSE p \in H : \A q \in H : feeder[q].next <= feeder[p].next
EndsFirst(H) == CHOOSE p \in H : \A q \in H : feeder[p].next < feeder[q].next \/ (feeder[p].next = feeder[q].next /\ p <= q)
NextFeeder(H) == EndsFirst(H)
RunHistFeeders ==
  /\ pc = "loop" /\ vers' = IF vers = <<>> THEN <<>> ELSE Tail(vers)
  /\ UNCHANGED <<stored, out, dirtyLast, clock, nextRefresh, maxTf, bot, bombs, told>>
  /\ LET ver == IF vers = <<>> THEN 0 ELSE Head(vers)
         again == IsNewer(ver) \/ cur = NoPair
         H == IF again THEN DOMAIN feeder ELSE holds
         p == NextFeeder(H)
         f == feeder[p]
     IN \/ /\ ver = Stop \/ (ver # Stop /\ f.caches = <<>>)
           /\ pc' = "end" /\ cur' = NoPair /\ UNCHANGED <<feeder, holds, calls, oldVer>>
        \/ /\ ver # Stop /\ f.caches # <<>>
           /\ oldVer' = Most(oldVer, ver) /\ holds' = H /\ cur' = p
           /\ feeder' = [feeder EXCEPT ![p] = AfterBar(p, SetNext(p, f), f.caches[1])]
           /\ calls' = CallsOf(p, f, f.caches[1])
           /\ pc' = IF calls' = <<>> THEN "loop" ELSE "call"

-----------------------------------------------------------------------------
(* BackTest.FeedKLine: what a callback sends to the loop that called it. *)

Sends(s) ==
  /\ out' = s /\ calls' = Tail(calls)
  /\ pc' = IF s # <<>> THEN "send" ELSE IF Len(calls) = 1 THEN "loop" ELSE "call"
Refreshes == bot = "on" /\ calls[1].t >= nextRefresh
Traded ==
  /\ told' = Seen /\ UNCHANGED <<feeder, dirtyLast, nextRefresh, maxTf>>
  /\ \/ /\ ~Refreshes /\ Sends(IF bot = "on" THEN <<>> ELSE <<Stop>>) /\ UNCHANGED <<bot, bombs>>
     \/ /\ bombs < Bombs /\ bombs' = bombs + 1 /\ bot' \in {bot, "off"} /\ Sends(<<Stop, Stop>>)
RefreshPairJobs ==
  /\ Refreshes /\ dirtyLast' = dirtyLast + 1 /\ nextRefresh' = NextCron(calls[1].t) /\ UNCHANGED <<bot, bombs>>
  /\ IF Len(calls) > 1 THEN pc' = "mid" /\ UNCHANGED <<out, calls, feeder, maxTf, told>>
     ELSE /\ Sends(<<dirtyLast'>>)
          /\ \E plan \in Plans : SubWarmPairs(plan, nextRefresh, nextRefresh')
FeedKLine ==
  /\ pc = "call" /\ clock' = calls[1].t + calls[1].tf
  /\ UNCHANGED <<stored, holds, cur, vers, oldVer>>
  /\ Traded \/ RefreshPairJobs

\* SetDirty, Terminate: the channel may be full.
Send ==
  /\ pc = "send" /\ Len(vers) < Cap
  /\ vers' = Append(vers, out[1]) /\ out' = Tail(out)
  /\ pc' = IF Len(out) > 1 THEN "send" ELSE IF calls = <<>> THEN "loop" ELSE "call"
  /\ UNCHANGED <<stored, feeder, holds, cur, calls, oldVer, dirtyLast, clock, nextRefresh, maxTf, bot, bombs, told>>

Next == RunHistFeeders \/ FeedKLine \/ Send
Spec == Init /\ [][Next]_vars
-----------------------------------------------------------------------------
TypeOK ==
  /\ pc \in {"loop", "call", "send", "end"} /\ cur \in Pairs \cup {NoPair} /\ holds \subseteq Pairs
  /\ \A p \in DOMAIN feeder : LET f == feeder[p] IN f.tf = Min(f.tfs) /\ f.next \in Nat /\ Len(f.caches) <= BatchSize
  /\ Len(vers) <= Cap /\ (pc = "call" <=> calls # <<>> /\ out = <<>>)

(* A callback gets the bar that follows the last its environment has seen:     *)
(* none twice, and none passed over, over batches, warm-ups and refreshes.     *)
TellStep ==
  pc = "call" =>
    LET c == calls[1]
        last == told[<<cur, c.tf>>]
    IN last <= c.t /\ \A b \in BarsOf(cur, c.tf, last, c.t) : b >= c.t
ToldInTurn == [][TellStep]_vars
(* Bars run in the order of their ends over all pairs, until a refresh.        *)
TimeStep == pc = "loop" /\ pc' = "call" /\ oldVer' = oldVer => feeder[cur'].next >= clock
InTime == [][TimeStep]_vars
(* A test that was not stopped has shown every pair it holds at the end all    *)
(* that is stored of it.                                                       *)
FedToEnd ==
  pc = "end" /\ bombs = 0 =>
    \A p \in DOMAIN feeder, tf \in AllTfs :
      tf \in feeder[p].tfs => \A b \in BarsOf(p, tf, told[<<p, tf>>], End) : b + tf > End
=============================================================================
