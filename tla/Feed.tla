-------------------------------- MODULE Feed --------------------------------
(* The way of the bars of one symbol from the exchange to the strategies of  *)
(* a live bot: the spider fetches the finished 1m bars (data/spider.go),     *)
(* stores and broadcasts them, the bot's watcher (data/watcher.go) builds    *)
(* bars of its job's time frame of them and passes them to the feeder of the *)
(* symbol (data/provider.go, data/feeder.go), which builds the bars of the   *)
(* larger time frames and calls the strategies' environments                 *)
(* (biz/trader.go).  Time is counted in 1m bars: bar i is finished at i + 1. *)
(* A bar is its start and the set of 1m bars it was built of; prices and     *)
(* volumes are left out (every bar has volume), and so are PreFire (0), the  *)
(* adjustment factors, the loader of 1h bars and the mark isWarmUp of the    *)
(* feeder, which the warming and the pushes share.                           *)
EXTENDS Integers, FiniteSets, SequencesExt
CONSTANTS
  Start,        \* the time the bot starts at
  Stop,         \* the model ends at this time
  Tfs,          \* the time frames subscribed at the start, in 1m bars
  Later,        \* the time frames after a refresh of the pairs, {} for none
  SaveWorkers,  \* jobs of writeQ at work at a time
  Handlers,     \* goroutines of the bot at work on messages at a time
  FailAt,       \* where calls to the exchange fail: "spider", "watch", "feed", "warm"
  MaxFail,      \* failing calls to the exchange
  MaxDrop       \* lost connections, crashes of the spider included

\* The time frame all of S can be built of.
Gcd(S) == CHOOSE d \in 1 .. Start :
  /\ \A s \in S : s % d = 0
  /\ \A e \in 1 .. Start : (\A s \in S : s % e = 0) => e <= d

\* What the constants must be.
ConstantsFit ==
  /\ Start \in Nat \ {0} /\ Stop \in Nat /\ Start < Stop
  /\ Tfs # {} /\ (Tfs \cup Later) \subseteq Nat \ {0}
  /\ \A tf \in Tfs \cup Later : tf <= Start
  /\ FailAt \subseteq {"spider", "watch", "feed", "warm"}
  /\ {SaveWorkers, Handlers, MaxFail, MaxDrop} \subseteq Nat
  \* A task at work when the states change still finds a state at its index (f.States[i]).
  /\ Later # {} => Cardinality(Later) >= Cardinality(Tfs \cup {Gcd(Tfs)}) - 1

VARIABLES
  now,      \* finished 1m bars
  ticked,   \* the minute of the spider's last refreshKlines
  expect,   \* ExpectMS of the spider, Unwatched while it does not watch the pair
  saving,   \* writeQ: jobs not yet broadcast, oldest first
  wire,     \* messages sent to the bot and not yet read
  up,       \* the bot is connected and has subscribed
  job,      \* the watcher's PairTFCache of the pair: [tf, next, wait]
  tasks,    \* goroutines of the bot: see Task
  states,   \* Feeder.States: tf -> [sub, next, wait]
  told,     \* what the environments were given since they were last warmed: tf -> bars
  stop,     \* BarEnv.TimeStop: tf -> end of the last bar
  bad,      \* calls the exchange failed
  dropped,  \* connections lost
  refresh   \* SubWarmPairs of the refresh of the pairs: see NoRefresh
spider == <<ticked, expect, saving>>
bot == <<job, tasks, states, told, stop>>
vars == <<now, spider, wire, up, bot, bad, dropped, refresh>>

Unwatched == -1
NoBar == [t |-> -1, ps |-> {}]

-----------------------------------------------------------------------------
(* Bars *)

Align(t, tf) == (t \div tf) * tf

\* The bars of time frame tf from a to b, whole (the exchange and the store).
BarsOf(tf, a, b) ==
  [i \in 1 .. (b - a) \div tf |-> [t |-> a + (i - 1) * tf,
                                   ps |-> a + (i - 1) * tf .. a + i * tf - 1]]

\* The n-th position of I, and the elements of s at the positions of I, in turn.
Nth(I, n) == CHOOSE i \in I : Cardinality({j \in I : j <= i}) = n
Picked(s, I) == [n \in 1 .. Cardinality(I) |-> s[Nth(I, n)]]

\* (mutant of BuildOHLCV) a bar keeps the start of its first part
BuildUnaligned(arr, tf, olds) ==
  LET all == olds \o arr
      Period(i) == Align(all[i].t, tf)
      firsts == {i \in DOMAIN all : i = 1 \/ Period(i) # Period(i - 1)}
      Run(i) == {j \in i .. Len(all) : firsts \cap (i + 1 .. j) = {}}
  IN [n \in 1 .. Cardinality(firsts) |->
        [t |-> all[Nth(firsts, n)].t, ps |-> UNION {all[j].ps : j \in Run(Nth(firsts, n))}]]

(* BuildOHLCV: neighbours of one period become one bar, the last bar of olds  *)
(* and the first of arr included.                                             *)
BuildOHLCV(arr, tf, olds) ==
  LET all == olds \o arr
      Period(i) == Align(all[i].t, tf)
      firsts == {i \in DOMAIN all : i = 1 \/ Period(i) # Period(i - 1)}
      Run(i) == {j \in i .. Len(all) : firsts \cap (i + 1 .. j) = {}}
  IN [n \in 1 .. Cardinality(firsts) |->
        [t |-> Period(Nth(firsts, n)), ps |-> UNION {all[j].ps : j \in Run(Nth(firsts, n))}]]

\* ... and whether its last bar is finished: the next source bar belongs to another one.
LastFinished(arr, src, tf, res) == Align(Last(arr).t + src, tf) > Last(res).t

One(bar) == IF bar = NoBar THEN <<>> ELSE <<bar>>

(* fillLacks of a cache c = [next, wait] of time frame tf that gets bars of   *)
(* time frame src from start to end: what was missed is fetched from the      *)
(* start of its large bar and replaces the unfinished bar.                    *)
\* (mutant of Lacks) off by one
LacksTwo(c, start) == c.next # 0 /\ c.next < start - 1
Lacks(c, start) == c.next # 0 /\ c.next < start
\* (mutants of FillLacks) from the bar that was missed; only the unfinished bar is kept
FillFromNext(c, tf, src, start, end) ==
  IF ~Lacks(c, start) THEN [olds |-> <<>>, next |-> end, wait |-> c.wait]
  ELSE LET old == BuildOHLCV(BarsOf(src, c.next, start), tf, <<>>)
       IN [olds |-> IF old = <<>> THEN <<>> ELSE Front(old),
           next |-> end,
           wait |-> IF old = <<>> THEN NoBar ELSE Last(old)]
FillLast(c, tf, src, start, end) ==
  IF ~Lacks(c, start) THEN [olds |-> <<>>, next |-> end, wait |-> c.wait]
  ELSE LET old == BuildOHLCV(BarsOf(src, Align(c.next, tf), start), tf, <<>>)
       IN [olds |-> <<>>, next |-> end, wait |-> IF old = <<>> THEN NoBar ELSE Last(old)]
FillLacks(c, tf, src, start, end) ==
  IF ~Lacks(c, start) THEN [olds |-> <<>>, next |-> end, wait |-> c.wait]
  ELSE LET old == BuildOHLCV(BarsOf(src, Align(c.next, tf), start), tf, <<>>)
       IN [olds |-> IF old = <<>> THEN <<>> ELSE Front(old),
           next |-> end,
           wait |-> IF old = <<>> THEN NoBar ELSE Last(old)]

-----------------------------------------------------------------------------
(* The spider *)

\* FetchOHLCV from ExpectMS on, the unfinished bar dropped.
Fetch(since) == BarsOf(1, since, now)

\* refreshKlines, once a minute: the finished bars go to writeQ.
RefreshKlines ==
  /\ ticked < now /\ expect # Unwatched
  /\ ticked' = now
  /\ IF expect < now
     THEN /\ Len(saving) < SaveWorkers
          /\ saving' = Append(saving, Fetch(expect))
          /\ expect' = now
     ELSE UNCHANGED <<saving, expect>>
  /\ UNCHANGED <<now, wire, up, bot, bad, dropped, refresh>>

(* Faults come before the last minute, so that there is a push after them.    *)
Faulty == now < Stop

\* Three attempts failed: the pair is fetched again at the next tick.
RefreshFails ==
  /\ Faulty /\ "spider" \in FailAt /\ bad < MaxFail
  /\ ticked < now /\ expect # Unwatched
  /\ bad' = bad + 1
  /\ ticked' = now
  /\ UNCHANGED <<now, expect, saving, wire, up, bot, dropped, refresh>>

(* consumeWriteQ: a job is stored and then broadcast by a goroutine of its    *)
(* own; a message nobody is connected for is lost.                            *)
Broadcast(i) ==
  /\ saving' = RemoveAt(saving, i)
  /\ wire' = IF up THEN Append(wire, saving[i]) ELSE wire
  /\ UNCHANGED <<now, ticked, expect, up, bot, bad, dropped, refresh>>

\* The connection is lost with the messages on it, or with the spider and its queue.
Disconnect(crash) ==
  /\ Faulty /\ up /\ dropped < MaxDrop
  /\ dropped' = dropped + 1
  /\ up' = FALSE
  /\ wire' = <<>>
  /\ IF crash THEN saving' = <<>> /\ expect' = Unwatched ELSE UNCHANGED <<saving, expect>>
  /\ UNCHANGED <<now, ticked, bot, bad, refresh>>

(* ReInitConn subscribes again; loopKLines expects the minute that is being   *)
(* traded when the pair is new to the spider.                                 *)
Watch ==
  /\ ~up \/ expect = Unwatched
  /\ up' = TRUE
  /\ expect' = IF expect = Unwatched THEN now ELSE expect
  /\ UNCHANGED <<now, ticked, saving, wire, bot, bad, dropped, refresh>>

-----------------------------------------------------------------------------
(* The bot.  A task is a goroutine: "watch" handles a message of the spider,  *)
(* "feed" passes bars of time frame tf on to the states.  It takes the        *)
(* smallest state when it begins, min (0 before), and the others by their     *)
(* place in f.States, left is the one whose turn it is (0 for the smallest).  *)

Task == [at : {"watch", "feed"}, tf : Nat, bars : Seq([t : Nat, ps : SUBSET Nat]), min : Nat, left : Nat]
MinTf(sts) == CHOOSE tf \in DOMAIN sts : \A o \in DOMAIN sts : tf <= o
Place(tf) == Cardinality({o \in DOMAIN states : o < tf})
MinOf(h) == IF h.min # 0 THEN h.min ELSE MinTf(states)
TurnOf(h) == IF h.min # 0 THEN h.left ELSE Cardinality(DOMAIN states) - 1

\* RunForever: every message is handled in a goroutine of its own.
Receive ==
  /\ wire # <<>> /\ Cardinality(tasks) < Handlers
  /\ LET h == [at |-> "watch", tf |-> 1, bars |-> Head(wire), min |-> 0, left |-> 0]
     IN h \notin tasks /\ tasks' = tasks \cup {h}
  /\ wire' = Tail(wire)
  /\ UNCHANGED <<now, spider, up, job, states, told, stop, bad, dropped, refresh>>

(* The bars the watcher passes on: built of those received where the job's    *)
(* time frame is larger, the last one kept until it is finished.              *)
Finishes(h, filled) ==
  IF job.tf = 1 THEN [done |-> h.bars, wait |-> filled.wait]
  ELSE LET res == BuildOHLCV(h.bars, job.tf, filled.olds \o One(filled.wait))
       IN IF LastFinished(h.bars, 1, job.tf, res)
          THEN [done |-> res, wait |-> NoBar]
          ELSE [done |-> Front(res), wait |-> Last(res)]

\* onSpiderBar, makeOnKlineMsg: what is finished goes on in another goroutine.
OnSpiderBar(h) ==
  /\ h.at = "watch"
  /\ LET end == Last(h.bars).t + 1
         filled == FillLacks(job, job.tf, 1, Head(h.bars).t, end)
         fin == Finishes(h, filled)
     IN /\ job' = [job EXCEPT !.next = filled.next, !.wait = fin.wait]
        /\ tasks' = (tasks \ {h}) \cup
             (IF fin.done = <<>> THEN {}
              ELSE {[at |-> "feed", tf |-> job.tf, bars |-> fin.done, min |-> 0, left |-> 0]})
  /\ UNCHANGED <<now, spider, wire, up, states, told, stop, bad, dropped, refresh>>

\* The bars the smallest state makes of the ones received (onNewBars: ohlcvs, lastOk).
SmallBars(h, m, olds) == IF h.tf < m THEN BuildOHLCV(h.bars, m, olds) ELSE h.bars
SmallDone(h, m, res) == h.tf = m \/ LastFinished(h.bars, h.tf, m, res)

\* (mutant of OnEnvJobs) old bars are not ignored
EnvTakesAll(tf, due) ==
  [bars |-> told[tf] \o due, end |-> IF due = <<>> THEN stop[tf] ELSE Last(due).t + tf]

(* Trader.OnEnvJobs for each bar in turn: an environment ignores a bar it is  *)
(* past.                                                                      *)
OnEnvJobs(tf, due) ==
  LET seen == {i \in DOMAIN due : due[i].t >= stop[tf] /\ \A j \in 1 .. i - 1 : due[j].t < due[i].t}
      new == Picked(due, seen)
  IN [bars |-> told[tf] \o new, end |-> IF new = <<>> THEN stop[tf] ELSE Last(new).t + tf]

(* onStateOhlcvs of a state that has sub and gets bars: the finished ones it  *)
(* has not passed on before.                                                  *)
StateOhlcvs(tf, sub, wait, bars, lastOk) ==
  LET all == IF wait # NoBar /\ wait.t < Head(bars).t THEN <<wait>> \o bars ELSE bars
      done == IF lastOk THEN all ELSE Front(all)
      due == Picked(done, {i \in DOMAIN done : done[i].t >= states[tf].next})
  IN /\ states' = [states EXCEPT ![tf] =
          [sub |-> sub,
           next |-> IF due = <<>> THEN @.next ELSE Last(due).t + tf,
           wait |-> IF lastOk THEN NoBar ELSE Last(bars)]]
     /\ LET env == OnEnvJobs(tf, due)
        IN told' = [told EXCEPT ![tf] = env.bars] /\ stop' = [stop EXCEPT ![tf] = env.end]

\* A larger state, which fetches what it missed itself.
OnBigState(h, m, tf) ==
  LET src == SmallBars(h, m, <<>>)
      c == [next |-> states[tf].sub, wait |-> states[tf].wait]
      filled == FillLacks(c, tf, m, Head(src).t, Last(src).t + m)
      res == BuildOHLCV(src, tf, filled.olds \o One(filled.wait))
  IN StateOhlcvs(tf, filled.next, NoBar, res, LastFinished(src, m, tf, res))

\* The smallest state, the last in turn.
OnMinState(h, m) ==
  LET res == SmallBars(h, m, One(states[m].wait))
  IN StateOhlcvs(m, states[m].sub, states[m].wait, res, SmallDone(h, m, res))

\* "bar intv invalid": bars larger than the smallest state are refused.
Refused(h) == h.at = "feed" /\ h.min = 0 /\ h.tf > MinTf(states)
Refuse(h) ==
  /\ Refused(h)
  /\ tasks' = tasks \ {h}
  /\ UNCHANGED <<now, spider, wire, up, job, states, told, stop, bad, dropped, refresh>>

\* A state that is still to be warmed gets bars.
MarkEarly(tf) == refresh' = [refresh EXCEPT !.early = @ \/ tf \in refresh.todo]

(* onNewBars: the states in turn, from the largest to the smallest; a state   *)
(* that was dropped meanwhile is nobody's.                                    *)
BigTurn(h) == \E tf \in DOMAIN states :
  /\ TurnOf(h) > 0 /\ Place(tf) = TurnOf(h)
  /\ OnBigState(h, MinOf(h), tf)
  /\ MarkEarly(tf)
  /\ tasks' = (tasks \ {h}) \cup
       {[at |-> "feed", tf |-> h.tf, bars |-> h.bars, min |-> MinOf(h), left |-> TurnOf(h) - 1]}
MinTurn(h) ==
  /\ TurnOf(h) = 0
  /\ IF MinOf(h) \in DOMAIN states THEN OnMinState(h, MinOf(h)) ELSE UNCHANGED <<states, told, stop>>
  /\ MarkEarly(MinOf(h))
  /\ tasks' = tasks \ {h}
OnNewBars(h) ==
  /\ h.at = "feed" /\ ~Refused(h)
  /\ BigTurn(h) \/ MinTurn(h)
  /\ UNCHANGED <<now, spider, wire, up, job, bad, dropped>>

(* The exchange fails to answer fillLacks: the task ends and the cache is as  *)
(* it was.                                                                    *)
FillFails(h) ==
  /\ Faulty /\ h.at \in FailAt /\ bad < MaxFail
  /\ \/ h.at = "watch" /\ Lacks(job, Head(h.bars).t)
     \/ /\ h.at = "feed" /\ ~Refused(h) /\ TurnOf(h) > 0
        /\ \E tf \in DOMAIN states :
             /\ Place(tf) = TurnOf(h)
             /\ Lacks([next |-> states[tf].sub], Head(SmallBars(h, MinOf(h), <<>>)).t)
  /\ bad' = bad + 1
  /\ tasks' = tasks \ {h}
  /\ UNCHANGED <<now, spider, wire, up, job, states, told, stop, dropped, refresh>>

-----------------------------------------------------------------------------
(* Subscription *)

\* SubTfs: the states that stay, the new ones and one all can be built of.
SubTfs(old, tfs) ==
  [tf \in tfs \cup {Gcd(tfs)} |->
     IF tf \in DOMAIN old THEN old[tf] ELSE [sub |-> 0, next |-> 0, wait |-> NoBar]]

\* WarmTfs: the time frames were warmed with the bars up to cur.
WarmTfs(sts, tfs, cur) ==
  [tf \in DOMAIN sts |-> IF tf \in tfs THEN [sts[tf] EXCEPT !.sub = Align(cur, tf)] ELSE sts[tf]]

\* WatchJobs keeps the job it has; a new one starts where the warming ended.
WatchJobs(jobs, m, since) == IF jobs.tf # 0 THEN jobs ELSE [tf |-> m, next |-> since, wait |-> NoBar]
NoJob == [tf |-> 0, next |-> 0, wait |-> NoBar]

\* The end of the bars the environments were warmed with, the latest of all.
Since(tfs, cur) == CHOOSE s \in {Align(cur, tf) : tf \in tfs} : \A tf \in tfs : Align(cur, tf) <= s

(* LiveProvider.SubWarmPairs with the time frames of a refresh, a job of the  *)
(* bot's cron: the time frames are subscribed, then warmed one by one up to   *)
(* cur, with downloads in between, while bars go on coming.  todo are those   *)
(* to be warmed; the environment of the one in given has its bars already.    *)
(* early: a time frame got bars before it was warmed.                         *)
NoRefresh == [at |-> "done", cur |-> 0, todo |-> {}, given |-> {}, early |-> FALSE]
At(step) == Later # {} /\ refresh.at = step

SubPairs ==
  /\ At("due")
  /\ refresh' = [refresh EXCEPT !.at = "subscribed", !.todo = Later \ DOMAIN states]
  /\ states' = SubTfs(states, Later)
  /\ told' = [tf \in DOMAIN states' |-> IF tf \in DOMAIN told THEN told[tf] ELSE <<>>]
  /\ stop' = [tf \in DOMAIN states' |-> IF tf \in DOMAIN stop THEN stop[tf] ELSE 0]
  /\ UNCHANGED <<now, spider, wire, up, job, tasks, bad, dropped>>

WarmJobs ==
  /\ At("subscribed")
  /\ refresh' = [refresh EXCEPT !.at = "warm", !.cur = now]
  /\ UNCHANGED <<now, spider, wire, up, bot, bad, dropped>>

\* warmTf: the environment is reset and given its bars, then SubNextMS is set.
WarmEnv(tf) ==
  /\ At("warm") /\ refresh.given = {}
  /\ refresh' = [refresh EXCEPT !.given = {tf}]
  /\ told' = [told EXCEPT ![tf] = <<>>]
  /\ stop' = [stop EXCEPT ![tf] = Align(refresh.cur, tf)]
  /\ UNCHANGED <<now, spider, wire, up, job, tasks, states, bad, dropped>>
SetSubNext ==
  /\ At("warm") /\ refresh.given # {}
  /\ refresh' = [refresh EXCEPT !.todo = @ \ refresh.given, !.given = {}]
  /\ states' = WarmTfs(states, refresh.given, refresh.cur)
  /\ UNCHANGED <<now, spider, wire, up, job, tasks, told, stop, bad, dropped>>

\* The download of the bars fails, and with it the refresh.
WarmFails ==
  /\ Faulty /\ "warm" \in FailAt /\ bad < MaxFail
  /\ At("warm") /\ refresh.todo # {} /\ refresh.given = {}
  /\ bad' = bad + 1
  /\ refresh' = [refresh EXCEPT !.at = "done"]
  /\ UNCHANGED <<now, spider, wire, up, bot, dropped>>

WatchPairs ==
  /\ At("warm") /\ refresh.todo = {}
  /\ refresh' = [refresh EXCEPT !.at = "done"]
  /\ job' = WatchJobs(job, MinTf(states), Since(Later, refresh.cur))
  /\ UNCHANGED <<now, spider, wire, up, tasks, states, told, stop, bad, dropped>>

WarmPairs == WarmJobs \/ (\E tf \in refresh.todo : WarmEnv(tf)) \/ SetSubNext \/ WatchPairs

(* The bot has started: warmed, and watched by a spider that is new to the    *)
(* pair or has fetched it for another bot.                                    *)
Init ==
  /\ now = Start
  /\ ticked = Start
  /\ expect \in {Unwatched, Start - 1, Start}
  /\ saving = <<>> /\ wire = <<>> /\ up = TRUE
  /\ states = WarmTfs(SubTfs([tf \in {} |-> 0], Tfs), Tfs, now)
  /\ told = [tf \in DOMAIN states |-> <<>>]
  /\ stop = [tf \in DOMAIN states |-> IF tf \in Tfs THEN Align(now, tf) ELSE 0]
  /\ job = WatchJobs(NoJob, MinTf(states), Since(Tfs, now))
  /\ tasks = {}
  /\ bad = 0 /\ dropped = 0
  /\ refresh = IF Later = {} THEN NoRefresh ELSE [NoRefresh EXCEPT !.at = "due"]

\* A 1m bar is finished; the last one of the model while the pair is watched.
Minute ==
  /\ now < Stop
  /\ now + 1 = Stop => up /\ expect # Unwatched
  /\ now' = now + 1
  /\ UNCHANGED <<spider, wire, up, bot, bad, dropped, refresh>>

\* Spider and bot have something to do: ENABLED <<Spider \/ Bot>>_vars.
Busy ==
  \/ ~up \/ expect = Unwatched \/ ticked < now
  \/ saving # <<>> \/ wire # <<>> \/ tasks # {}
  \/ At("subscribed") \/ At("warm")

Spider == RefreshKlines \/ \E i \in DOMAIN saving : Broadcast(i)
Bot ==
  \/ Watch
  \/ Receive
  \/ \E h \in tasks : OnSpiderBar(h) \/ OnNewBars(h) \/ Refuse(h)
  \/ WarmPairs
Next ==
  \/ Minute
  \/ Spider
  \/ RefreshFails
  \/ \E crash \in BOOLEAN : Disconnect(crash)
  \/ Bot
  \/ \E h \in tasks : FillFails(h)
  \/ SubPairs
  \/ WarmFails
Spec == Init /\ [][Next]_vars

(* Time passes, and every goroutine that can go on does: the second part is   *)
(* weak fairness of Spider \/ Bot, Busy written for its ENABLED.              *)
Fair == WF_vars(Minute) /\ ([]<>~Busy \/ []<><<Spider \/ Bot>>_vars)
FairSpec == Spec /\ Fair
-----------------------------------------------------------------------------
(* Properties *)

Subscribed == IF At("due") \/ Later = {} THEN Tfs ELSE Later

TypeOK ==
  /\ ConstantsFit
  /\ now \in Start .. Stop /\ ticked \in Start .. Stop
  /\ expect \in {Unwatched} \cup (Start - 1 .. Stop)
  /\ Len(saving) <= SaveWorkers /\ Cardinality(tasks) <= Handlers
  /\ tasks \subseteq Task
  /\ DOMAIN states = DOMAIN told /\ DOMAIN told = DOMAIN stop
  /\ Subscribed \subseteq DOMAIN states
  /\ refresh.given \subseteq refresh.todo /\ refresh.todo \subseteq DOMAIN states
  /\ \A h \in tasks : h.min = 0 \/ h.left < Cardinality(DOMAIN states)
  /\ \A tf \in DOMAIN told : \A i \in DOMAIN told[tf] : told[tf][i].t % tf = 0

\* An environment is given bars in the order of time, none twice (NextMS, TimeStop).
InOrder == \A tf \in DOMAIN told : \A i \in 2 .. Len(told[tf]) : told[tf][i - 1].t < told[tf][i].t

\* A bar an environment is given has all 1m bars of its period (fillLacks, BuildOHLCV).
Whole(tf) == \A i \in DOMAIN told[tf] : told[tf][i].ps = told[tf][i].t .. told[tf][i].t + tf - 1
AllWhole == \A tf \in Subscribed : Whole(tf)

\* Between two bars of an environment none is missing (fillLacks).
NoGap(tf) == \A i \in 2 .. Len(told[tf]) : told[tf][i].t = told[tf][i - 1].t + tf
NoneMissing == \A tf \in Subscribed : NoGap(tf)
=============================================================================
