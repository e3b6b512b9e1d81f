------------------------------- MODULE OpenLimits -------------------------------
(* How many orders an account opens (biz/odmgr.go): a bar of a pair lets its   *)
(* strategies ask for entries, and ProcessOrders cuts what they ask by the     *)
(* limits of the account and of the strategy's policy before it enters them.   *)
EXTENDS Integers, FiniteSets, Functions
CONSTANTS
  Strats, Pairs,
  Tf,            \* time frame of a pair, in ticks
  Parallel,      \* the bars of the pairs are handled side by side, as in live mode
  MaxOpenOrders, MaxSimulOpen,       \* max_open_orders, max_simul_open of the account
  PolMaxOpen, PolMaxSimul,           \* max_open, max_simul_open of a policy
  JobMaxOpen,    \* MaxOpenLong of a job
  MaxReqs,       \* entries a strategy asks for at once
  MaxAsked, MaxTicks
VARIABLES
  now, due,      \* the clock; pairs whose bar has come
  barMS, simulOpen, simulOpenSt,     \* BarMS, simulOpen, simulOpenSt of the OrderMgr
  open,          \* open orders: [id, strat, pair]
  work,          \* the bar of a pair that is handled: its step, jobs to do, requests, counts
  noEnter,       \* NoEnterUntil lies ahead
  asked, refused, dropped, entered, \* requests made, counted as failed, lost to an error or a ban, entered
  inTick         \* orders of a strategy entered at this time
vars == <<now, due, barMS, simulOpen, simulOpenSt, open, work, noEnter, asked, refused, dropped, entered, inTick>>

\* Limits of 0 do not limit.
ConstantsFit ==
  /\ IsFiniteSet(Strats) /\ IsFiniteSet(Pairs) /\ Tf \in [Pairs -> Nat \ {0}]
  /\ {MaxOpenOrders, MaxSimulOpen, PolMaxOpen, PolMaxSimul, JobMaxOpen, MaxReqs, MaxAsked, MaxTicks} \subseteq Nat

NoWork == [at |-> "idle", jobs |-> {}, strat |-> "none", reqs |-> 0, num |-> 0]
\* The pair's work goes on for the same strategy.
Goes(w, at, reqs, num) == [at |-> at, jobs |-> w.jobs, strat |-> w.strat, reqs |-> reqs, num |-> num]
OfStrat(s) == {od \in open : od.strat = s}
LongOrders(s, p) == {od \in open : od.strat = s /\ od.pair = p}

Init ==
  /\ now = 0 /\ due = {} /\ barMS = -1 /\ simulOpen = 0 /\ simulOpenSt = [s \in Strats |-> 0]
  /\ open = {} /\ work = [p \in Pairs |-> NoWork] /\ noEnter = FALSE
  /\ asked = 0 /\ refused = 0 /\ dropped = 0 /\ entered = 0 /\ inTick = [s \in Strats |-> 0]

Tick ==
  /\ now < MaxTicks /\ (Parallel \/ (due = {} /\ \A p \in Pairs : work[p] = NoWork))
  /\ now' = now + 1 /\ due' = due \cup {p \in Pairs : (now + 1) % Tf[p] = 0}
  /\ inTick' = [s \in Strats |-> 0]
  /\ UNCHANGED <<barMS, simulOpen, simulOpenSt, open, work, noEnter, asked, refused, dropped, entered>>

\* onAccountKline: every job of the pair gets the bar in turn.
OnAccountKline(p) ==
  /\ p \in due /\ work[p] = NoWork /\ (Parallel \/ \A q \in Pairs : work[q] = NoWork)
  /\ due' = due \ {p} /\ work' = [work EXCEPT ![p] = [at |-> "bar", jobs |-> Strats, strat |-> "none", reqs |-> 0, num |-> 0]]
  /\ UNCHANGED <<now, barMS, simulOpen, simulOpenSt, open, noEnter, asked, refused, dropped, entered, inTick>>

(* InitBar, OnBar: OpenOrder refuses when the job has its orders (CanOpen),    *)
(* and does not count the requests of this bar.                                *)
CanOpen(s, p) == JobMaxOpen = 0 \/ Cardinality(LongOrders(s, p)) < JobMaxOpen
OnBar(p, s, n) ==
  /\ work[p].at = "bar" /\ s \in work[p].jobs
  /\ asked' = asked + n
  /\ IF CanOpen(s, p)
     THEN /\ work' = [work EXCEPT ![p] = [at |-> "check", jobs |-> @.jobs \ {s}, strat |-> s, reqs |-> n, num |-> 0]]
          /\ UNCHANGED refused
     ELSE /\ work' = [work EXCEPT ![p] = [at |-> "bar", jobs |-> @.jobs \ {s}, strat |-> "none", reqs |-> 0, num |-> 0]]
          /\ refused' = refused + n
  /\ UNCHANGED <<now, due, barMS, simulOpen, simulOpenSt, open, noEnter, dropped, entered, inTick>>
BarDone(p) ==
  /\ work[p].at = "bar" /\ work[p].jobs = {} /\ work' = [work EXCEPT ![p] = NoWork]
  /\ UNCHANGED <<now, due, barMS, simulOpen, simulOpenSt, open, noEnter, asked, refused, dropped, entered, inTick>>

Least(a, b) == IF a < b THEN a ELSE b
\* checkOrderNum: what may be kept of num requests.
CheckOrderNum(num, oldNum, maxNum) ==
  IF maxNum = 0 THEN num ELSE IF maxNum > oldNum THEN Least(num, maxNum - oldNum) ELSE 0
NextBar(t, tf) == t - (t % tf) + tf
AlignTf(t, tf) == t - (t % tf)
(* allowOrderEnter, first half: a new bar resets what was opened at once, and  *)
(* the requests are cut by the limits of the account. It compares              *)
(* MaxOpenOrders with the number of requests, not with the open orders.        *)
AlwaysReset(p) == 0
SimulOpen(p) == IF barMS < AlignTf(now, Tf[p]) THEN 0 ELSE simulOpen
SimulOpenSt(p) == IF barMS < AlignTf(now, Tf[p]) THEN [s \in Strats |-> 0] ELSE simulOpenSt
Kept(p, n) == CheckOrderNum(CheckOrderNum(n, n, MaxOpenOrders), SimulOpen(p), MaxSimulOpen)
AtBar(w) == [at |-> "bar", jobs |-> w.jobs, strat |-> "none", reqs |-> 0, num |-> 0]
CheckNum(p) ==
  LET kept == Kept(p, work[p].reqs) IN
  /\ work[p].at = "check" /\ ~noEnter
  /\ barMS' = IF barMS < AlignTf(now, Tf[p]) THEN AlignTf(now, Tf[p]) ELSE barMS
  /\ simulOpen' = SimulOpen(p) /\ simulOpenSt' = SimulOpenSt(p)
  /\ refused' = refused + work[p].reqs - kept
  /\ work' = [work EXCEPT ![p] = IF kept = 0 THEN AtBar(@) ELSE Goes(@, "count", kept, 0)]
  /\ UNCHANGED <<now, due, open, noEnter, asked, dropped, entered, inTick>>
\* The account may not enter, or the pair is banned.
Forbidden(p) ==
  /\ work[p].at = "check" /\ work' = [work EXCEPT ![p] = AtBar(@)]
  /\ \/ noEnter /\ refused' = refused + work[p].reqs /\ UNCHANGED dropped
     \/ dropped' = dropped + work[p].reqs /\ UNCHANGED refused
  /\ UNCHANGED <<now, due, barMS, simulOpen, simulOpenSt, open, noEnter, asked, entered, inTick>>
\* Second half: the open orders of the strategy, counted under their lock.
CountOfPair(p, s) == Cardinality(LongOrders(s, p))
StratOdNum(p, s) == Cardinality(OfStrat(s))
CountOpen(p) ==
  /\ work[p].at = "count"
  /\ work' = [work EXCEPT ![p] = Goes(@, "permit", @.reqs, StratOdNum(p, @.strat))]
  /\ UNCHANGED <<now, due, barMS, simulOpen, simulOpenSt, open, noEnter, asked, refused, dropped, entered, inTick>>
\* What the policy leaves of n requests, with num orders open and simul of this bar.
UpTo(n, oldNum, maxNum) == IF maxNum = 0 THEN n ELSE IF oldNum >= maxNum THEN 0 ELSE Least(n, maxNum - oldNum)
Permitted(n, num, simul) == UpTo(UpTo(n, num, PolMaxOpen), simul, PolMaxSimul)
NoSkips(n, k) == 0
Skipped(n, k) == n - k
Permit(p) ==
  LET w == work[p]
      k == Permitted(w.reqs, w.num, simulOpenSt[w.strat]) IN
  /\ w.at = "permit"
  /\ simulOpen' = simulOpen + k /\ simulOpenSt' = [simulOpenSt EXCEPT ![w.strat] = @ + k]
  /\ refused' = refused + Skipped(w.reqs, k)
  /\ work' = [work EXCEPT ![p] = Goes(@, "enter", k, 0)]
  /\ UNCHANGED <<now, due, barMS, open, noEnter, asked, dropped, entered, inTick>>

\* enterOrder saves the order; an error ends the handling of the bar.
EnterOrder(p) ==
  LET w == work[p] IN
  /\ w.at = "enter" /\ w.reqs > 0
  /\ open' = open \cup {[id |-> entered + 1, strat |-> w.strat, pair |-> p]} /\ entered' = entered + 1
  /\ inTick' = [inTick EXCEPT ![w.strat] = @ + 1]
  /\ work' = [work EXCEPT ![p] = Goes(@, "enter", @.reqs - 1, 1)]
  /\ UNCHANGED <<now, due, barMS, simulOpen, simulOpenSt, noEnter, asked, refused, dropped>>
EnterFails(p) ==
  /\ work[p].at = "enter" /\ work[p].reqs > 0
  /\ dropped' = dropped + work[p].reqs /\ work' = [work EXCEPT ![p] = NoWork]
  /\ UNCHANGED <<now, due, barMS, simulOpen, simulOpenSt, open, noEnter, asked, refused, entered, inTick>>
\* OnOrderChange, told of the orders, may ask again: ProcessOrders calls itself.
OnOrderChange(p, n) ==
  LET w == work[p] IN
  /\ w.at = "enter" /\ w.reqs = 0 /\ (n = 0 \/ w.num = 1)
  /\ n > 0 => CanOpen(w.strat, p)
  /\ asked' = asked + n
  /\ work' = [work EXCEPT ![p] = IF n = 0 THEN AtBar(@) ELSE Goes(@, "check", n, 0)]
  /\ UNCHANGED <<now, due, barMS, simulOpen, simulOpenSt, open, noEnter, refused, dropped, entered, inTick>>

\* An order ends; entries of the account are stopped, and allowed again.
Close(od) ==
  /\ open' = open \ {od}
  /\ UNCHANGED <<now, due, barMS, simulOpen, simulOpenSt, work, noEnter, asked, refused, dropped, entered, inTick>>
StopEntries ==
  /\ noEnter' = ~noEnter
  /\ UNCHANGED <<now, due, barMS, simulOpen, simulOpenSt, open, work, asked, refused, dropped, entered, inTick>>
-----------------------------------------------------------------------------
ProcessOrders(p) == CheckNum(p) \/ Forbidden(p) \/ CountOpen(p) \/ Permit(p) \/ EnterOrder(p) \/ EnterFails(p)
MayAsk(n) == asked + n <= MaxAsked
Next ==
  \/ Tick \/ StopEntries \/ \E od \in open : Close(od)
  \/ \E p \in Pairs : OnAccountKline(p) \/ BarDone(p) \/ ProcessOrders(p)
  \/ \E p \in Pairs, s \in Strats, n \in {x \in 0 .. MaxReqs : MayAsk(x)} : OnBar(p, s, n)
  \/ \E p \in Pairs, n \in {x \in 0 .. 1 : MayAsk(x)} : OnOrderChange(p, n)
Spec == Init /\ [][Next]_vars
-----------------------------------------------------------------------------
TypeOK ==
  /\ ConstantsFit
  /\ now \in 0 .. MaxTicks /\ due \subseteq Pairs /\ barMS \in -1 .. now
  /\ simulOpen \in Nat /\ simulOpenSt \in [Strats -> Nat]
  /\ open \subseteq [id : 1 .. entered, strat : Strats, pair : Pairs]
  /\ work \in [Pairs -> [at : {"idle", "bar", "check", "count", "permit", "enter"}, jobs : SUBSET Strats,
                         strat : Strats \cup {"none"}, reqs : 0 .. MaxReqs, num : 0 .. MaxAsked]]

(* No more orders are entered on a bar than max_simul_open of the account, nor *)
(* than that of a policy, over all pairs and time frames.                      *)
SimulBounded ==
  /\ SumFunction(inTick) <= MaxSimulOpen
  /\ \A s \in Strats : inTick[s] <= PolMaxSimul
(* A strategy has no more open orders than max_open of its policy.             *)
PolicyBounded == \A s \in Strats : Cardinality(OfStrat(s)) <= PolMaxOpen
(* Every request is entered, counted among the failed opens of the account,    *)
(* or lost to an error or a ban; none is counted twice.                        *)
FailsAddUp == asked = entered + refused + dropped + SumFunction([p \in Pairs |-> work[p].reqs])
(* What the limits of a back test promise of the bars and of the requests.     *)
LimitsKept == SimulBounded /\ PolicyBounded /\ FailsAddUp
(* The account has no more open orders than max_open_orders.                   *)
AccountBounded == Cardinality(open) <= MaxOpenOrders
=============================================================================
