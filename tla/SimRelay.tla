------------------------------- MODULE SimRelay -------------------------------
(* Before a bot trades a pair it has not traded, a back test of the last bars  *)
(* is run inside the bot to find the orders it would hold (opt/backtest.go     *)
(* relayUnFinishOrders, syncSimOrders): those are opened at once, and after a  *)
(* restart those it would have closed are closed.  For that the globals of the *)
(* bot are put aside (biz.go BackupVars) and used by the back test.            *)
(* A strategy is what it does to the bars: Signals holds when it opens an      *)
(* order of a pair and when it closes it.                                      *)
EXTENDS Naturals, Sequences, FiniteSets, FiniteSetsExt, SequencesExt, Functions
CONSTANTS
  Accounts, DefAcc,
  AccMaxPair,    \* max_pair of the accounts, or 0
  Pairs, Policies,
  Tf,            \* the time frame of a policy, in units of the clock
  BarMax,        \* order_bar_max of a policy
  Signals,       \* [pol, pair, in, out]
  Meanwhile,     \* live bars are handled while a refresh goes on
  Rotates,       \* the pairs may be others after a restart
  Fails,         \* the back test or the relay of an order may fail
  MaxNow, MaxRefresh, MaxDown
VARIABLES
  now,
  glob,          \* AccJobs, open orders, ForbidJobs, Accounts, and whether all are the bot's own
  back,          \* what BackupVars put aside
  phase, first,  \* "down", "idle", "sim"; isFirst
  groups,        \* policy groups still to simulate: [pols, start]
  list,          \* core.Pairs
  fed,           \* pairs the bot gets bars of
  end,           \* simEndMs
  opens, dones,  \* relayOpens, relayDones
  refreshes, downs
vars == <<now, glob, back, phase, first, groups, list, fed, end, opens, dones, refreshes, downs>>

JobOf(x) == <<x.pol, x.pair>>
NoJobs == [a \in Accounts |-> {}]
NoOds == [a \in Accounts |-> {}]
\* Orders are known by their signal (KeyAlign); a second one for it has number 2.
Put(S, X) == S \cup {<<x, IF <<x, 1>> \in S THEN 2 ELSE 1>> : x \in X}
Drop(S, X) == {o \in S : o[1] \notin X}
HeldBy(S) == {o[1] : o \in S}
Fresh == [jobs |-> NoJobs, ods |-> NoOds, forbid |-> {}, accs |-> Accounts, own |-> TRUE]
Init ==
  /\ now = 0 /\ glob = Fresh /\ back = Fresh /\ phase = "down" /\ first = FALSE
  /\ groups = <<>> /\ list = <<>> /\ fed = {} /\ end = 0 /\ opens = {} /\ dones = {}
  /\ refreshes = 0 /\ downs = 0
-----------------------------------------------------------------------------
(* A bar is handled by the jobs the globals hold; when the bot is down none is. *)
Handled(a) == {x \in Signals : phase # "down" /\ a \in glob.accs /\ x.pair \in fed /\ JobOf(x) \in glob.jobs[a]}
AfterBar(a, t) ==
  Put(Drop(glob.ods[a], {x \in Handled(a) : x.out = t}), {x \in Handled(a) : x.in = t})
FeedKLine ==
  /\ now < MaxNow /\ (phase = "sim" => Meanwhile) /\ (phase = "down" => downs < MaxDown)
  /\ now' = now + 1
  /\ glob' = [glob EXCEPT !.ods = [a \in Accounts |-> AfterBar(a, now + 1)]]
  /\ downs' = downs + (IF phase = "down" THEN 1 ELSE 0)
  /\ UNCHANGED <<back, phase, first, groups, list, fed, end, opens, dones, refreshes>>

\* The bot stops; its orders are in the database.
Stop ==
  /\ phase = "idle" /\ glob.own /\ phase' = "down" /\ downs' = 0
  /\ glob' = [Fresh EXCEPT !.ods = glob.ods]
  /\ fed' = {}
  /\ UNCHANGED <<now, back, first, groups, list, end, opens, dones, refreshes>>
-----------------------------------------------------------------------------
(* LoadStratJobs as far as it counts here: the policies on the first pairs, up *)
(* to the limit of the account; a job that may not run takes its place.  Each  *)
(* policy has a max_pair of its own, above the number of jobs; without one the *)
(* open jobs of the policies before it would use up the largest limit of an    *)
(* account, as StratJobs has it (CountOld).                                    *)
FirstPairs(lst, n) == IF n = 0 \/ n > Len(lst) THEN Range(lst) ELSE Range(SubSeq(lst, 1, n))
LoadStratJobs(pols, lst, n, forbid) == (pols \X FirstPairs(lst, n)) \ forbid

\* MergeAccounts: the largest limit, if the default account has one.
MergedMaxPair == IF AccMaxPair[DefAcc] = 0 THEN 0 ELSE Max({AccMaxPair[a] : a \in Accounts})

(* RelayPolicyGroups: policies whose time frame is at most five times the      *)
(* shortest of the group run together, from the earliest start of any.         *)
FirstPols(S) == {s \in S : \A t \in S : Tf[s] <= Tf[t]}
Together(S) == {s \in S : \A t \in FirstPols(S) : Tf[s] <= 5 * Tf[t]}
Later(S) == S \ Together(S)
GroupSets == LET f[i \in Nat] == IF i = 0 THEN Policies ELSE Later(f[i - 1])
             IN SelectSeq([i \in 1 .. Cardinality(Policies) |-> Together(f[i - 1])], LAMBDA S : S # {})
LatestStart(S) == LET late == {IF now > Tf[s] * BarMax[s] THEN now - Tf[s] * BarMax[s] ELSE 0 : s \in S} IN Max(late)
StartOf(S) == LET early == {IF now > Tf[s] * BarMax[s] THEN now - Tf[s] * BarMax[s] ELSE 0 : s \in S} IN Min(early)
RelayPolicyGroups == [i \in DOMAIN GroupSets |-> [pols |-> GroupSets[i], start |-> StartOf(GroupSets[i])]]

\* GetJobKeys looks at one account, whichever comes first.
JobKeys == {glob.jobs[a] : a \in glob.accs}

\* RefreshJobs: an order whose job ends is closed.
Refreshed(lst) ==
  LET new == [a \in Accounts |-> IF a \in glob.accs THEN LoadStratJobs(Policies, lst, AccMaxPair[a], glob.forbid) ELSE glob.jobs[a]]
      ended(a) == {x \in Signals : JobOf(x) \in glob.jobs[a] \ new[a]}
  IN [glob EXCEPT !.jobs = new, !.ods = [a \in Accounts |-> Drop(@[a], ended(a))]]

Merged(g) == [g EXCEPT !.accs = {DefAcc}, !.own = FALSE]
(* RefreshPairJobs up to the first group: new jobs, BackupVars, MergeAccounts. *)
RefreshPairJobs(lst) ==
  /\ phase \in {"idle", "down"} /\ refreshes < MaxRefresh
  /\ \E forbid \in JobKeys :
       /\ back' = Refreshed(lst)
       /\ glob' = [Merged(Refreshed(lst)) EXCEPT !.forbid = forbid]
  /\ phase' = "sim" /\ first' = (phase = "down") /\ groups' = RelayPolicyGroups
  /\ list' = lst /\ end' = now /\ opens' = {} /\ dones' = {} /\ refreshes' = refreshes + 1
  /\ UNCHANGED <<now, fed, downs>>
Restart(lst) == phase = "down" /\ (Rotates \/ list \in {<<>>, lst}) /\ RefreshPairJobs(lst)
Rotation(lst) == phase = "idle" /\ lst # list /\ RefreshPairJobs(lst)

(* One group: the globals are reset and the back test runs over its bars.      *)
SimJobs(g) == LoadStratJobs(g.pols, list, MergedMaxPair, glob.forbid)
Found(g) == {x \in Signals : JobOf(x) \in SimJobs(g) /\ x.in >= g.start /\ x.in <= end}
Unfinished(X) == {x \in X : x.out > end}
ResetVars(g, held) ==
  [Fresh EXCEPT !.jobs[DefAcc] = SimJobs(g), !.forbid = glob.forbid, !.accs = {DefAcc}, !.own = FALSE,
                !.ods[DefAcc] = Put({}, held)]
SimGroup ==
  /\ phase = "sim" /\ groups # <<>>
  /\ LET g == Head(groups) IN
       /\ glob' = ResetVars(g, Unfinished(Found(g)))
       /\ opens' = opens \cup Unfinished(Found(g)) /\ dones' = dones \cup (Found(g) \ Unfinished(Found(g)))
  /\ groups' = Tail(groups)
  /\ UNCHANGED <<now, back, phase, first, list, fed, end, refreshes, downs>>
\* An error leaves relayUnFinishOrders at once.
SimFails ==
  /\ Fails /\ phase = "sim" /\ groups # <<>>
  /\ glob' = ResetVars(Head(groups), {}) /\ phase' = "idle"
  /\ UNCHANGED <<now, back, first, groups, list, fed, end, opens, dones, refreshes, downs>>

(* RestoreVars; then syncSimOrders closes what is done and opens what is not   *)
(* open yet, in the accounts that have the job.                                *)
RestoreVars == back
NoneClosed(g) == g
ClosedDelayed(g) ==
  IF ~first THEN g
  ELSE [g EXCEPT !.ods = [a \in Accounts |-> Drop(@[a], dones)]]
AllRelays(g) == [a \in Accounts |-> {x \in opens : JobOf(x) \in g.jobs[a]}]
Relays(g) == [a \in Accounts |-> {x \in opens \ HeldBy(g.ods[a]) : JobOf(x) \in g.jobs[a]}]
RelayOrders(g, X) == [g EXCEPT !.ods = [a \in Accounts |-> Put(@[a], X[a])]]
SyncSimOrders ==
  /\ phase = "sim" /\ groups = <<>>
  /\ LET g == ClosedDelayed(RestoreVars) IN glob' = RelayOrders(g, Relays(g))
  /\ fed' = Range(list) /\ phase' = "idle"
  /\ UNCHANGED <<now, back, first, groups, list, end, opens, dones, refreshes, downs>>
\* One account's relay fails after some of its orders; new pairs get no bars.
RelayFails ==
  /\ Fails /\ phase = "sim" /\ groups = <<>>
  /\ LET g == ClosedDelayed(RestoreVars) IN
       \E a \in Accounts, before \in SUBSET Accounts, some \in SUBSET opens :
          /\ a \notin before /\ ~(Relays(g)[a] \subseteq some)
          /\ glob' = RelayOrders(g, [c \in Accounts |->
                       IF c \in before THEN Relays(g)[c] ELSE IF c = a THEN Relays(g)[a] \cap some ELSE {}])
  /\ phase' = "idle"
  /\ UNCHANGED <<now, back, first, groups, list, fed, end, opens, dones, refreshes, downs>>

Lists == {l \in UNION {[1 .. n -> Pairs] : n \in 1 .. Cardinality(Pairs)} : IsInjective(l)}
Next ==
  \/ FeedKLine \/ Stop \/ SimGroup \/ SimFails \/ SyncSimOrders \/ RelayFails
  \/ \E lst \in Lists : Rotation(lst) \/ Restart(lst)
Spec == Init /\ [][Next]_vars
-----------------------------------------------------------------------------
TypeOK ==
  /\ now \in 0 .. MaxNow /\ phase \in {"down", "idle", "sim"} /\ first \in BOOLEAN
  /\ \A g \in {glob, back} :
       /\ g.jobs \in [Accounts -> SUBSET (Policies \X Pairs)] /\ g.ods \in [Accounts -> SUBSET (Signals \X {1, 2})]
       /\ g.accs \subseteq Accounts /\ g.own \in BOOLEAN /\ g.forbid \subseteq Policies \X Pairs
  /\ opens \cap dones = {} /\ opens \cup dones \subseteq Signals /\ fed \subseteq Pairs /\ end <= now

(* Between refreshes a job holds an order for every signal that is open,      *)
(* though the job may be newer than the signal, or the bot was down at it.    *)
Trading == phase = "idle" /\ glob.own
IsOpen(x) == x.in <= now /\ now < x.out
HasJob(a, x) == JobOf(x) \in glob.jobs[a]
CaughtUp == Trading => \A a \in Accounts, x \in Signals : HasJob(a, x) /\ IsOpen(x) => x \in HeldBy(glob.ods[a])

(* A job holds no order for a signal that has ended.                          *)
NothingStale == Trading => \A a \in Accounts : \A x \in HeldBy(glob.ods[a]) : HasJob(a, x) => IsOpen(x)

(* No signal has two orders, over refreshes, restarts and failures.           *)
OpenedOnce == \A a \in Accounts, x \in Signals : <<x, 2>> \notin glob.ods[a]
=============================================================================
