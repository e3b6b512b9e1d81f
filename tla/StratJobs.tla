-------------------------------- MODULE StratJobs -------------------------------
(* The pairs a bot trades are chosen again and again (strat/main.go            *)
(* LoadStratJobs, biz/biz.go RefreshJobs): jobs of a strategy on a pair start, *)
(* go on without opening orders, or end, and the orders of those that end are  *)
(* closed.  Jobs are known by their pair, time frame and strategy.             *)
EXTENDS Integers, Sequences, FiniteSets, FiniteSetsExt, SequencesExt, Functions
CONSTANTS
  Accounts, Pairs, Tfs,
  Policies,      \* the policies, a sequence of strategies
  MaxPair,       \* max_pair of a policy, or 0
  AccMaxPair,    \* max_pair of an account, or 0
  OnRotation,    \* OrderOnRotation of each strategy: "close", "hold" or "open"
  HoldPosition,  \* pos_on_rotation is "hold"
  MaxOrders, MaxRefresh
VARIABLES
  jobs,          \* AccJobs: of an account, from job to [open: it may open orders, env]
  envs,          \* Envs: from pair and time frame to the environment, 0 if none
  pairStrats,    \* PairStrats: pairs with a strategy
  ods,           \* open orders: [id, acc, job, filled]
  made,          \* environments and orders made so far
  refreshes, left \* refreshes so far; orders whose job ended with the last one and which stayed
vars == <<jobs, envs, pairStrats, ods, made, refreshes, left>>

Keys == Pairs \X Tfs
Jobs == Pairs \X Tfs \X Range(Policies)
EnvOf(j) == <<j[1], j[2]>>
NoTf == "none"
Limit(max, n) == IF max = 0 THEN n ELSE max
Init ==
  /\ jobs = [a \in Accounts |-> <<>>] /\ envs = [k \in Keys |-> 0] /\ pairStrats = {}
  /\ ods = {} /\ made = [env |-> 0, od |-> 0] /\ refreshes = 0 /\ left = {}

OrdersOf(a, j) == {od \in ods : od.acc = a /\ od.job = j}
\* A job that may opens an order, which fills and ends.
OpenOrder(a, j) ==
  /\ j \in DOMAIN jobs[a] /\ jobs[a][j].open /\ made.od < MaxOrders
  /\ ods' = ods \cup {[id |-> made.od + 1, acc |-> a, job |-> j, filled |-> FALSE]}
  /\ made' = [made EXCEPT !.od = @ + 1]
  /\ UNCHANGED <<jobs, envs, pairStrats, refreshes, left>>
FillOrder(od) ==
  /\ ~od.filled /\ ods' = (ods \ {od}) \cup {[od EXCEPT !.filled = TRUE]}
  /\ UNCHANGED <<jobs, envs, pairStrats, made, refreshes>> /\ left' = {}
CloseOrder(od) ==
  /\ ods' = ods \ {od} /\ UNCHANGED <<jobs, envs, pairStrats, made, refreshes>> /\ left' = {}
-----------------------------------------------------------------------------
\* resetJobs: no job may open, but those with orders of a strategy that allows it.
ResetJobs ==
  [a \in Accounts |-> [j \in DOMAIN jobs[a] |->
     IF OnRotation[j[3]] = "open" /\ OrdersOf(a, j) # {} THEN jobs[a][j] ELSE [jobs[a][j] EXCEPT !.open = FALSE]]]

(* newAccStratLimits, tryAdd: jobs of a strategy that an account may have.     *)
MayAddTo(S, a, s) == AccMaxPair = 0 \/ S.lim[a][s] < AccMaxPair
TryAdd(S, a, s) == IF MayAddTo(S, a, s) THEN [S EXCEPT !.lim[a][s] = @ + 1] ELSE S
OpenJobs(S, a) == {j \in DOMAIN S.jobs[a] : S.jobs[a][j].open}

(* The jobs that may open count for a policy before it gets its pairs: those   *)
(* of every strategy, once for each account, and again for each policy.        *)
CountOld(S) ==
  LET olds == {<<a, j>> \in Accounts \X Jobs : j \in OpenJobs(S, a)} IN
  FoldSet(LAMBDA x, T : TryAdd(T, x[1], x[2][3]),
          [S EXCEPT !.hold = Cardinality(olds), !.pairs = {x[2][1] : x \in olds}], olds)

\* initBarEnv
NoEnv(S, k) == S
InitBarEnv(S, k) == IF S.envs[k] # 0 THEN S ELSE [S EXCEPT !.envs[k] = S.env + 1, !.env = @ + 1]
\* markStratJob: the job of the strategy and pair is there already.
MarkJob(S, a, j) ==
  IF j \in DOMAIN S.jobs[a] /\ ~S.jobs[a][j].open /\ MayAddTo(S, a, j[3])
  THEN [TryAdd(S, a, j[3]) EXCEPT !.jobs[a][j].open = TRUE] ELSE S
MarkStratJob(S, j) ==
  LET T == FoldSet(LAMBDA a, U : MarkJob(U, a, j), S, Accounts) IN
  [T EXCEPT !.hold = IF T.lim # S.lim THEN @ + 1 ELSE @]
\* ensureStratJob: a new job where the account may have it, an old one may open again.
EnsureJob(S, a, j) ==
  IF ~MayAddTo(S, a, j[3]) THEN S
  ELSE [TryAdd(S, a, j[3]) EXCEPT !.jobs[a] =
          [x \in DOMAIN @ \cup {j} |-> IF x # j THEN @[x]
                                       ELSE [open |-> TRUE, env |-> IF j \in DOMAIN @ THEN @[j].env ELSE S.envs[EnvOf(j)]]]]
EnsureStratJob(S, j) == FoldSet(LAMBDA a, U : EnsureJob(U, a, j), S, Accounts)

AddAnyway(S, s) == FALSE
IsFull(S, s) == S.hold >= Limit(MaxPair, S.most) \/ Cardinality(S.pairs) >= Limit(MaxPair, S.most)
\* A pair that was chosen, with the time frame its scores allow.
AddPair(S, s, pair, tf) ==
  LET T == [S EXCEPT !.pairs = @ \cup {pair}]
      j == <<pair, tf, s>> IN
  IF IsFull(S, s) THEN S
  ELSE IF tf = NoTf THEN T
  ELSE IF <<pair, s>> \in S.ps THEN MarkStratJob(T, j)
  ELSE EnsureStratJob(InitBarEnv([T EXCEPT !.ps = @ \cup {<<pair, s>>}, !.hold = @ + 1], EnvOf(j)), j)
AddPolicy(S, s, list, tf) == FoldLeft(LAMBDA T, pair : AddPair(T, s, pair, tf[pair]), CountOld(S), list)
-----------------------------------------------------------------------------
(* What is left of the jobs: one that may not open stays for its entered       *)
(* orders, if positions are held; else it ends, and its orders are closed if   *)
(* one of them has entered.                                                    *)
Entered(a, j) == \E od \in OrdersOf(a, j) : od.filled
OpenOnly(S, a, j) == S.jobs[a][j].open
Stays(S, a, j) == S.jobs[a][j].open \/ (HoldPosition /\ Entered(a, j))
Kept(S) == [a \in Accounts |-> Restrict(S.jobs[a], {j \in DOMAIN S.jobs[a] : Stays(S, a, j)})]
EndedOf(S) == {<<a, j>> \in Accounts \X Jobs : j \in DOMAIN S.jobs[a] /\ ~Stays(S, a, j)}
OfEndedPairs(S) ==
  UNION {IF Entered(x[1], x[2]) THEN OrdersOf(x[1], x[2]) ELSE {} :
         x \in {y \in EndedOf(S) : ~\E a \in Accounts : \E j \in DOMAIN Kept(S)[a] : j[1] = y[2][1]}}
ExitOds(S) == UNION {IF Entered(x[1], x[2]) THEN OrdersOf(x[1], x[2]) ELSE {} : x \in EndedOf(S)}
AllKept(kept) == UNION {DOMAIN kept[a] : a \in Accounts}
AllEnvs(kept) == Keys
EnvsOf(kept) == {EnvOf(j) : j \in AllKept(kept)}

Loaded(list, tf) ==
  FoldLeft(LAMBDA S, s : AddPolicy(S, s, list, tf),
           [jobs |-> ResetJobs, envs |-> envs, ps |-> pairStrats, env |-> made.env, hold |-> 0, pairs |-> {},
            lim |-> [a \in Accounts |-> [s \in Range(Policies) |-> 0]], most |-> IF AccMaxPair = 0 THEN 999 ELSE AccMaxPair],
           Policies)
RefreshJobs(list, tf) ==
  LET S == Loaded(list, tf)
      kept == Kept(S) IN
  /\ refreshes < MaxRefresh /\ refreshes' = refreshes + 1
  /\ jobs' = kept /\ made' = [made EXCEPT !.env = S.env]
  /\ envs' = [k \in Keys |-> IF k \in EnvsOf(kept) THEN S.envs[k] ELSE 0]
  /\ pairStrats' = {x \in S.ps : \E j \in AllKept(kept) : j[1] = x[1] /\ j[3] = x[2]}
  /\ ods' = ods \ ExitOds(S)
  /\ left' = {od \in ods' : \E x \in EndedOf(S) : od \in OrdersOf(x[1], x[2])}
Lists == UNION {SetToSeqs(P) : P \in SUBSET Pairs \ {{}}}
Next ==
  \/ \E list \in Lists, tf \in [Pairs -> Tfs \cup {NoTf}] : RefreshJobs(list, tf)
  \/ \E a \in Accounts, j \in Jobs : OpenOrder(a, j)
  \/ \E od \in ods : FillOrder(od) \/ CloseOrder(od)
Spec == Init /\ [][Next]_vars
-----------------------------------------------------------------------------
TypeOK ==
  /\ \A a \in Accounts : DOMAIN jobs[a] \subseteq Jobs /\ \A j \in DOMAIN jobs[a] : jobs[a][j].env \in 1 .. made.env
  /\ envs \in [Keys -> 0 .. made.env] /\ pairStrats \subseteq Pairs \X Range(Policies)
  /\ ods \subseteq [id : 1 .. made.od, acc : Accounts, job : Jobs, filled : BOOLEAN] /\ refreshes \in 0 .. MaxRefresh

(* The jobs of a strategy that may open stay within max_pair of its policy and *)
(* of each account, over refreshes that keep some of the old ones.             *)
OpenOf(a, s) == {j \in DOMAIN jobs[a] : j[3] = s /\ jobs[a][j].open}
JobsBounded ==
  \A a \in Accounts, s \in Range(Policies) :
    /\ MaxPair > 0 => Cardinality(OpenOf(a, s)) <= MaxPair
    /\ AccMaxPair > 0 => Cardinality(OpenOf(a, s)) <= AccMaxPair
(* A job works on the environment its bars go to, and an environment is kept   *)
(* as long as a job of an account needs it, and no longer.                     *)
EnvsFit ==
  /\ \A a \in Accounts : \A j \in DOMAIN jobs[a] : jobs[a][j].env = envs[EnvOf(j)]
  /\ \A k \in Keys : envs[k] # 0 => \E a \in Accounts : \E j \in DOMAIN jobs[a] : EnvOf(j) = k
(* An order that has entered is closed when its job ends, or the job goes on   *)
(* with it.                                                                    *)
NoneLeftEntered == \A od \in left : ~od.filled
(* With positions held, no refresh ends a job that has an entered order.       *)
HeldStep ==
  HoldPosition => \A od \in ods : od.filled /\ od.job \in DOMAIN jobs[od.acc] /\ refreshes' # refreshes =>
    od \in ods' /\ od.job \in DOMAIN jobs'[od.acc]
HeldStay == [][HeldStep]_vars
(* Every open order has a job that follows it.                                 *)
NoOrphans == \A od \in ods : od.job \in DOMAIN jobs[od.acc]
=============================================================================
