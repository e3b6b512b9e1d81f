--------------------------- MODULE OpenLimitsProofs ---------------------------
(* Theorems about OpenLimits, for any strategies, pairs, time frames, limits   *)
(* and requests.                                                               *)
EXTENDS OpenLimits, FiniteSetTheorems, TLAPS

-----------------------------------------------------------------------------
(* Sums.  SumFunction folds the values of a function by a recursion over the   *)
(* subsets of its domain; what it does when a value changes needs induction on *)
(* their size, which is had from the least element of a set of numbers.        *)

LEMMA LeastNat ==
  ASSUME NEW T \in SUBSET Nat, T # {}
  PROVE  \E n \in T : \A m \in T : n <= m
<1> DEFINE R == {ss \in Nat \X Nat : ss[1] < ss[2]}
<1>1. IsWellFoundedOn(R, Nat)
  BY NatLessThanWellFounded DEF OpToRel
<1> HIDE DEF R
<1>2. PICK x \in T : \A y \in T : <<y, x>> \notin R
  BY <1>1, WFMin
<1>3. ASSUME NEW y \in T PROVE x <= y
  <2>1. x \in Nat /\ y \in Nat
    OBVIOUS
  <2>2. y < x => <<y, x>> \in R
    BY <2>1 DEF R
  <2> QED
    BY <1>2, <2>1, <2>2
<1> QED
  BY <1>3

\* The element the fold takes of s, and the sums of f over the subsets of S that it builds.
Taken(s) == CHOOSE x \in s : TRUE
Sums(h, f, S) ==
  h = [s \in SUBSET S |-> IF s = {} THEN 0 ELSE f[Taken(s)] + h[s \ {Taken(s)}]]
TheSums(f, S) == CHOOSE h : Sums(h, f, S)

LEMMA SumIsChosen ==
  ASSUME NEW f
  PROVE  SumFunction(f) = TheSums(f, DOMAIN f)[DOMAIN f]
BY DEF SumFunction, SumFunctionOnSet, FoldFunctionOnSet, MapThenFoldSet, TheSums, Sums, Taken

LEMMA TakenIs ==
  ASSUME NEW s, s # {}
  PROVE  Taken(s) \in s
BY DEF Taken

\* Taking an element makes a finite set smaller.
LEMMA Smaller ==
  ASSUME NEW s, IsFiniteSet(s), s # {}
  PROVE  /\ IsFiniteSet(s \ {Taken(s)})
         /\ Cardinality(s) \in Nat /\ Cardinality(s \ {Taken(s)}) \in Nat
         /\ Cardinality(s \ {Taken(s)}) = Cardinality(s) - 1
<1>1. Taken(s) \in s
  BY TakenIs
<1>2. IsFiniteSet(s \ {Taken(s)}) /\ Cardinality(s \ {Taken(s)}) = Cardinality(s) - 1
  BY <1>1, FS_RemoveElement
<1> QED
  BY <1>2, FS_CardinalityType

LEMMA SubsetInduction ==
  ASSUME NEW S, IsFiniteSet(S), NEW Q, {} \in Q,
         \A s \in SUBSET S : s # {} /\ s \ {Taken(s)} \in Q => s \in Q
  PROVE  \A s \in SUBSET S : s \in Q
<1> DEFINE T == {n \in Nat : \E s \in SUBSET S : s \notin Q /\ Cardinality(s) = n}
<1>1. SUFFICES ASSUME NEW u \in SUBSET S, u \notin Q PROVE FALSE
  OBVIOUS
<1>2. IsFiniteSet(u) /\ Cardinality(u) \in Nat
  BY FS_Subset, FS_CardinalityType
<1>3. Cardinality(u) \in T
  BY <1>1, <1>2
<1>4. PICK n \in T : \A m \in T : n <= m
  <2> HIDE DEF T
  <2>1. T \in SUBSET Nat
    BY DEF T
  <2> QED
    BY <1>3, <2>1, LeastNat
<1>5. PICK s \in SUBSET S : s \notin Q /\ Cardinality(s) = n
  BY <1>4
<1>6. s # {} /\ IsFiniteSet(s)
  BY <1>5, FS_Subset
<1>7. s \ {Taken(s)} \notin Q /\ s \ {Taken(s)} \in SUBSET S
  BY <1>5, <1>6
<1> DEFINE r == s \ {Taken(s)}
<1>8. Cardinality(r) \in Nat /\ Cardinality(r) = n - 1 /\ n \in Nat
  BY <1>5, <1>6, Smaller
<1> HIDE DEF r
<1>9. Cardinality(r) \in T
  BY <1>7, <1>8 DEF r
<1> HIDE DEF T
<1> QED
  BY <1>4, <1>8, <1>9

LEMMA SumsExist ==
  ASSUME NEW S, IsFiniteSet(S), NEW f \in [S -> Int]
  PROVE  \E h : Sums(h, f, S)
<1> DEFINE D(n) == {s \in SUBSET S : Cardinality(s) <= n}
           Part(h, n) == /\ h \in [D(n) -> Int]
                         /\ \A s \in D(n) : h[s] = IF s = {} THEN 0 ELSE f[Taken(s)] + h[s \ {Taken(s)}]
           T == {n \in Nat : ~ \E h : Part(h, n)}
<1>0. \A s \in SUBSET S : IsFiniteSet(s) /\ Cardinality(s) \in Nat
  BY FS_Subset, FS_CardinalityType
<1>1. \A s \in D(0) : s = {}
  BY <1>0, FS_EmptySet
<1>2. Part([s \in D(0) |-> 0], 0)
  BY <1>1
<1>3. ASSUME NEW n \in Nat, \E h : Part(h, n) PROVE \E h : Part(h, n + 1)
  <2>1. PICK h : Part(h, n)
    BY <1>3
  <2> DEFINE g == [s \in D(n + 1) |-> IF s = {} THEN 0 ELSE f[Taken(s)] + h[s \ {Taken(s)}]]
  <2>2. ASSUME NEW s \in D(n + 1), s # {}
        PROVE  s \ {Taken(s)} \in D(n) /\ s \ {Taken(s)} \in D(n + 1) /\ f[Taken(s)] \in Int
    <3>1. Cardinality(s \ {Taken(s)}) = Cardinality(s) - 1 /\ Cardinality(s) \in Nat /\ Cardinality(s) <= n + 1
      BY <1>0, <2>2, Smaller
    <3>2. Taken(s) \in S
      BY <2>2, TakenIs
    <3> QED
      BY <3>1, <3>2
  <2>3. ASSUME NEW s \in D(n) PROVE g[s] = h[s]
    <3>1. s \in D(n + 1)
      BY <1>0
    <3> QED
      BY <3>1, <2>1
  <2>4. g \in [D(n + 1) -> Int]
    <3>1. ASSUME NEW s \in D(n + 1)
          PROVE  (IF s = {} THEN 0 ELSE f[Taken(s)] + h[s \ {Taken(s)}]) \in Int
      <4>1. CASE s = {}
        BY <4>1
      <4>2. CASE s # {}
        <5>1. h[s \ {Taken(s)}] \in Int /\ f[Taken(s)] \in Int
          BY <2>1, <2>2, <4>2
        <5> QED
          BY <5>1
      <4> QED
        BY <4>1, <4>2
    <3> HIDE DEF D
    <3> QED
      BY <3>1
  <2>5. ASSUME NEW s \in D(n + 1)
        PROVE  g[s] = IF s = {} THEN 0 ELSE f[Taken(s)] + g[s \ {Taken(s)}]
    <3>1. g[s] = IF s = {} THEN 0 ELSE f[Taken(s)] + h[s \ {Taken(s)}]
      BY Zenon
    <3>2. s # {} => g[s \ {Taken(s)}] = h[s \ {Taken(s)}]
      BY <2>2, <2>3
    <3> HIDE DEF g
    <3> QED
      BY <3>1, <3>2
  <2> QED
    BY <2>4, <2>5
<1>4. T = {}
  <2>1. SUFFICES ASSUME T # {} PROVE FALSE
    OBVIOUS
  <2>2. PICK n \in T : \A m \in T : n <= m
    <3> HIDE DEF T
    <3>1. T \in SUBSET Nat
      BY DEF T
    <3> QED
      BY <2>1, <3>1, LeastNat
  <2> HIDE DEF Part
  <2>3. n # 0
    BY <1>2
  <2>4. n - 1 \in Nat /\ n - 1 \notin T /\ n = (n - 1) + 1
    BY <2>2, <2>3
  <2>5. \E h : Part(h, n - 1)
    BY <2>4
  <2>6. \E h : Part(h, n)
    BY <2>4, <2>5, <1>3
  <2> QED
    BY <2>6
<1>5. PICK h : Part(h, Cardinality(S))
  <2> HIDE DEF Part
  <2>1. Cardinality(S) \in Nat
    BY FS_CardinalityType
  <2> QED
    BY <1>4, <2>1
<1>6. D(Cardinality(S)) = SUBSET S
  BY <1>0, FS_Subset
<1>7. h = [s \in SUBSET S |-> h[s]]
  <2> HIDE DEF D
  <2> QED
    BY <1>5, <1>6
<1>8. \A s \in SUBSET S : h[s] = IF s = {} THEN 0 ELSE f[Taken(s)] + h[s \ {Taken(s)}]
  BY <1>5, <1>6, Zenon
<1>9. Sums(h, f, S)
  <2>1. [s \in SUBSET S |-> h[s]] = [s \in SUBSET S |-> IF s = {} THEN 0 ELSE f[Taken(s)] + h[s \ {Taken(s)}]]
    BY <1>8, Zenon
  <2> QED
    BY <1>7, <2>1, Zenon DEF Sums
<1> QED
  BY <1>9

\* The sums over subsets, step by step.
LEMMA TheSumsAre ==
  ASSUME NEW S, IsFiniteSet(S), NEW f \in [S -> Int]
  PROVE  /\ TheSums(f, S)[{}] = 0
         /\ \A s \in SUBSET S : s # {} => TheSums(f, S)[s] = f[Taken(s)] + TheSums(f, S)[s \ {Taken(s)}]
         /\ \A s \in SUBSET S : TheSums(f, S)[s] \in Int
<1> DEFINE h == TheSums(f, S)
<1>1. Sums(h, f, S)
  BY SumsExist, Zenon DEF TheSums
<1> HIDE DEF h
<1>2. h = [s \in SUBSET S |-> IF s = {} THEN 0 ELSE f[Taken(s)] + h[s \ {Taken(s)}]]
  BY <1>1, Zenon DEF Sums
<1>3. \A s \in SUBSET S : h[s] = IF s = {} THEN 0 ELSE f[Taken(s)] + h[s \ {Taken(s)}]
  <2> DEFINE e(s) == IF s = {} THEN 0 ELSE f[Taken(s)] + h[s \ {Taken(s)}]
  <2>1. h = [s \in SUBSET S |-> e(s)]
    BY <1>2
  <2>2. ASSUME NEW s \in SUBSET S PROVE [x \in SUBSET S |-> e(x)][s] = e(s)
    OBVIOUS
  <2> HIDE DEF e
  <2>3. \A s \in SUBSET S : h[s] = e(s)
    BY <2>1, <2>2, Zenon
  <2> QED
    BY <2>3 DEF e
<1>4. h[{}] = 0
  BY <1>3
<1>5. \A s \in SUBSET S : s # {} => h[s] = f[Taken(s)] + h[s \ {Taken(s)}]
  BY <1>3
<1> DEFINE Q == {s \in SUBSET S : h[s] \in Int}
<1>6. {} \in Q
  BY <1>4
<1>7. ASSUME NEW s \in SUBSET S, s # {}, s \ {Taken(s)} \in Q PROVE s \in Q
  <2>1. Taken(s) \in S
    BY <1>7, TakenIs
  <2>2. f[Taken(s)] \in Int /\ h[s \ {Taken(s)}] \in Int
    BY <2>1, <1>7
  <2>3. h[s] = f[Taken(s)] + h[s \ {Taken(s)}]
    BY <1>5, <1>7
  <2>4. h[s] \in Int
    BY <2>2, <2>3
  <2> QED
    BY <2>4
<1>8. \A s \in SUBSET S : s \in Q
  <2> HIDE DEF Q
  <2> QED
    BY <1>6, <1>7, SubsetInduction
<1> QED
  BY <1>4, <1>5, <1>8 DEF h

LEMMA SumInt ==
  ASSUME NEW S, IsFiniteSet(S), NEW f \in [S -> Int]
  PROVE  SumFunction(f) \in Int
<1>1. DOMAIN f = S /\ S \in SUBSET S
  OBVIOUS
<1> QED
  BY <1>1, SumIsChosen, TheSumsAre, Zenon

LEMMA SumZero ==
  ASSUME NEW S, IsFiniteSet(S), NEW f \in [S -> Int], \A x \in S : f[x] = 0
  PROVE  SumFunction(f) = 0
<1> DEFINE h == TheSums(f, S)
           Q == {s \in SUBSET S : h[s] = 0}
<1>1. h[{}] = 0 /\ \A s \in SUBSET S : s # {} => h[s] = f[Taken(s)] + h[s \ {Taken(s)}]
  BY TheSumsAre, Zenon
<1> HIDE DEF h
<1>2. {} \in Q
  BY <1>1
<1>3. ASSUME NEW s \in SUBSET S, s # {}, s \ {Taken(s)} \in Q PROVE s \in Q
  <2>1. f[Taken(s)] = 0
    BY <1>3, TakenIs
  <2> QED
    BY <1>1, <1>3, <2>1
<1>4. \A s \in SUBSET S : s \in Q
  <2> HIDE DEF Q
  <2> QED
    BY <1>2, <1>3, SubsetInduction
<1>5. h[S] = 0 /\ DOMAIN f = S
  BY <1>4
<1> QED
  BY <1>5, SumIsChosen DEF h

\* One value changes.
LEMMA SumChanged ==
  ASSUME NEW S, IsFiniteSet(S), NEW f \in [S -> Int], NEW g \in [S -> Int], NEW k \in S,
         \A x \in S : x # k => g[x] = f[x]
  PROVE  SumFunction(g) = SumFunction(f) + g[k] - f[k]
<1> DEFINE F == TheSums(f, S)
           G == TheSums(g, S)
           d == g[k] - f[k]
           Q == {s \in SUBSET S : G[s] = F[s] + (IF k \in s THEN d ELSE 0)}
<1>1. /\ F[{}] = 0 /\ \A s \in SUBSET S : s # {} => F[s] = f[Taken(s)] + F[s \ {Taken(s)}]
      /\ \A s \in SUBSET S : F[s] \in Int
  BY TheSumsAre, Zenon
<1>2. /\ G[{}] = 0 /\ \A s \in SUBSET S : s # {} => G[s] = g[Taken(s)] + G[s \ {Taken(s)}]
      /\ \A s \in SUBSET S : G[s] \in Int
  BY TheSumsAre, Zenon
<1> HIDE DEF F, G
<1>3. {} \in Q
  BY <1>1, <1>2
<1>4. ASSUME NEW s \in SUBSET S, s # {}, s \ {Taken(s)} \in Q PROVE s \in Q
  <2> DEFINE x == Taken(s)
             r == s \ {x}
  <2>1. x \in s /\ x \in S /\ r \in SUBSET S
    BY <1>4, TakenIs
  <2>2. F[s] = f[x] + F[r] /\ G[s] = g[x] + G[r]
    BY <1>1, <1>2, <1>4
  <2>3. G[r] = F[r] + (IF k \in r THEN d ELSE 0)
    BY <1>4
  <2>4. F[r] \in Int /\ G[r] \in Int /\ f[x] \in Int /\ g[x] \in Int /\ f[k] \in Int /\ g[k] \in Int
    BY <1>1, <1>2, <2>1
  <2>5. CASE x = k
    <3>1. k \notin r /\ k \in s
      BY <2>1, <2>5
    <3>2. g[x] = f[x] + d
      BY <2>5, <2>4
    <3> HIDE DEF x, r
    <3>3. G[s] = F[s] + d
      BY <2>2, <2>3, <2>4, <3>1, <3>2
    <3> QED
      BY <3>1, <3>3
  <2>6. CASE x # k
    <3>1. g[x] = f[x] /\ (k \in r <=> k \in s)
      BY <2>1, <2>6
    <3> HIDE DEF x, r
    <3>2. G[s] = F[s] + (IF k \in s THEN d ELSE 0)
      BY <2>2, <2>3, <2>4, <3>1
    <3> QED
      BY <3>2
  <2> QED
    BY <2>5, <2>6
<1>5. \A s \in SUBSET S : s \in Q
  <2> HIDE DEF Q
  <2> QED
    BY <1>3, <1>4, SubsetInduction
<1>6. G[S] = F[S] + d /\ F[S] \in Int /\ DOMAIN f = S /\ DOMAIN g = S
  BY <1>5, <1>1
<1>7. SumFunction(f) = F[S] /\ SumFunction(g) = G[S]
  BY <1>6, SumIsChosen DEF F, G
<1>8. g[k] \in Int /\ f[k] \in Int
  OBVIOUS
<1> QED
  BY <1>6, <1>7, <1>8

-----------------------------------------------------------------------------
(* The invariants *)

At == {"idle", "bar", "check", "count", "permit", "enter"}
Work == [at : At, jobs : SUBSET Strats, strat : Strats \cup {"none"}, reqs : Nat, num : Nat]
\* A pair that asks for nothing has no requests, one that asks does so for a strategy.
WorkFits(w) ==
  /\ w \in Work
  /\ w.at \in {"idle", "bar"} => w.reqs = 0
  /\ w.at \notin {"idle", "bar"} => w.strat \in Strats

Types ==
  /\ now \in Nat /\ due \in SUBSET Pairs /\ barMS \in Int
  /\ simulOpen \in Nat /\ simulOpenSt \in [Strats -> Nat] /\ inTick \in [Strats -> Nat]
  /\ IsFiniteSet(open) /\ entered \in Nat
  /\ asked \in Int /\ refused \in Int /\ dropped \in Int
  /\ work \in [Pairs -> Work] /\ \A p \in Pairs : WorkFits(work[p])

Waiting == SumFunction([p \in Pairs |-> work[p].reqs])

\* What is done to the work of one pair.
Works(p, r) == work' = [work EXCEPT ![p] = r]
Balance(p, r) == asked' - asked = (entered' - entered) + (refused' - refused) + (dropped' - dropped) + r.reqs - work[p].reqs

LEMMA WorkIs ==
  ASSUME ConstantsFit, Types, NEW p \in Pairs
  PROVE  /\ work[p] \in Work /\ WorkFits(work[p])
         /\ work[p].at \in At /\ work[p].jobs \in SUBSET Strats /\ work[p].strat \in Strats \cup {"none"}
         /\ work[p].reqs \in Nat /\ work[p].num \in Nat
BY DEF Types, Work

LEMMA PairWorks ==
  ASSUME ConstantsFit, Types, NEW p \in Pairs, NEW r, WorkFits(r), Works(p, r)
  PROVE  /\ work' \in [Pairs -> Work] /\ \A q \in Pairs : WorkFits(work'[q])
         /\ work'[p] = r /\ \A q \in Pairs : q # p => work'[q] = work[q]
         /\ Waiting' = Waiting + r.reqs - work[p].reqs /\ Waiting \in Int
<1>1. /\ work \in [Pairs -> Work] /\ \A q \in Pairs : WorkFits(work[q])
      /\ work' = [work EXCEPT ![p] = r] /\ r \in Work
  BY DEF Types, Works, WorkFits
<1>2. /\ work' \in [Pairs -> Work] /\ work'[p] = r
      /\ \A q \in Pairs : q # p => work'[q] = work[q]
  BY <1>1
<1>3. \A q \in Pairs : WorkFits(work'[q])
  BY <1>1, <1>2
<1> DEFINE f == [q \in Pairs |-> work[q].reqs]
<1>4. PICK g : g = [q \in Pairs |-> work'[q].reqs]
  OBVIOUS
<1>5. f \in [Pairs -> Int] /\ g \in [Pairs -> Int]
  BY <1>1, <1>2, <1>4 DEF Work
<1>6. g[p] = r.reqs /\ f[p] = work[p].reqs /\ \A q \in Pairs : q # p => g[q] = f[q]
  BY <1>2, <1>4
<1>7. Waiting' = SumFunction(g) /\ Waiting = SumFunction(f)
  BY <1>4 DEF Waiting
<1> HIDE DEF f
<1>8. SumFunction(g) = SumFunction(f) + g[p] - f[p] /\ SumFunction(f) \in Int
  BY <1>5, <1>6, SumChanged, SumInt DEF ConstantsFit
<1> QED
  BY <1>2, <1>3, <1>6, <1>7, <1>8

\* checkOrderNum keeps some of what is asked for, and no more than is left.
LEMMA KeptFits ==
  ASSUME NEW n \in Nat, NEW old \in Nat, NEW max \in Nat
  PROVE  /\ CheckOrderNum(n, old, max) \in 0 .. n /\ UpTo(n, old, max) \in 0 .. n
         /\ max # 0 /\ CheckOrderNum(n, old, max) # 0 => old + CheckOrderNum(n, old, max) <= max
         /\ max # 0 /\ UpTo(n, old, max) # 0 => old + UpTo(n, old, max) <= max
BY DEF CheckOrderNum, UpTo, Least

LEMMA SimulIs ==
  ASSUME Types, NEW p \in Pairs
  PROVE  SimulOpen(p) \in Nat /\ SimulOpenSt(p) \in [Strats -> Nat]
BY DEF Types, SimulOpen, SimulOpenSt

LEMMA KeptIs ==
  ASSUME ConstantsFit, Types, NEW p \in Pairs, NEW n \in Nat
  PROVE  /\ Kept(p, n) \in 0 .. n
         /\ MaxSimulOpen # 0 /\ Kept(p, n) # 0 => SimulOpen(p) + Kept(p, n) <= MaxSimulOpen
<1>1. MaxOpenOrders \in Nat /\ MaxSimulOpen \in Nat /\ SimulOpen(p) \in Nat
  BY SimulIs DEF ConstantsFit
<1> DEFINE m == CheckOrderNum(n, n, MaxOpenOrders)
<1>2. m \in 0 .. n
  BY <1>1, KeptFits
<1>3. m \in Nat /\ Kept(p, n) = CheckOrderNum(m, SimulOpen(p), MaxSimulOpen)
  BY <1>2 DEF Kept
<1> HIDE DEF m
<1>4. /\ CheckOrderNum(m, SimulOpen(p), MaxSimulOpen) \in 0 .. m
      /\ MaxSimulOpen # 0 /\ CheckOrderNum(m, SimulOpen(p), MaxSimulOpen) # 0
           => SimulOpen(p) + CheckOrderNum(m, SimulOpen(p), MaxSimulOpen) <= MaxSimulOpen
  BY <1>1, <1>3, KeptFits
<1> QED
  BY <1>2, <1>3, <1>4

LEMMA PermittedIs ==
  ASSUME ConstantsFit, NEW n \in Nat, NEW num \in Nat, NEW simul \in Nat
  PROVE  /\ Permitted(n, num, simul) \in 0 .. n
         /\ PolMaxOpen # 0 /\ Permitted(n, num, simul) # 0 => num + Permitted(n, num, simul) <= PolMaxOpen
         /\ PolMaxSimul # 0 /\ Permitted(n, num, simul) # 0 => simul + Permitted(n, num, simul) <= PolMaxSimul
<1>1. PolMaxOpen \in Nat /\ PolMaxSimul \in Nat
  BY DEF ConstantsFit
<1> DEFINE m == UpTo(n, num, PolMaxOpen)
<1>2. m \in 0 .. n /\ (PolMaxOpen # 0 /\ m # 0 => num + m <= PolMaxOpen)
  BY <1>1, KeptFits
<1>3. m \in Nat /\ Permitted(n, num, simul) = UpTo(m, simul, PolMaxSimul)
  BY <1>2 DEF Permitted
<1> HIDE DEF m
<1>4. /\ UpTo(m, simul, PolMaxSimul) \in 0 .. m
      /\ PolMaxSimul # 0 /\ UpTo(m, simul, PolMaxSimul) # 0 => simul + UpTo(m, simul, PolMaxSimul) <= PolMaxSimul
  BY <1>1, <1>3, KeptFits
<1> QED
  BY <1>1, <1>2, <1>3, <1>4

LEMMA CountIs ==
  ASSUME Types, NEW s
  PROVE  IsFiniteSet(OfStrat(s)) /\ Cardinality(OfStrat(s)) \in Nat
<1>1. OfStrat(s) \in SUBSET open /\ IsFiniteSet(open)
  BY DEF OfStrat, Types
<1> QED
  BY <1>1, FS_Subset, FS_CardinalityType

-----------------------------------------------------------------------------
(* The types, and the requests that add up *)

\* The variables but work.
Others ==
  /\ now \in Nat /\ due \in SUBSET Pairs /\ barMS \in Int
  /\ simulOpen \in Nat /\ simulOpenSt \in [Strats -> Nat] /\ inTick \in [Strats -> Nat]
  /\ IsFiniteSet(open) /\ entered \in Nat
  /\ asked \in Int /\ refused \in Int /\ dropped \in Int

\* An action handles one pair and loses no request.
PairStep(p) == Others' /\ \E r : WorkFits(r) /\ Works(p, r) /\ Balance(p, r)

LEMMA OnAccountKlineStep ==
  ASSUME ConstantsFit, Types, NEW p \in Pairs, OnAccountKline(p)
  PROVE  PairStep(p)
<1> DEFINE r == [at |-> "bar", jobs |-> Strats, strat |-> "none", reqs |-> 0, num |-> 0]
<1>1. WorkFits(r)
  BY DEF WorkFits, Work, At
<1>2. Works(p, r) /\ work[p].reqs = 0
  BY DEF OnAccountKline, Works, NoWork
<1>3. Balance(p, r)
  BY <1>2 DEF OnAccountKline, Balance, Types
<1>4. Others'
  BY DEF OnAccountKline, Types, Others
<1> QED
  BY <1>1, <1>2, <1>3, <1>4 DEF PairStep

LEMMA OnBarStep ==
  ASSUME ConstantsFit, Types, NEW p \in Pairs, NEW s \in Strats, NEW n \in Nat, OnBar(p, s, n)
  PROVE  PairStep(p)
<1> DEFINE jobs == work[p].jobs \ {s}
           r == IF CanOpen(s, p) THEN [at |-> "check", jobs |-> jobs, strat |-> s, reqs |-> n, num |-> 0]
                ELSE [at |-> "bar", jobs |-> jobs, strat |-> "none", reqs |-> 0, num |-> 0]
<1>1. /\ work[p].at = "bar" /\ work[p].reqs = 0 /\ jobs \in SUBSET Strats
      /\ asked' = asked + n
      /\ UNCHANGED <<now, due, barMS, simulOpen, simulOpenSt, open, dropped, entered, inTick>>
  BY WorkIs DEF OnBar, WorkFits
<1>2. /\ Works(p, r)
      /\ refused' = IF CanOpen(s, p) THEN refused ELSE refused + n
  BY DEF OnBar, Works
<1> HIDE DEF jobs
<1>3. WorkFits(r) /\ r.reqs = IF CanOpen(s, p) THEN n ELSE 0
  BY <1>1 DEF WorkFits, Work, At
<1> HIDE DEF r
<1>4. Balance(p, r)
  BY <1>1, <1>2, <1>3 DEF Balance, Types
<1>5. Others'
  BY <1>1, <1>2 DEF Types, Others
<1> QED
  BY <1>2, <1>3, <1>4, <1>5 DEF PairStep

LEMMA BarDoneStep ==
  ASSUME ConstantsFit, Types, NEW p \in Pairs, BarDone(p)
  PROVE  PairStep(p)
<1>1. WorkFits(NoWork) /\ NoWork.reqs = 0
  BY DEF WorkFits, Work, At, NoWork
<1>2. Works(p, NoWork) /\ work[p].reqs = 0
  BY WorkIs DEF BarDone, Works, WorkFits
<1>3. Balance(p, NoWork) /\ Others'
  BY <1>1, <1>2 DEF BarDone, Balance, Types, Others
<1> QED
  BY <1>1, <1>2, <1>3 DEF PairStep

LEMMA GoesIs ==
  ASSUME NEW w \in Work, NEW at \in At, NEW n \in Nat, NEW m \in Nat,
         w.strat \in Strats, at \notin {"idle", "bar"}
  PROVE  /\ WorkFits(Goes(w, at, n, m)) /\ Goes(w, at, n, m) # NoWork
         /\ Goes(w, at, n, m).at = at /\ Goes(w, at, n, m).strat = w.strat
         /\ Goes(w, at, n, m).reqs = n /\ Goes(w, at, n, m).num = m
BY DEF Goes, WorkFits, Work, NoWork

LEMMA AtBarIs ==
  ASSUME NEW w \in Work
  PROVE  /\ WorkFits(AtBar(w)) /\ AtBar(w).at = "bar" /\ AtBar(w).reqs = 0 /\ AtBar(w) # NoWork
BY DEF AtBar, WorkFits, Work, At, NoWork

LEMMA CheckNumStep ==
  ASSUME ConstantsFit, Types, NEW p \in Pairs, CheckNum(p)
  PROVE  PairStep(p)
<1> DEFINE kept == Kept(p, work[p].reqs)
           r == IF kept = 0 THEN AtBar(work[p]) ELSE Goes(work[p], "count", kept, 0)
<1>1. /\ work[p] \in Work /\ work[p].at = "check" /\ work[p].strat \in Strats /\ work[p].reqs \in Nat
  BY WorkIs DEF CheckNum, WorkFits
<1>2. kept \in 0 .. work[p].reqs
  BY <1>1, KeptIs
<1>3. refused' = refused + work[p].reqs - kept /\ Works(p, r)
  BY DEF CheckNum, Works
<1>4. UNCHANGED <<now, due, open, asked, dropped, entered, inTick>>
  BY DEF CheckNum
<1>5. simulOpen' \in Nat /\ simulOpenSt' \in [Strats -> Nat]
  BY SimulIs DEF CheckNum
<1>6. barMS' \in Int
  <2>1. Tf[p] \in Nat \ {0} /\ now \in Nat /\ barMS \in Int
    BY DEF ConstantsFit, Types
  <2>2. AlignTf(now, Tf[p]) \in Int
    BY <2>1 DEF AlignTf
  <2> QED
    BY <2>1, <2>2 DEF CheckNum
<1> HIDE DEF kept
<1>7. WorkFits(r) /\ r.reqs = kept
  <2>1. CASE kept = 0
    BY <1>1, <2>1, AtBarIs
  <2>2. CASE kept # 0
    BY <1>1, <1>2, <2>2, GoesIs DEF At
  <2> QED
    BY <2>1, <2>2
<1> HIDE DEF r
<1>8. Balance(p, r) /\ Others'
  BY <1>1, <1>2, <1>3, <1>4, <1>5, <1>6, <1>7 DEF Balance, Types, Others
<1> QED
  BY <1>3, <1>7, <1>8 DEF PairStep

LEMMA ForbiddenStep ==
  ASSUME ConstantsFit, Types, NEW p \in Pairs, Forbidden(p)
  PROVE  PairStep(p)
<1> DEFINE r == AtBar(work[p])
<1>1. Works(p, r) /\ work[p] \in Work /\ work[p].reqs \in Nat
  BY WorkIs DEF Forbidden, Works
<1>2. WorkFits(r) /\ r.reqs = 0
  BY <1>1, AtBarIs
<1>3. /\ \/ refused' = refused + work[p].reqs /\ dropped' = dropped
         \/ dropped' = dropped + work[p].reqs /\ refused' = refused
      /\ UNCHANGED <<now, due, barMS, simulOpen, simulOpenSt, open, asked, entered, inTick>>
  BY DEF Forbidden
<1> HIDE DEF r
<1>4. Balance(p, r) /\ Others'
  BY <1>1, <1>2, <1>3 DEF Balance, Types, Others
<1> QED
  BY <1>1, <1>2, <1>4 DEF PairStep

LEMMA CountOpenStep ==
  ASSUME ConstantsFit, Types, NEW p \in Pairs, CountOpen(p)
  PROVE  /\ PairStep(p)
         /\ Works(p, Goes(work[p], "permit", work[p].reqs, Cardinality(OfStrat(work[p].strat))))
<1> DEFINE num == Cardinality(OfStrat(work[p].strat))
           r == Goes(work[p], "permit", work[p].reqs, num)
<1>1. work[p] \in Work /\ work[p].at = "count" /\ work[p].strat \in Strats /\ work[p].reqs \in Nat
  BY WorkIs DEF CountOpen, WorkFits
<1>2. num \in Nat
  BY CountIs
<1>3. Works(p, r) /\ UNCHANGED <<now, due, barMS, simulOpen, simulOpenSt, open, asked, refused, dropped, entered, inTick>>
  BY DEF CountOpen, Works, StratOdNum
<1>4. WorkFits(r) /\ r.reqs = work[p].reqs
  <2> HIDE DEF num
  <2> QED
    BY <1>1, <1>2, GoesIs DEF At
<1> HIDE DEF r
<1>5. Balance(p, r) /\ Others'
  BY <1>1, <1>3, <1>4 DEF Balance, Types, Others
<1> QED
  BY <1>3, <1>4, <1>5 DEF PairStep, r

LEMMA PermitStep ==
  ASSUME ConstantsFit, Types, NEW p \in Pairs, Permit(p)
  PROVE  PairStep(p)
<1> DEFINE w == work[p]
           k == Permitted(w.reqs, w.num, simulOpenSt[w.strat])
           r == Goes(w, "enter", k, 0)
<1>1. w \in Work /\ w.strat \in Strats /\ w.reqs \in Nat /\ w.num \in Nat
  BY WorkIs DEF Permit, WorkFits
<1>2. simulOpenSt[w.strat] \in Nat
  BY <1>1 DEF Types
<1>3. k \in 0 .. w.reqs
  BY <1>1, <1>2, PermittedIs
<1>4. /\ Works(p, r) /\ refused' = refused + w.reqs - k
      /\ simulOpen' = simulOpen + k /\ simulOpenSt' = [simulOpenSt EXCEPT ![w.strat] = @ + k]
      /\ UNCHANGED <<now, due, barMS, open, asked, dropped, entered, inTick>>
  <2>1. refused' = refused + (w.reqs - k)
    BY DEF Permit, Skipped
  <2>2. refused' = refused + w.reqs - k
    BY <2>1, <1>1, <1>3 DEF Types
  <2> QED
    BY <2>2 DEF Permit, Works
<1> HIDE DEF k
<1>5. WorkFits(r) /\ r.reqs = k
  <2>1. k \in Nat /\ 0 \in Nat /\ "enter" \in At /\ "enter" \notin {"idle", "bar"}
    BY <1>1, <1>3 DEF At
  <2> QED
    BY <1>1, <2>1, GoesIs
<1>6. simulOpen' \in Nat /\ simulOpenSt' \in [Strats -> Nat]
  BY <1>1, <1>2, <1>3, <1>4 DEF Types
<1> HIDE DEF r
<1>7. Balance(p, r)
  BY <1>1, <1>3, <1>4, <1>5 DEF Balance, Types
<1>8. Others'
  BY <1>1, <1>3, <1>4, <1>6 DEF Types, Others
<1> QED
  BY <1>4, <1>5, <1>7, <1>8 DEF PairStep

LEMMA EnterOrderStep ==
  ASSUME ConstantsFit, Types, NEW p \in Pairs, EnterOrder(p)
  PROVE  /\ PairStep(p) /\ Works(p, Goes(work[p], "enter", work[p].reqs - 1, 1))
         /\ \A s \in Strats : inTick'[s] = IF s = work[p].strat THEN inTick[s] + 1 ELSE inTick[s]
<1> DEFINE r == Goes(work[p], "enter", work[p].reqs - 1, 1)
<1>1. work[p] \in Work /\ work[p].at = "enter" /\ work[p].strat \in Strats /\ work[p].reqs \in Nat /\ work[p].reqs > 0
  BY WorkIs DEF EnterOrder, WorkFits
<1>2. /\ open' = open \cup {[id |-> entered + 1, strat |-> work[p].strat, pair |-> p]} /\ entered' = entered + 1
      /\ inTick' = [inTick EXCEPT ![work[p].strat] = @ + 1]
      /\ UNCHANGED <<now, due, barMS, simulOpen, simulOpenSt, asked, refused, dropped>>
  BY DEF EnterOrder
<1>3. Works(p, r)
  BY DEF EnterOrder, Works
<1>4. WorkFits(r) /\ r.reqs = work[p].reqs - 1
  <2>1. work[p].reqs - 1 \in Nat /\ 1 \in Nat /\ "enter" \in At /\ "enter" \notin {"idle", "bar"}
    BY <1>1 DEF At
  <2> QED
    BY <1>1, <2>1, GoesIs
<1>5. inTick' \in [Strats -> Nat] /\ \A s \in Strats : inTick'[s] = IF s = work[p].strat THEN inTick[s] + 1 ELSE inTick[s]
  BY <1>1, <1>2 DEF Types
<1>6. IsFiniteSet(open')
  BY <1>2, FS_AddElement DEF Types
<1>7. Balance(p, r)
  <2> HIDE DEF r
  <2> QED
    BY <1>1, <1>2, <1>4 DEF Balance, Types
<1>8. Others'
  BY <1>2, <1>5, <1>6 DEF Types, Others
<1> QED
  BY <1>3, <1>4, <1>5, <1>7, <1>8 DEF PairStep

LEMMA EnterFailsStep ==
  ASSUME ConstantsFit, Types, NEW p \in Pairs, EnterFails(p)
  PROVE  PairStep(p)
<1>1. WorkFits(NoWork) /\ NoWork.reqs = 0
  BY DEF WorkFits, Work, At, NoWork
<1>2. Works(p, NoWork) /\ work[p].reqs \in Nat
  BY WorkIs DEF EnterFails, Works
<1>3. Balance(p, NoWork) /\ Others'
  BY <1>1, <1>2 DEF EnterFails, Balance, Types, Others
<1> QED
  BY <1>1, <1>2, <1>3 DEF PairStep

LEMMA OnOrderChangeStep ==
  ASSUME ConstantsFit, Types, NEW p \in Pairs, NEW n \in Nat, OnOrderChange(p, n)
  PROVE  PairStep(p)
<1> DEFINE r == IF n = 0 THEN AtBar(work[p]) ELSE Goes(work[p], "check", n, 0)
<1>1. work[p] \in Work /\ work[p].strat \in Strats /\ work[p].reqs = 0
  BY WorkIs DEF OnOrderChange, WorkFits
<1>2. Works(p, r) /\ asked' = asked + n
  BY DEF OnOrderChange, Works
<1>3. WorkFits(r) /\ r.reqs = n
  <2>1. CASE n = 0
    BY <1>1, <2>1, AtBarIs
  <2>2. CASE n # 0
    BY <1>1, <2>2, GoesIs DEF At
  <2> QED
    BY <2>1, <2>2
<1>4. UNCHANGED <<now, due, barMS, simulOpen, simulOpenSt, open, refused, dropped, entered, inTick>>
  BY DEF OnOrderChange
<1> HIDE DEF r
<1>5. Balance(p, r) /\ Others'
  BY <1>1, <1>2, <1>3, <1>4 DEF Balance, Types, Others
<1> QED
  BY <1>2, <1>3, <1>5 DEF PairStep

\* What is done while a bar is handled.
Handles(p) ==
  \/ OnAccountKline(p) \/ BarDone(p) \/ ProcessOrders(p)
  \/ \E s \in Strats, n \in Nat : OnBar(p, s, n)
  \/ \E n \in Nat : OnOrderChange(p, n)

LEMMA HandlesStep ==
  ASSUME ConstantsFit, Types, NEW p \in Pairs, Handles(p)
  PROVE  PairStep(p)
BY OnAccountKlineStep, OnBarStep, BarDoneStep, CheckNumStep, ForbiddenStep, CountOpenStep, PermitStep,
   EnterOrderStep, EnterFailsStep, OnOrderChangeStep
   DEF Handles, ProcessOrders

LEMMA NextIs ==
  ASSUME ConstantsFit, Next
  PROVE  Tick \/ StopEntries \/ (\E od \in open : Close(od)) \/ \E p \in Pairs : Handles(p)
<1>1. \A x \in 0 .. MaxReqs : x \in Nat
  BY DEF ConstantsFit
<1>2. \A x \in 0 .. 1 : x \in Nat
  OBVIOUS
<1> QED
  BY <1>1, <1>2 DEF Next, Handles

FailsInv == Types /\ asked = entered + refused + dropped + Waiting

LEMMA FailsInit ==
  ASSUME ConstantsFit, Init
  PROVE  FailsInv
<1>1. Types
  <2>1. IsFiniteSet({})
    BY FS_EmptySet
  <2> QED
    BY <2>1 DEF Init, Types, NoWork, WorkFits, Work, At
<1>2. \A p \in Pairs : [q \in Pairs |-> work[q].reqs][p] = 0
  BY DEF Init, NoWork
<1>3. Waiting = 0
  <2>1. [q \in Pairs |-> work[q].reqs] \in [Pairs -> Int]
    BY <1>2
  <2> QED
    BY <1>2, <2>1, SumZero DEF Waiting, ConstantsFit
<1> QED
  BY <1>1, <1>3 DEF Init, FailsInv

LEMMA FailsStep ==
  ASSUME ConstantsFit, FailsInv, [Next]_vars
  PROVE  FailsInv'
<1>0. Types /\ asked = entered + refused + dropped + Waiting
  BY DEF FailsInv
<1>1. ASSUME NEW p \in Pairs, Handles(p) PROVE FailsInv'
  <2>1. PICK r : Others' /\ WorkFits(r) /\ Works(p, r) /\ Balance(p, r)
    BY <1>0, <1>1, HandlesStep DEF PairStep
  <2>2. /\ work' \in [Pairs -> Work] /\ \A q \in Pairs : WorkFits(work'[q])
        /\ Waiting' = Waiting + r.reqs - work[p].reqs /\ Waiting \in Int
    BY <1>0, <2>1, PairWorks
  <2>3. Types'
    BY <2>1, <2>2 DEF Types, Others
  <2>4. r.reqs \in Nat /\ work[p].reqs \in Nat
    BY <1>0, <2>1, WorkIs DEF WorkFits, Work
  <2>5. asked' = entered' + refused' + dropped' + Waiting'
    <3>1. PICK v : v = Waiting' /\ v = Waiting + r.reqs - work[p].reqs
      BY <2>2
    <3>2. /\ asked \in Int /\ refused \in Int /\ dropped \in Int /\ entered \in Int
          /\ asked' \in Int /\ refused' \in Int /\ dropped' \in Int /\ entered' \in Int
      BY <1>0, <2>1 DEF Types, Others
    <3>3. asked' = entered' + refused' + dropped' + v
      BY <1>0, <2>1, <2>2, <2>4, <3>1, <3>2 DEF Balance
    <3> QED
      BY <3>1, <3>3
  <2> QED
    BY <2>3, <2>5 DEF FailsInv
<1>2. ASSUME UNCHANGED <<work, asked, refused, dropped, entered, simulOpen, simulOpenSt, barMS>>,
             Others'
      PROVE  FailsInv'
  <2>1. Waiting' = Waiting
    BY <1>2 DEF Waiting
  <2> QED
    BY <1>0, <1>2, <2>1 DEF FailsInv, Types, Others
<1>3. CASE Tick
  BY <1>0, <1>2, <1>3 DEF Tick, Types, Others
<1>4. CASE StopEntries
  BY <1>0, <1>2, <1>4 DEF StopEntries, Types, Others
<1>5. ASSUME NEW od \in open, Close(od) PROVE FailsInv'
  <2>1. IsFiniteSet(open')
    BY <1>0, <1>5, FS_RemoveElement DEF Close, Types
  <2> QED
    BY <1>0, <1>2, <1>5, <2>1 DEF Close, Types, Others
<1>6. CASE UNCHANGED vars
  BY <1>0, <1>2, <1>6 DEF vars, Types, Others
<1> QED
  BY <1>1, <1>3, <1>4, <1>5, <1>6, NextIs

(* Every request ends as an order, as a failed open of the account, or with an *)
(* error or a ban, counted once, also where bars are handled side by side      *)
(* (allowOrderEnter, AddAccFailOpens).                                         *)
THEOREM FailsCounted == ConstantsFit => (Spec => []FailsAddUp)
<1>1. ASSUME ConstantsFit PROVE Spec => []FailsInv
  <2>1. Init => FailsInv
    BY <1>1, FailsInit
  <2>2. FailsInv /\ [Next]_vars => FailsInv'
    BY <1>1, FailsStep
  <2> QED
    BY <2>1, <2>2, PTL DEF Spec
<1>2. FailsInv => FailsAddUp
  BY DEF FailsInv, FailsAddUp, Waiting
<1>3. ASSUME ConstantsFit PROVE Spec => []FailsAddUp
  BY <1>1, <1>2, <1>3, PTL
<1> QED
  BY <1>3

-----------------------------------------------------------------------------
(* A back test: the bars of the pairs come one after the other *)

\* At most one pair is handled.
Alone == \A p, q \in Pairs : work[p] # NoWork /\ work[q] # NoWork => p = q

LEMMA AloneStep ==
  ASSUME ConstantsFit, ~Parallel, Types, Alone, NEW p \in Pairs, Handles(p)
  PROVE  /\ Types' /\ Alone'
         /\ \A q \in Pairs : q # p => work[q] = NoWork /\ work'[q] = NoWork
<1>1. PICK r : Others' /\ WorkFits(r) /\ Works(p, r)
  BY HandlesStep DEF PairStep
<1>2. /\ work' \in [Pairs -> Work] /\ \A q \in Pairs : WorkFits(work'[q])
      /\ \A q \in Pairs : q # p => work'[q] = work[q]
  BY <1>1, PairWorks
<1>3. \A q \in Pairs : q # p => work[q] = NoWork
  <2>1. CASE work[p] = NoWork
    <3>1. NoWork.at = "idle"
      BY DEF NoWork
    <3>2. OnAccountKline(p)
      BY <2>1, <3>1 DEF Handles, BarDone, ProcessOrders, CheckNum, Forbidden, CountOpen, Permit,
                        EnterOrder, EnterFails, OnBar, OnOrderChange
    <3> QED
      BY <3>2 DEF OnAccountKline
  <2>2. CASE work[p] # NoWork
    BY <2>2 DEF Alone
  <2> QED
    BY <2>1, <2>2
<1>4. Types'
  BY <1>1, <1>2 DEF Types, Others
<1> QED
  BY <1>2, <1>3, <1>4 DEF Alone

\* The orders of the strategy that is handled leave room for what it is permitted.
PolicyFits(p) ==
  /\ work[p].at = "permit" => Cardinality(OfStrat(work[p].strat)) <= work[p].num
  /\ work[p].at = "enter" => Cardinality(OfStrat(work[p].strat)) + work[p].reqs <= PolMaxOpen
PolicyInv == Types /\ Alone /\ PolicyBounded /\ \A p \in Pairs : PolicyFits(p)

LEMMA NoWorkIs == NoWork.at = "idle" /\ NoWork.reqs = 0
BY DEF NoWork

\* Where the work of a pair is after a step, and what else changes there.
LEMMA WhereTo ==
  ASSUME ConstantsFit, Types, NEW p \in Pairs, Handles(p)
  PROVE  \/ CheckNum(p)
         \/ CountOpen(p)
         \/ Permit(p)
         \/ EnterOrder(p)
         \/ /\ work'[p].at \in {"idle", "bar", "check"}
            /\ UNCHANGED <<now, barMS, simulOpen, simulOpenSt, open, inTick>>
            /\ due' \in SUBSET due
            /\ work[p] = NoWork => p \in due
<1>0. p \in DOMAIN work
  BY DEF Types
<1>1. CASE OnAccountKline(p)
  BY <1>0, <1>1 DEF OnAccountKline
<1>2. ASSUME NEW s \in Strats, NEW n \in Nat, OnBar(p, s, n)
      PROVE  /\ work'[p].at \in {"idle", "bar", "check"} /\ work[p] # NoWork
             /\ UNCHANGED <<now, barMS, simulOpen, simulOpenSt, open, inTick, due>>
  BY <1>0, <1>2, NoWorkIs DEF OnBar
<1>3. CASE BarDone(p)
  BY <1>0, <1>3, NoWorkIs DEF BarDone
<1>4. CASE Forbidden(p)
  BY <1>0, <1>4, NoWorkIs DEF Forbidden, AtBar
<1>5. CASE EnterFails(p)
  BY <1>0, <1>5, NoWorkIs DEF EnterFails
<1>6. ASSUME NEW n \in Nat, OnOrderChange(p, n)
      PROVE  /\ work'[p].at \in {"idle", "bar", "check"} /\ work[p] # NoWork
             /\ UNCHANGED <<now, barMS, simulOpen, simulOpenSt, open, inTick, due>>
  BY <1>0, <1>6, NoWorkIs DEF OnOrderChange, AtBar, Goes
<1> QED
  BY <1>1, <1>2, <1>3, <1>4, <1>5, <1>6 DEF Handles, ProcessOrders

LEMMA PolicyHandles ==
  ASSUME ConstantsFit, ~Parallel, PolMaxOpen # 0, PolicyInv, NEW p \in Pairs, Handles(p)
  PROVE  PolicyInv'
<1>1. /\ Types' /\ Alone' /\ Types
      /\ \A q \in Pairs : q # p => work'[q] = NoWork
  BY AloneStep DEF PolicyInv
<1>2. SUFFICES PolicyBounded' /\ PolicyFits(p)'
  <2>1. ASSUME NEW q \in Pairs, q # p PROVE PolicyFits(q)'
    BY <1>1, <2>1, NoWorkIs DEF PolicyFits
  <2> QED
    BY <1>1, <2>1 DEF PolicyInv
<1>3. /\ PolicyFits(p) /\ PolMaxOpen \in Nat /\ work[p].reqs \in Nat /\ work[p].num \in Nat
      /\ work \in [Pairs -> Work]
      /\ \A s \in Strats : Cardinality(OfStrat(s)) <= PolMaxOpen
  BY <1>1, WorkIs DEF PolicyInv, PolicyBounded, ConstantsFit, Types
<1>4. ASSUME open' = open PROVE PolicyBounded' /\ \A s : OfStrat(s)' = OfStrat(s)
  BY <1>3, <1>4 DEF PolicyBounded, OfStrat
<1>5. CASE work'[p].at \in {"idle", "bar", "check"} /\ open' = open
  BY <1>4, <1>5 DEF PolicyFits
<1>6. CASE CheckNum(p)
  <2>1. work'[p].at \in {"bar", "count"} /\ open' = open
    BY <1>3, <1>6 DEF CheckNum, AtBar, Goes
  <2> QED
    BY <1>4, <2>1 DEF PolicyFits
<1>7. CASE CountOpen(p)
  <2>1. work' = [work EXCEPT ![p] = Goes(work[p], "permit", work[p].reqs, Cardinality(OfStrat(work[p].strat)))]
    BY <1>1, <1>7, CountOpenStep DEF Works
  <2>2. work'[p].at = "permit" /\ work'[p].strat = work[p].strat /\ work'[p].num = Cardinality(OfStrat(work[p].strat))
    BY <2>1, <1>3 DEF Goes
  <2>3. open' = open
    BY <1>7 DEF CountOpen
  <2>4. Cardinality(OfStrat(work[p].strat)) \in Nat
    BY <1>1, CountIs
  <2>5. OfStrat(work[p].strat)' = OfStrat(work[p].strat)
    BY <2>2, <2>3 DEF OfStrat
  <2> QED
    BY <1>4, <2>2, <2>3, <2>4, <2>5 DEF PolicyFits
<1>8. CASE Permit(p)
  <2> DEFINE w == work[p]
             k == Permitted(w.reqs, w.num, simulOpenSt[w.strat])
             c == Cardinality(OfStrat(w.strat))
  <2>1. w.at = "permit" /\ work' = [work EXCEPT ![p] = Goes(w, "enter", k, 0)] /\ open' = open
    BY <1>8 DEF Permit
  <2>2. w.strat \in Strats /\ simulOpenSt[w.strat] \in Nat /\ c \in Nat
    BY <1>1, <2>1, WorkIs, CountIs DEF WorkFits, Types
  <2>3. k \in Nat /\ (k # 0 => w.num + k <= PolMaxOpen)
    <3>1. w.reqs \in Nat /\ w.num \in Nat /\ PolMaxOpen # 0
      BY <1>3
    <3>2. k \in 0 .. w.reqs /\ (PolMaxOpen # 0 /\ k # 0 => w.num + k <= PolMaxOpen)
      <4> HIDE DEF w
      <4> QED
        BY <3>1, <2>2, PermittedIs
    <3> HIDE DEF k
    <3> QED
      BY <3>1, <3>2
  <2>4. c <= w.num /\ c <= PolMaxOpen
    BY <1>3, <2>1, <2>2 DEF PolicyFits
  <2>5. OfStrat(w.strat)' = OfStrat(w.strat) /\ work'[p].at = "enter" /\ work'[p].strat = w.strat /\ work'[p].reqs = k
    BY <2>1, <1>3 DEF OfStrat, Goes
  <2> HIDE DEF k
  <2>6. c + k <= PolMaxOpen
    BY <1>3, <2>2, <2>3, <2>4
  <2> QED
    BY <1>4, <2>1, <2>5, <2>6 DEF PolicyFits
<1>9. CASE EnterOrder(p)
  <2> DEFINE st == work[p].strat
             c == Cardinality(OfStrat(st))
             od == [id |-> entered + 1, strat |-> st, pair |-> p]
  <2>1. /\ work[p].at = "enter" /\ work[p].reqs > 0 /\ open' = open \cup {od}
        /\ work' = [work EXCEPT ![p] = Goes(work[p], "enter", work[p].reqs - 1, 1)]
    BY <1>9 DEF EnterOrder
  <2>2. work'[p].at = "enter" /\ work'[p].strat = st /\ work'[p].reqs = work[p].reqs - 1
    BY <2>1, <1>3 DEF Goes
  <2>3. c + work[p].reqs <= PolMaxOpen /\ IsFiniteSet(OfStrat(st)) /\ c \in Nat
    BY <1>1, <1>3, <2>1, CountIs DEF PolicyFits
  <2>4. \A s \in Strats : s # st => {o \in open' : o.strat = s} = OfStrat(s)
    BY <2>1 DEF OfStrat
  <2>5. {o \in open' : o.strat = st} = OfStrat(st) \cup {od}
    BY <2>1 DEF OfStrat
  <2>6. Cardinality(OfStrat(st) \cup {od}) \in {c, c + 1}
    BY <2>3, FS_AddElement
  <2>7. /\ Cardinality(OfStrat(st) \cup {od}) + (work[p].reqs - 1) <= PolMaxOpen
        /\ Cardinality(OfStrat(st) \cup {od}) <= PolMaxOpen
    <3> DEFINE more == Cardinality(OfStrat(st) \cup {od})
    <3>1. more \in {c, c + 1} /\ work[p].reqs \in Nat /\ work[p].reqs > 0 /\ c \in Nat /\ c + work[p].reqs <= PolMaxOpen
      BY <1>3, <2>1, <2>3, <2>6
    <3> HIDE DEF more, c
    <3>2. more + (work[p].reqs - 1) <= PolMaxOpen /\ more <= PolMaxOpen
      BY <1>3, <3>1
    <3> QED
      BY <3>2 DEF more
  <2>8. /\ Cardinality({o \in open' : o.strat = st}) + (work[p].reqs - 1) <= PolMaxOpen
        /\ Cardinality({o \in open' : o.strat = st}) <= PolMaxOpen
    BY <2>5, <2>7
  <2>9. \A s \in Strats : Cardinality({o \in open' : o.strat = s}) <= PolMaxOpen
    BY <1>3, <2>4, <2>8
  <2>10. PolicyBounded'
    BY <2>9 DEF PolicyBounded, OfStrat
  <2>11. PolicyFits(p)'
    BY <2>2, <2>8 DEF PolicyFits, OfStrat
  <2> QED
    BY <2>10, <2>11
<1> QED
  BY <1>1, <1>5, <1>6, <1>7, <1>8, <1>9, WhereTo

LEMMA PolicyStep ==
  ASSUME ConstantsFit, ~Parallel, PolMaxOpen # 0, PolicyInv, [Next]_vars
  PROVE  PolicyInv'
<1>0. Types /\ Alone /\ PolMaxOpen \in Nat
  BY DEF PolicyInv, ConstantsFit
<1>1. ASSUME Types', UNCHANGED <<work, open>> PROVE PolicyInv'
  BY <1>1 DEF PolicyInv, Alone, PolicyBounded, PolicyFits, OfStrat
<1>2. Types'
  <2>1. ASSUME NEW p \in Pairs, Handles(p) PROVE Types'
    BY <1>0, <2>1, AloneStep
  <2>2. ASSUME NEW od \in open, Close(od) PROVE Types'
    <3>1. IsFiniteSet(open')
      BY <1>0, <2>2, FS_RemoveElement DEF Close, Types
    <3> QED
      BY <1>0, <2>2, <3>1 DEF Close, Types
  <2>3. CASE Tick
    BY <1>0, <2>3 DEF Tick, Types
  <2>4. CASE StopEntries
    BY <1>0, <2>4 DEF StopEntries, Types
  <2>5. CASE UNCHANGED vars
    BY <1>0, <2>5 DEF vars, Types
  <2> QED
    BY <2>1, <2>2, <2>3, <2>4, <2>5, NextIs
<1>3. CASE Tick
  BY <1>1, <1>2, <1>3 DEF Tick
<1>4. CASE StopEntries
  BY <1>1, <1>2, <1>4 DEF StopEntries
<1>5. CASE UNCHANGED vars
  BY <1>1, <1>2, <1>5 DEF vars
<1>6. ASSUME NEW od \in open, Close(od) PROVE PolicyInv'
  <2>1. open' = open \ {od} /\ work' = work
    BY <1>6 DEF Close
  <2>2. ASSUME NEW s PROVE /\ Cardinality({o \in open' : o.strat = s}) <= Cardinality(OfStrat(s))
                            /\ Cardinality({o \in open' : o.strat = s}) \in Nat /\ Cardinality(OfStrat(s)) \in Nat
    <3>1. {o \in open' : o.strat = s} \in SUBSET OfStrat(s)
      BY <2>1 DEF OfStrat
    <3>2. IsFiniteSet(OfStrat(s)) /\ Cardinality(OfStrat(s)) \in Nat
      BY <1>0, CountIs
    <3> QED
      BY <3>1, <3>2, FS_Subset, FS_CardinalityType
  <2>3. \A s \in Strats : Cardinality({o \in open' : o.strat = s}) <= PolMaxOpen
    BY <1>0, <2>2 DEF PolicyInv, PolicyBounded
  <2>4. PolicyBounded'
    BY <2>3 DEF PolicyBounded, OfStrat
  <2>5. ASSUME NEW p \in Pairs PROVE PolicyFits(p)'
    <3>1. PolicyFits(p) /\ work[p].reqs \in Nat /\ work[p].num \in Nat
      BY <1>0, WorkIs DEF PolicyInv
    <3>2. /\ work[p].at = "permit" => Cardinality({o \in open' : o.strat = work[p].strat}) <= work[p].num
          /\ work[p].at = "enter" => Cardinality({o \in open' : o.strat = work[p].strat}) + work[p].reqs <= PolMaxOpen
      BY <1>0, <2>2, <3>1 DEF PolicyFits
    <3> QED
      BY <2>1, <3>2 DEF PolicyFits, OfStrat
  <2> QED
    BY <1>0, <1>2, <2>1, <2>4, <2>5 DEF PolicyInv, Alone
<1> QED
  BY <1>3, <1>4, <1>5, <1>6, PolicyHandles, NextIs

(* In a back test no strategy has more open orders than max_open of its        *)
(* policy, whatever it asks for, also from the callbacks of orders just        *)
(* entered (allowOrderEnter).                                                  *)
THEOREM PolicyKept == ConstantsFit /\ ~Parallel /\ PolMaxOpen # 0 => (Spec => []PolicyBounded)
<1>1. ASSUME ConstantsFit, ~Parallel, PolMaxOpen # 0 PROVE Spec => []PolicyInv
  <2>1. Init => PolicyInv
    <3> SUFFICES ASSUME Init PROVE PolicyInv
      OBVIOUS
    <3>1. Types
      BY <1>1, FailsInit DEF FailsInv
    <3>2. \A s \in Strats : OfStrat(s) = {}
      BY DEF Init, OfStrat
    <3>3. PolicyBounded
      BY <1>1, <3>2, FS_EmptySet DEF PolicyBounded, ConstantsFit
    <3>4. Alone /\ \A p \in Pairs : PolicyFits(p)
      BY NoWorkIs DEF Init, Alone, PolicyFits
    <3> QED
      BY <3>1, <3>3, <3>4 DEF PolicyInv
  <2>2. PolicyInv /\ [Next]_vars => PolicyInv'
    BY <1>1, PolicyStep
  <2> QED
    BY <2>1, <2>2, PTL DEF Spec
<1>2. PolicyInv => PolicyBounded
  BY DEF PolicyInv
<1>3. ASSUME ConstantsFit, ~Parallel, PolMaxOpen # 0 PROVE Spec => []PolicyBounded
  BY <1>1, <1>2, <1>3, PTL
<1> QED
  BY <1>3

-----------------------------------------------------------------------------
(* What is entered on one bar *)

\* What a pair may still enter is counted in simulOpen and simulOpenSt.
SimulFits(p) ==
  /\ p \in due \/ work[p] # NoWork => now % Tf[p] = 0
  /\ work[p].at \in {"count", "permit", "enter"} => barMS = now
  /\ work[p].at \in {"count", "permit"} => simulOpen + work[p].reqs <= MaxSimulOpen
  /\ work[p].at = "enter" =>
       /\ SumFunction(inTick) + work[p].reqs <= simulOpen
       /\ inTick[work[p].strat] + work[p].reqs <= simulOpenSt[work[p].strat]
\* simulOpen and simulOpenSt are of the bar that is entered on, or of an earlier one when nothing was.
Counted ==
  /\ barMS <= now
  /\ barMS < now => \A s \in Strats : inTick[s] = 0
  /\ simulOpen <= MaxSimulOpen /\ \A s \in Strats : simulOpenSt[s] <= PolMaxSimul
  /\ SumFunction(inTick) <= simulOpen /\ \A s \in Strats : inTick[s] <= simulOpenSt[s]
SimulInv == Types /\ Alone /\ Counted /\ \A p \in Pairs : SimulFits(p)

LEMMA TickSum ==
  ASSUME ConstantsFit, Types
  PROVE  /\ SumFunction(inTick) \in Int
         /\ (\A s \in Strats : inTick[s] = 0) => SumFunction(inTick) = 0
<1>1. IsFiniteSet(Strats) /\ inTick \in [Strats -> Int]
  BY DEF ConstantsFit, Types
<1> QED
  BY <1>1, SumInt, SumZero

LEMMA SimulHandles ==
  ASSUME ConstantsFit, ~Parallel, MaxSimulOpen # 0, PolMaxSimul # 0, SimulInv, NEW p \in Pairs, Handles(p)
  PROVE  SimulInv'
<1>1. /\ Types' /\ Alone' /\ Types
      /\ \A q \in Pairs : q # p => work[q] = NoWork /\ work'[q] = NoWork
  BY AloneStep DEF SimulInv
<1>2. /\ SimulFits(p) /\ Counted
      /\ \A q \in Pairs : SimulFits(q)
      /\ MaxSimulOpen \in Nat /\ PolMaxSimul \in Nat /\ Tf[p] \in Nat \ {0}
  BY DEF SimulInv, ConstantsFit
<1>3. /\ now \in Nat /\ barMS \in Int /\ simulOpen \in Nat
      /\ simulOpenSt \in [Strats -> Nat] /\ inTick \in [Strats -> Nat]
      /\ work \in [Pairs -> Work] /\ work[p].reqs \in Nat /\ work[p].num \in Nat
  BY <1>1, WorkIs DEF Types
<1>4. ASSUME due' \in SUBSET due, now' = now, NEW q \in Pairs, q # p PROVE SimulFits(q)'
  <2>1. q \in due' => now' % Tf[q] = 0
    BY <1>2, <1>4 DEF SimulFits
  <2>2. work'[q] = NoWork
    BY <1>1, <1>4
  <2> QED
    BY <2>1, <2>2, NoWorkIs DEF SimulFits
<1>5. ASSUME due' \in SUBSET due, now' = now, Counted', SimulFits(p)' PROVE SimulInv'
  BY <1>1, <1>4, <1>5 DEF SimulInv
<1>6. ASSUME work'[p].at \in {"idle", "bar", "check"},
             UNCHANGED <<now, barMS, simulOpen, simulOpenSt, open, inTick>>, due' \in SUBSET due,
             work[p] = NoWork => p \in due
      PROVE  SimulInv'
  <2>1. Counted'
    BY <1>2, <1>6 DEF Counted
  <2>2. now' % Tf[p] = 0
    BY <1>2, <1>6 DEF SimulFits
  <2>3. SimulFits(p)'
    BY <1>6, <2>2 DEF SimulFits
  <2> QED
    BY <1>5, <1>6, <2>1, <2>3
<1>7. CASE CheckNum(p)
  <2> DEFINE kept == Kept(p, work[p].reqs)
  <2>1. /\ work[p].at = "check" /\ UNCHANGED <<now, due, inTick>>
        /\ barMS' = (IF barMS < AlignTf(now, Tf[p]) THEN AlignTf(now, Tf[p]) ELSE barMS)
        /\ simulOpen' = SimulOpen(p) /\ simulOpenSt' = SimulOpenSt(p)
        /\ work' = [work EXCEPT ![p] = IF kept = 0 THEN AtBar(work[p]) ELSE Goes(work[p], "count", kept, 0)]
    BY <1>7 DEF CheckNum
  <2>2. now % Tf[p] = 0
    BY <1>2, <2>1, NoWorkIs DEF SimulFits
  <2>3. AlignTf(now, Tf[p]) = now
    BY <1>3, <2>2 DEF AlignTf
  <2>4. barMS <= now
    BY <1>2 DEF Counted
  <2>5. barMS' = now
    BY <1>3, <2>1, <2>3, <2>4
  <2>6. /\ SimulOpen(p) = IF barMS < now THEN 0 ELSE simulOpen
        /\ SimulOpenSt(p) = IF barMS < now THEN [s \in Strats |-> 0] ELSE simulOpenSt
    BY <2>3 DEF SimulOpen, SimulOpenSt
  <2>7. Counted'
    <3>1. CASE barMS < now
      <4>1. \A s \in Strats : inTick[s] = 0
        BY <1>2, <3>1 DEF Counted
      <4>2. SumFunction(inTick) = 0
        BY <1>1, <4>1, TickSum
      <4>3. simulOpen' = 0 /\ \A s \in Strats : simulOpenSt'[s] = 0
        BY <2>1, <2>6, <3>1
      <4>4. SumFunction(inTick') = 0 /\ inTick' = inTick /\ now' = now
        BY <2>1, <4>2
      <4> QED
        BY <1>2, <1>3, <2>5, <4>1, <4>3, <4>4 DEF Counted
    <3>2. CASE ~(barMS < now)
      <4>1. simulOpen' = simulOpen /\ simulOpenSt' = simulOpenSt /\ inTick' = inTick /\ now' = now
        BY <2>1, <2>6, <3>2
      <4> QED
        BY <1>2, <1>3, <2>5, <4>1 DEF Counted
    <3> QED
      BY <3>1, <3>2
  <2>8. kept \in Nat /\ (kept # 0 => simulOpen' + kept <= MaxSimulOpen)
    <3>1. kept \in 0 .. work[p].reqs /\ (MaxSimulOpen # 0 /\ kept # 0 => SimulOpen(p) + kept <= MaxSimulOpen)
      BY <1>1, <1>3, KeptIs
    <3> HIDE DEF kept
    <3> QED
      BY <1>3, <2>1, <3>1
  <2> HIDE DEF kept
  <2>9. work'[p] = IF kept = 0 THEN AtBar(work[p]) ELSE Goes(work[p], "count", kept, 0)
    BY <1>3, <2>1
  <2>10. SimulFits(p)'
    <3>1. CASE kept = 0
      <4>1. work'[p].at = "bar"
        BY <2>9, <3>1 DEF AtBar
      <4> QED
        BY <2>1, <2>2, <4>1 DEF SimulFits
    <3>2. CASE kept # 0
      <4>1. work'[p].at = "count" /\ work'[p].reqs = kept
        BY <2>9, <3>2 DEF Goes
      <4> QED
        BY <2>1, <2>2, <2>5, <2>8, <3>2, <4>1 DEF SimulFits
    <3> QED
      BY <3>1, <3>2
  <2> QED
    BY <1>5, <2>1, <2>7, <2>10
<1>8. CASE CountOpen(p)
  <2>1. /\ work' = [work EXCEPT ![p] = Goes(work[p], "permit", work[p].reqs, Cardinality(OfStrat(work[p].strat)))]
        /\ work[p].at = "count" /\ UNCHANGED <<now, due, barMS, simulOpen, simulOpenSt, inTick>>
    BY <1>1, <1>8, CountOpenStep DEF Works, CountOpen
  <2>2. work'[p].at = "permit" /\ work'[p].reqs = work[p].reqs
    BY <2>1, <1>3 DEF Goes
  <2>3. Counted'
    BY <1>2, <2>1 DEF Counted
  <2>4. now % Tf[p] = 0
    BY <1>2, <2>1, NoWorkIs DEF SimulFits
  <2>5. SimulFits(p)'
    BY <1>2, <2>1, <2>2, <2>4 DEF SimulFits
  <2> QED
    BY <1>5, <2>1, <2>3, <2>5
<1>9. CASE Permit(p)
  <2> DEFINE st == work[p].strat
             k == Permitted(work[p].reqs, work[p].num, simulOpenSt[st])
  <2>1. /\ work[p].at = "permit" /\ UNCHANGED <<now, due, barMS, inTick>>
        /\ work' = [work EXCEPT ![p] = Goes(work[p], "enter", k, 0)]
        /\ simulOpen' = simulOpen + k /\ simulOpenSt' = [simulOpenSt EXCEPT ![st] = @ + k]
    BY <1>9 DEF Permit
  <2>2. st \in Strats /\ simulOpenSt[st] \in Nat
    BY <1>1, <1>3, <2>1, WorkIs DEF WorkFits
  <2>3. k \in 0 .. work[p].reqs /\ (k # 0 => simulOpenSt[st] + k <= PolMaxSimul)
    <3>1. PolMaxSimul # 0
      OBVIOUS
    <3> HIDE DEF st
    <3> QED
      BY <1>3, <2>2, <3>1, PermittedIs
  <2> HIDE DEF k
  <2>4. work'[p].at = "enter" /\ work'[p].reqs = k /\ work'[p].strat = st
    BY <1>3, <2>1 DEF Goes
  <2>5. k \in Nat /\ simulOpen' <= MaxSimulOpen /\ simulOpen <= simulOpen' /\ barMS = now
    BY <1>2, <1>3, <2>1, <2>3 DEF SimulFits
  <2> HIDE DEF st
  <2>6. \A s \in Strats : simulOpenSt'[s] = IF s = st THEN simulOpenSt[s] + k ELSE simulOpenSt[s]
    BY <1>3, <2>1, <2>2
  <2>7. /\ \A s \in Strats : simulOpenSt[s] <= PolMaxSimul /\ inTick[s] <= simulOpenSt[s] /\ simulOpenSt[s] \in Nat /\ inTick[s] \in Nat
        /\ SumFunction(inTick) <= simulOpen
    BY <1>2, <1>3 DEF Counted
  <2>8. \A s \in Strats : simulOpenSt'[s] <= PolMaxSimul /\ inTick[s] <= simulOpenSt'[s]
    BY <1>2, <2>3, <2>5, <2>6, <2>7
  <2>9. SumFunction(inTick) \in Int
    BY <1>1, TickSum
  <2>10. Counted'
    <3>1. SumFunction(inTick) <= simulOpen'
      BY <1>3, <2>1, <2>5, <2>7, <2>9
    <3> QED
      BY <1>2, <2>1, <2>5, <2>8, <3>1 DEF Counted
  <2>11. SimulFits(p)'
    <3>1. now % Tf[p] = 0
      BY <1>2, <2>1, NoWorkIs DEF SimulFits
    <3>2. SumFunction(inTick) + k <= simulOpen' /\ inTick[st] + k <= simulOpenSt'[st]
      BY <1>3, <2>1, <2>2, <2>5, <2>6, <2>7, <2>9
    <3> QED
      BY <2>1, <2>4, <2>5, <3>1, <3>2 DEF SimulFits
  <2> QED
    BY <1>5, <2>1, <2>10, <2>11
<1>10. CASE EnterOrder(p)
  <2> DEFINE st == work[p].strat
  <2>1. /\ work[p].at = "enter" /\ work[p].reqs > 0 /\ UNCHANGED <<now, due, barMS, simulOpen, simulOpenSt>>
        /\ work' = [work EXCEPT ![p] = Goes(work[p], "enter", work[p].reqs - 1, 1)]
    BY <1>10 DEF EnterOrder
  <2>2. \A s \in Strats : inTick'[s] = IF s = st THEN inTick[s] + 1 ELSE inTick[s]
    BY <1>1, <1>10, EnterOrderStep
  <2>3. st \in Strats /\ inTick' \in [Strats -> Nat] /\ IsFiniteSet(Strats)
    BY <1>1, <2>1, WorkIs DEF WorkFits, ConstantsFit, Types
  <2>4. SumFunction(inTick') = SumFunction(inTick) + 1 /\ SumFunction(inTick) \in Int
    <3>1. PICK g : g = inTick'
      OBVIOUS
    <3>2. g \in [Strats -> Int] /\ inTick \in [Strats -> Int] /\ \A s \in Strats : s # st => g[s] = inTick[s]
      BY <1>3, <2>2, <2>3, <3>1
    <3>3. SumFunction(g) = SumFunction(inTick) + g[st] - inTick[st]
      <4> HIDE DEF st
      <4> QED
        BY <2>3, <3>2, SumChanged
    <3>4. SumFunction(inTick) \in Int
      BY <1>1, TickSum
    <3>5. g[st] = inTick[st] + 1 /\ inTick[st] \in Nat
      BY <1>3, <2>2, <2>3, <3>1
    <3> QED
      BY <3>1, <3>3, <3>4, <3>5
  <2>5. work'[p].at = "enter" /\ work'[p].reqs = work[p].reqs - 1 /\ work'[p].strat = st
    BY <1>3, <2>1 DEF Goes
  <2>6. /\ SumFunction(inTick) + work[p].reqs <= simulOpen /\ inTick[st] + work[p].reqs <= simulOpenSt[st]
        /\ barMS = now /\ now % Tf[p] = 0
    BY <1>2, <2>1, NoWorkIs DEF SimulFits
  <2> HIDE DEF st
  <2>7. SumFunction(inTick') + (work[p].reqs - 1) <= simulOpen /\ SumFunction(inTick') <= simulOpen
    BY <1>3, <2>1, <2>4, <2>6
  <2>8. inTick'[st] + (work[p].reqs - 1) <= simulOpenSt[st] /\ inTick'[st] <= simulOpenSt[st]
    BY <1>3, <2>1, <2>2, <2>3, <2>6
  <2>9. \A s \in Strats : inTick'[s] <= simulOpenSt[s]
    BY <1>2, <2>2, <2>8 DEF Counted
  <2>10. Counted'
    BY <1>2, <1>3, <2>1, <2>6, <2>7, <2>9 DEF Counted
  <2>11. SimulFits(p)'
    BY <2>1, <2>5, <2>6, <2>7, <2>8 DEF SimulFits
  <2> QED
    BY <1>5, <2>1, <2>10, <2>11
<1> QED
  BY <1>1, <1>6, <1>7, <1>8, <1>9, <1>10, WhereTo

LEMMA SimulStep ==
  ASSUME ConstantsFit, ~Parallel, MaxSimulOpen # 0, PolMaxSimul # 0, SimulInv, [Next]_vars
  PROVE  SimulInv'
<1>0. Types /\ Alone /\ Counted /\ \A p \in Pairs : SimulFits(p)
  BY DEF SimulInv
<1>1. ASSUME Types', UNCHANGED <<work, now, due, barMS, simulOpen, simulOpenSt, inTick>> PROVE SimulInv'
  BY <1>0, <1>1 DEF SimulInv, Alone, Counted, SimulFits
<1>2. ASSUME NEW od \in open, Close(od) PROVE SimulInv'
  <2>1. IsFiniteSet(open')
    BY <1>0, <1>2, FS_RemoveElement DEF Close, Types
  <2>2. Types'
    BY <1>0, <1>2, <2>1 DEF Close, Types
  <2> QED
    BY <1>1, <1>2, <2>2 DEF Close
<1>3. CASE StopEntries
  <2>1. Types'
    BY <1>0, <1>3 DEF StopEntries, Types
  <2> QED
    BY <1>1, <1>3, <2>1 DEF StopEntries
<1>4. CASE UNCHANGED vars
  <2>1. Types'
    BY <1>0, <1>4 DEF vars, Types
  <2> QED
    BY <1>1, <1>4, <2>1 DEF vars
<1>5. CASE Tick
  <2>1. /\ due = {} /\ \A p \in Pairs : work[p] = NoWork
        /\ now' = now + 1 /\ due' = {p \in Pairs : (now + 1) % Tf[p] = 0}
        /\ inTick' = [s \in Strats |-> 0]
        /\ UNCHANGED <<barMS, simulOpen, simulOpenSt, work, open, asked, refused, dropped, entered, noEnter>>
    BY <1>5 DEF Tick
  <2>2. /\ now \in Nat /\ barMS \in Int /\ simulOpen \in Nat /\ simulOpenSt \in [Strats -> Nat]
    BY <1>0 DEF Types
  <2>3. Types'
    BY <1>0, <2>1, <2>2 DEF Types
  <2>4. SumFunction(inTick') = 0
    <3>1. PICK g : g = inTick'
      OBVIOUS
    <3>2. g \in [Strats -> Int] /\ \A s \in Strats : g[s] = 0
      BY <2>1, <3>1
    <3> QED
      BY <3>1, <3>2, SumZero DEF ConstantsFit
  <2>5. Counted'
    <3>1. barMS' <= now' /\ simulOpen' <= MaxSimulOpen /\ \A s \in Strats : simulOpenSt'[s] <= PolMaxSimul
      BY <1>0, <2>1, <2>2 DEF Counted
    <3>2. \A s \in Strats : inTick'[s] = 0 /\ inTick'[s] <= simulOpenSt'[s]
      BY <2>1, <2>2
    <3>3. SumFunction(inTick') <= simulOpen'
      BY <2>1, <2>2, <2>4
    <3> QED
      BY <3>1, <3>2, <3>3 DEF Counted
  <2>6. \A p \in Pairs : SimulFits(p)'
    BY <2>1, NoWorkIs DEF SimulFits
  <2> QED
    BY <1>0, <2>1, <2>3, <2>5, <2>6 DEF SimulInv, Alone
<1> QED
  BY <1>2, <1>3, <1>4, <1>5, SimulHandles, NextIs

(* In a back test no more orders are entered on a bar than max_simul_open of   *)
(* the account and of each policy, over all pairs and time frames: the counts  *)
(* are reset by the first pair that is handled on a bar (allowOrderEnter).     *)
THEOREM SimulKept ==
  ConstantsFit /\ ~Parallel /\ MaxSimulOpen # 0 /\ PolMaxSimul # 0 => (Spec => []SimulBounded)
<1>1. ASSUME ConstantsFit, ~Parallel, MaxSimulOpen # 0, PolMaxSimul # 0 PROVE Spec => []SimulInv
  <2>1. Init => SimulInv
    <3> SUFFICES ASSUME Init PROVE SimulInv
      OBVIOUS
    <3>1. Types
      BY <1>1, FailsInit DEF FailsInv
    <3>2. /\ now = 0 /\ due = {} /\ barMS = -1 /\ simulOpen = 0 /\ \A s \in Strats : simulOpenSt[s] = 0 /\ inTick[s] = 0
          /\ \A p \in Pairs : work[p] = NoWork
      BY DEF Init
    <3>3. SumFunction(inTick) = 0
      BY <1>1, <3>1, <3>2, TickSum
    <3>4. Counted
      BY <1>1, <3>2, <3>3 DEF Counted, ConstantsFit
    <3>5. Alone /\ \A p \in Pairs : SimulFits(p)
      BY <3>2, NoWorkIs DEF Alone, SimulFits
    <3> QED
      BY <3>1, <3>4, <3>5 DEF SimulInv
  <2>2. SimulInv /\ [Next]_vars => SimulInv'
    BY <1>1, SimulStep
  <2> QED
    BY <2>1, <2>2, PTL DEF Spec
<1>2. ASSUME ConstantsFit, SimulInv PROVE SimulBounded
  <2>1. /\ Types /\ simulOpen <= MaxSimulOpen /\ SumFunction(inTick) <= simulOpen
        /\ \A s \in Strats : simulOpenSt[s] <= PolMaxSimul /\ inTick[s] <= simulOpenSt[s]
    BY <1>2 DEF SimulInv, Counted
  <2>2. SumFunction(inTick) \in Int /\ simulOpen \in Nat /\ MaxSimulOpen \in Nat /\ PolMaxSimul \in Nat
    BY <1>2, <2>1, TickSum DEF Types, ConstantsFit
  <2>3. \A s \in Strats : simulOpenSt[s] \in Nat /\ inTick[s] \in Nat
    BY <2>1 DEF Types
  <2> QED
    BY <2>1, <2>2, <2>3 DEF SimulBounded
<1>3. ASSUME ConstantsFit, ~Parallel, MaxSimulOpen # 0, PolMaxSimul # 0 PROVE Spec => []SimulBounded
  <2>1. SimulInv => SimulBounded
    BY <1>2, <1>3
  <2> QED
    BY <1>1, <1>3, <2>1, PTL
<1> QED
  BY <1>3

(* All limits of a back test that has them together (allowOrderEnter,          *)
(* checkOrderNum, AddAccFailOpens).                                            *)
THEOREM LimitsHold ==
  ConstantsFit /\ ~Parallel /\ 0 \notin {MaxSimulOpen, PolMaxOpen, PolMaxSimul} => (Spec => []LimitsKept)
<1>1. ASSUME ConstantsFit, ~Parallel, 0 \notin {MaxSimulOpen, PolMaxOpen, PolMaxSimul} PROVE Spec => []LimitsKept
  <2>1. Spec => []SimulBounded
    BY <1>1, SimulKept
  <2>2. Spec => []PolicyBounded
    BY <1>1, PolicyKept
  <2>3. Spec => []FailsAddUp
    BY <1>1, FailsCounted
  <2>4. SimulBounded /\ PolicyBounded /\ FailsAddUp => LimitsKept
    BY DEF LimitsKept
  <2> QED
    BY <2>1, <2>2, <2>3, <2>4, PTL
<1> QED
  BY <1>1
=============================================================================
