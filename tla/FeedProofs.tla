----------------------------- MODULE FeedProofs -----------------------------
(* Theorems about Feed: what an environment is given, for any time frames, any *)
(* number of jobs, goroutines and faults, and however long the bot runs.       *)
EXTENDS Feed, FiniteSetTheorems, TLAPS

-----------------------------------------------------------------------------
(* Numbers *)

LEMMA LeastNat ==
  ASSUME NEW T \in SUBSET Nat, T # {}
  PROVE  \E n \in T : \A m \in T : n <= m
<1> DEFINE R == {ss \in Nat \X Nat : ss[1] < ss[2]}
<1>1. IsWellFoundedOn(R, Nat)
  BY NatLessThanWellFounded DEF OpToRel
<1> HIDE DEF R
<1>2. PICK x \in T : \A y \in T : <<y, x>> \notin R
  BY <1>1, WFMin
<1>3. ASSUME NEW y \in T PROVE x <= y
  <2>1. x \in Nat /\ y \in Nat
    OBVIOUS
  <2>2. y < x => <<y, x>> \in R
    BY <2>1 DEF R
  <2> QED
    BY <1>2, <2>1, <2>2
<1> QED
  BY <1>3

\* t is a point of the grid of time frame tf.
OnGrid(t, tf) == \E k \in Int : t = k * tf

\* Align goes down to the grid.
LEMMA AlignGrid ==
  ASSUME NEW t \in Int, NEW tf \in Nat \ {0}
  PROVE  Align(t, tf) \in Int /\ OnGrid(Align(t, tf), tf) /\ Align(t, tf) <= t
<1>1. t \div tf \in Int
  OBVIOUS
<1>2. tf * (t \div tf) <= t
  BY Z3
<1>3. tf * (t \div tf) = (t \div tf) * tf
  BY <1>1
<1> QED
  BY <1>1, <1>2, <1>3 DEF Align, OnGrid

\* Two points of a grid are at least one step apart.
LEMMA GridStep ==
  ASSUME NEW tf \in Nat \ {0}, NEW a, NEW b, OnGrid(a, tf), OnGrid(b, tf), a < b
  PROVE  a \in Int /\ b \in Int /\ a + tf <= b
<1>1. PICK p \in Int : a = p * tf
  BY DEF OnGrid
<1>2. PICK q \in Int : b = q * tf
  BY DEF OnGrid
<1>3. \A x, y \in Int : x <= y => x * tf <= y * tf
  BY Z3
<1>4. p < q
  BY <1>1, <1>2, <1>3
<1>5. (p + 1) * tf <= q * tf
  BY <1>3, <1>4
<1>6. (p + 1) * tf = p * tf + tf
  OBVIOUS
<1>7. p * tf \in Int /\ q * tf \in Int
  OBVIOUS
<1> QED
  BY <1>1, <1>2, <1>5, <1>6, <1>7

\* Every time is a point of the grid of 1m.
LEMMA GridOne ==
  ASSUME NEW t \in Int
  PROVE  OnGrid(t, 1)
<1>1. t = t * 1
  OBVIOUS
<1> QED
  BY <1>1 DEF OnGrid

-----------------------------------------------------------------------------
(* Picked: the elements at the positions of I, in turn. *)

\* I is a set of positions up to N.
Positions(I, N) == I \in SUBSET Nat /\ IsFiniteSet(I) /\ \A j \in I : 1 <= j /\ j <= N

LEMMA IsPositions ==
  ASSUME NEW N \in Nat, NEW I, \A j \in I : j \in 1 .. N
  PROVE  Positions(I, N)
<1>1. IsFiniteSet(1 .. N)
  BY FS_Interval
<1>2. I \in SUBSET (1 .. N)
  BY Zenon
<1>3. IsFiniteSet(I)
  BY <1>1, <1>2, FS_Subset
<1>4. \A j \in I : j \in Nat /\ 1 <= j /\ j <= N
  OBVIOUS
<1> QED
  BY <1>3, <1>4 DEF Positions

\* There is an n-th position.
LEMMA NthIs ==
  ASSUME NEW N \in Nat, NEW I, Positions(I, N), NEW n \in 1 .. Cardinality(I)
  PROVE  /\ Nth(I, n) \in I
         /\ Cardinality({j \in I : j <= Nth(I, n)}) = n
<1> DEFINE F(k) == {j \in I : j <= k}
<1>1. /\ I \in SUBSET Nat /\ IsFiniteSet(I) /\ Cardinality(I) \in Nat
      /\ \A j \in I : j \in Nat /\ 1 <= j /\ j <= N
  BY FS_CardinalityType, Zenon DEF Positions
<1>0. n \in Nat /\ n >= 1
  BY <1>1
<1>2. ASSUME NEW k \in Nat PROVE IsFiniteSet(F(k)) /\ Cardinality(F(k)) \in Nat
  <2>1. F(k) \in SUBSET I
    OBVIOUS
  <2> QED
    BY <1>1, <2>1, FS_Subset, FS_CardinalityType
<1> DEFINE T == {k \in Nat : Cardinality(F(k)) >= n}
<1>3. N \in T
  <2>1. F(N) = I
    BY <1>1
  <2> QED
    BY <2>1, <1>1
<1>4. PICK k \in T : \A m \in T : k <= m
  <2> HIDE DEF T
  <2>1. T \in SUBSET Nat
    BY DEF T
  <2> QED
    BY <1>3, <2>1, LeastNat
<1>5. k \in Nat /\ Cardinality(F(k)) >= n
  OBVIOUS
<1>6. k # 0
  <2>0. \A j \in I : ~(j <= 0)
    BY <1>1
  <2>1. F(0) = {}
    BY <2>0, Zenon
  <2>2. Cardinality(F(0)) = 0
    BY <2>1, FS_EmptySet
  <2> QED
    BY <2>2, <1>0, <1>5
<1>7. k - 1 \in Nat /\ k - 1 \notin T
  BY <1>4, <1>5, <1>6
<1> HIDE DEF F
<1>8. Cardinality(F(k - 1)) < n
  BY <1>0, <1>7, <1>2
<1>9. k \in I
  <2>1. SUFFICES ASSUME k \notin I PROVE FALSE
    OBVIOUS
  <2>3. \A j \in I : j <= k <=> j <= k - 1
    BY <2>1, <1>1, <1>5
  <2>2. F(k) = F(k - 1)
    BY <2>3, Zenon DEF F
  <2> QED
    BY <2>2, <1>0, <1>8, <1>5, <1>2, <1>7
<1>10. Cardinality(F(k)) = n
  <2>3. /\ \A j \in I : j <= k <=> j <= k - 1 \/ j = k
        /\ k <= k /\ ~(k <= k - 1)
    BY <1>1, <1>5
  <2>1. F(k) = F(k - 1) \cup {k} /\ k \notin F(k - 1)
    BY <2>3, <1>9, Zenon DEF F
  <2>2. Cardinality(F(k)) = Cardinality(F(k - 1)) + 1
    BY <2>1, <1>2, <1>7, FS_AddElement
  <2> QED
    BY <2>2, <1>0, <1>8, <1>5, <1>2, <1>7
<1>11. \E i \in I : Cardinality({j \in I : j <= i}) = n
  BY <1>9, <1>10, Zenon DEF F
<1> QED
  BY <1>11, Zenon DEF Nth

\* The positions come in their order.
LEMMA NthGrows ==
  ASSUME NEW N \in Nat, NEW I, Positions(I, N),
         NEW n \in 1 .. Cardinality(I), NEW m \in 1 .. Cardinality(I), n < m
  PROVE  Nth(I, n) < Nth(I, m)
<1>1. /\ Nth(I, n) \in I /\ Cardinality({j \in I : j <= Nth(I, n)}) = n
      /\ Nth(I, m) \in I /\ Cardinality({j \in I : j <= Nth(I, m)}) = m
  BY NthIs
<1>2. IsFiniteSet(I) /\ \A j \in I : j \in Nat
  BY Zenon DEF Positions
<1> DEFINE A == {j \in I : j <= Nth(I, n)}
           B == {j \in I : j <= Nth(I, m)}
<1>3. SUFFICES ASSUME ~(Nth(I, n) < Nth(I, m)) PROVE FALSE
  OBVIOUS
<1>4. B \in SUBSET A
  BY <1>1, <1>2, <1>3
<1>5. A \in SUBSET I
  OBVIOUS
<1>6. IsFiniteSet(A)
  BY <1>2, <1>5, FS_Subset
<1> HIDE DEF A, B
<1>7. Cardinality(B) <= Cardinality(A)
  BY <1>4, <1>6, FS_Subset
<1> QED
  BY <1>1, <1>7 DEF A, B

\* What Picked takes it takes from s.
LEMMA PickedFrom ==
  ASSUME NEW S, NEW s \in Seq(S), NEW I, \A j \in I : j \in 1 .. Len(s)
  PROVE  /\ Picked(s, I) \in Seq(S)
         /\ \A n \in 1 .. Len(Picked(s, I)) :
              Nth(I, n) \in I /\ Picked(s, I)[n] = s[Nth(I, n)]
         /\ \A n, m \in 1 .. Len(Picked(s, I)) : n < m => Nth(I, n) < Nth(I, m)
<1>1. Len(s) \in Nat
  OBVIOUS
<1>2. Positions(I, Len(s))
  BY <1>1, IsPositions
<1>3. Cardinality(I) \in Nat
  BY <1>2, FS_CardinalityType, Zenon DEF Positions
<1>4. \A n \in 1 .. Cardinality(I) : Nth(I, n) \in I
  BY <1>1, <1>2, NthIs
<1>5. \A n, m \in 1 .. Cardinality(I) : n < m => Nth(I, n) < Nth(I, m)
  BY <1>1, <1>2, NthGrows
<1>6. \A i \in I : s[i] \in S
  OBVIOUS
<1>7. Picked(s, I) = [n \in 1 .. Cardinality(I) |-> s[Nth(I, n)]]
  BY DEF Picked
<1> HIDE DEF Picked
<1>8. Picked(s, I) \in Seq(S) /\ Len(Picked(s, I)) = Cardinality(I)
  BY <1>3, <1>4, <1>6, <1>7
<1>9. \A n \in 1 .. Cardinality(I) : Picked(s, I)[n] = s[Nth(I, n)]
  BY <1>7
<1> QED
  BY <1>4, <1>5, <1>8, <1>9

-----------------------------------------------------------------------------
(* Bars *)

Bar == [t : Int, ps : SUBSET Int]
BarsGiven(s) == s \in Seq(Bar) /\ s # <<>>
AllOnGrid(s, tf) == \A i \in 1 .. Len(s) : OnGrid(s[i].t, tf)

\* What BuildOHLCV returns are bars of the time frame.
LEMMA Built ==
  ASSUME NEW arr \in Seq(Bar), NEW olds \in Seq(Bar), NEW tf \in Nat \ {0}
  PROVE  /\ BuildOHLCV(arr, tf, olds) \in Seq(Bar)
         /\ AllOnGrid(BuildOHLCV(arr, tf, olds), tf)
         /\ arr # <<>> => BuildOHLCV(arr, tf, olds) # <<>>
<1> DEFINE all == olds \o arr
           Period(i) == Align(all[i].t, tf)
           firsts == {i \in DOMAIN all : i = 1 \/ Period(i) # Period(i - 1)}
           Run(i) == {j \in i .. Len(all) : firsts \cap (i + 1 .. j) = {}}
           bar(n) == [t |-> Period(Nth(firsts, n)),
                      ps |-> UNION {all[j].ps : j \in Run(Nth(firsts, n))}]
<1>1. BuildOHLCV(arr, tf, olds) = [n \in 1 .. Cardinality(firsts) |-> bar(n)]
  BY Zenon DEF BuildOHLCV
<1>2. all \in Seq(Bar) /\ Len(all) \in Nat /\ Len(all) = Len(olds) + Len(arr)
  OBVIOUS
<1>3. ASSUME NEW i \in 1 .. Len(all)
      PROVE  all[i].t \in Int /\ all[i].ps \in SUBSET Int
  <2> HIDE DEF all
  <2>1. all[i] \in Bar
    BY <1>2
  <2> QED
    BY <2>1 DEF Bar
<1>4. DOMAIN all = 1 .. Len(all)
  BY <1>2
<1>5. \A j \in firsts : j \in 1 .. Len(all)
  BY <1>4
<1>6. Positions(firsts, Len(all))
  BY <1>2, <1>5, IsPositions
<1>7. Cardinality(firsts) \in Nat
  BY <1>6, FS_CardinalityType, Zenon DEF Positions
<1>8. ASSUME NEW n \in 1 .. Cardinality(firsts)
      PROVE  Nth(firsts, n) \in 1 .. Len(all)
  <2> HIDE DEF all, firsts
  <2>1. Nth(firsts, n) \in firsts
    BY <1>2, <1>6, NthIs
  <2> QED
    BY <2>1, <1>5
<1>9. ASSUME NEW n \in 1 .. Cardinality(firsts)
      PROVE  bar(n) \in Bar /\ OnGrid(bar(n).t, tf)
  <2> DEFINE i == Nth(firsts, n)
  <2>1. i \in 1 .. Len(all)
    BY <1>8
  <2>2. Period(i) \in Int /\ OnGrid(Period(i), tf)
    <3>1. all[i].t \in Int
      BY <2>1, <1>3
    <3> QED
      BY <3>1, AlignGrid
  <2>3. \A j \in Run(i) : j \in 1 .. Len(all)
    <3> HIDE DEF all, firsts, i
    <3>1. \A j \in i .. Len(all) : j \in 1 .. Len(all)
      BY <2>1, <1>2
    <3> QED
      BY <3>1
  <2>4. UNION {all[j].ps : j \in Run(i)} \in SUBSET Int
    <3> HIDE DEF all, Run
    <3>1. \A j \in Run(i) : all[j].ps \in SUBSET Int
      BY <2>3, <1>3
    <3> QED
      BY <3>1
  <2> HIDE DEF Period, Run, all, i
  <2>5. bar(n) = [t |-> Period(i), ps |-> UNION {all[j].ps : j \in Run(i)}]
    BY DEF i
  <2> HIDE DEF bar
  <2> QED
    BY <2>2, <2>4, <2>5 DEF Bar
<1> HIDE DEF bar, firsts, all
<1>10. /\ BuildOHLCV(arr, tf, olds) \in Seq(Bar)
       /\ Len(BuildOHLCV(arr, tf, olds)) = Cardinality(firsts)
  BY <1>1, <1>7, <1>9
<1>11. AllOnGrid(BuildOHLCV(arr, tf, olds), tf)
  BY <1>1, <1>9, <1>10 DEF AllOnGrid
<1>12. ASSUME arr # <<>> PROVE BuildOHLCV(arr, tf, olds) # <<>>
  <2>1. Len(arr) > 0 /\ Len(all) > 0
    BY <1>2, <1>12
  <2>2. 1 \in firsts
    BY <2>1, <1>2, <1>4 DEF firsts
  <2>3. Cardinality(firsts) # 0
    BY <2>2, <1>6, FS_EmptySet DEF Positions
  <2> QED
    BY <2>3, <1>10
<1> QED
  BY <1>10, <1>11, <1>12

\* The parts of what is given are bars.
LEMMA Parts ==
  ASSUME NEW s, BarsGiven(s)
  PROVE  /\ Len(s) \in Nat \ {0} /\ s \in Seq(Bar)
         /\ Front(s) \in Seq(Bar) /\ Len(Front(s)) = Len(s) - 1
         /\ \A i \in 1 .. Len(s) - 1 : Front(s)[i] = s[i]
         /\ Last(s) = s[Len(s)] /\ Last(s) \in Bar /\ Last(s).t \in Int
         /\ Head(s) \in Bar /\ Head(s).t \in Int
         /\ \A i \in 1 .. Len(s) : s[i] \in Bar /\ s[i].t \in Int
         /\ Tail(s) \in Seq(Bar)
<1>1. Len(s) \in Nat \ {0} /\ s \in Seq(Bar)
  BY DEF BarsGiven
<1>2. \A i \in 1 .. Len(s) : s[i] \in Bar
  BY <1>1
<1>3. \A b \in Bar : b.t \in Int
  BY DEF Bar
<1>4. /\ Front(s) \in Seq(Bar) /\ Len(Front(s)) = Len(s) - 1
      /\ \A i \in 1 .. Len(s) - 1 : Front(s)[i] = s[i]
  <2> DEFINE n == Len(s) - 1
  <2>1. n \in Nat /\ n <= Len(s)
    BY <1>1
  <2>2. Front(s) = SubSeq(s, 1, n)
    BY DEF Front
  <2> HIDE DEF n
  <2>3. SubSeq(s, 1, n) = [i \in 1 .. n |-> s[i]]
    BY <1>1, <2>1
  <2>4. \A i \in 1 .. n : s[i] \in Bar
    BY <1>1, <2>1
  <2>5. SubSeq(s, 1, n) \in Seq(Bar) /\ Len(SubSeq(s, 1, n)) = n
    BY <2>1, <2>3, <2>4
  <2>6. \A i \in 1 .. n : SubSeq(s, 1, n)[i] = s[i]
    BY <2>3
  <2> QED
    BY <2>2, <2>5, <2>6 DEF n
<1>5. Last(s) = s[Len(s)] /\ Last(s) \in Bar
  BY <1>1, <1>2 DEF Last
<1>6. Head(s) \in Bar /\ Tail(s) \in Seq(Bar)
  BY <1>1, <1>2
<1> QED
  BY <1>1, <1>2, <1>3, <1>4, <1>5, <1>6

LEMMA OneBar ==
  ASSUME NEW b \in Bar
  PROVE  One(b) \in Seq(Bar)
BY DEF One

LEMMA NoBarIsBar == NoBar \in Bar
BY DEF NoBar, Bar

\* The bars the exchange and the store return.
LEMMA FetchedBars ==
  ASSUME NEW tf \in Nat \ {0}, NEW a \in Int, NEW b \in Int
  PROVE  BarsOf(tf, a, b) \in Seq(Bar) /\ (tf = 1 => Len(BarsOf(tf, a, b)) = IF b > a THEN b - a ELSE 0)
<1> DEFINE bar(i) == [t |-> a + (i - 1) * tf, ps |-> a + (i - 1) * tf .. a + i * tf - 1]
           n == (b - a) \div tf
<1>1. BarsOf(tf, a, b) = [i \in 1 .. n |-> bar(i)] /\ n \in Int
  BY DEF BarsOf
<1>2. ASSUME NEW i \in 1 .. n PROVE bar(i) \in Bar
  <2>1. i \in Int /\ (i - 1) * tf \in Int /\ i * tf \in Int
    OBVIOUS
  <2>2. a + (i - 1) * tf \in Int /\ (a + (i - 1) * tf .. a + i * tf - 1) \in SUBSET Int
    BY <2>1
  <2> QED
    BY <2>2 DEF Bar
<1>3. tf = 1 => n = b - a
  OBVIOUS
<1> HIDE DEF bar, n
<1>4. n >= 0 => [i \in 1 .. n |-> bar(i)] \in Seq(Bar) /\ Len([i \in 1 .. n |-> bar(i)]) = n
  BY <1>1, <1>2
<1>5. ~(n >= 0) => [i \in 1 .. n |-> bar(i)] = <<>>
  BY <1>1
<1>6. <<>> \in Seq(Bar) /\ Len(<<>>) = 0
  OBVIOUS
<1> QED
  <2>1. CASE n >= 0
    BY <2>1, <1>1, <1>3, <1>4
  <2>2. CASE ~(n >= 0)
    <3>1. BarsOf(tf, a, b) = <<>>
      BY <2>2, <1>1, <1>5
    <3> QED
      BY <3>1, <2>2, <1>1, <1>3, <1>6
  <2> QED
    BY <2>1, <2>2

\* The caches keep bars, and what fillLacks hands on are bars.
Cache(c) == c.next \in Int /\ c.wait \in Bar

LEMMA Filled ==
  ASSUME NEW c, Cache(c), NEW tf \in Nat \ {0}, NEW src \in Nat \ {0},
         NEW start \in Int, NEW end \in Int
  PROVE  /\ FillLacks(c, tf, src, start, end).olds \in Seq(Bar)
         /\ FillLacks(c, tf, src, start, end).next \in Int
         /\ FillLacks(c, tf, src, start, end).wait \in Bar
<1> DEFINE old == BuildOHLCV(BarsOf(src, Align(c.next, tf), start), tf, <<>>)
<1>1. c.next \in Int /\ c.wait \in Bar /\ <<>> \in Seq(Bar)
  BY DEF Cache
<1>2. Align(c.next, tf) \in Int
  BY <1>1, AlignGrid
<1>3. BarsOf(src, Align(c.next, tf), start) \in Seq(Bar)
  BY <1>2, FetchedBars
<1>4. old \in Seq(Bar)
  BY <1>1, <1>3, Built
<1> HIDE DEF old
<1>5. CASE ~Lacks(c, start)
  <2>1. FillLacks(c, tf, src, start, end) = [olds |-> <<>>, next |-> end, wait |-> c.wait]
    BY <1>5 DEF FillLacks
  <2> QED
    BY <2>1, <1>1
<1>6. CASE Lacks(c, start)
  <2>1. FillLacks(c, tf, src, start, end) =
          [olds |-> IF old = <<>> THEN <<>> ELSE Front(old), next |-> end,
           wait |-> IF old = <<>> THEN NoBar ELSE Last(old)]
    BY <1>6, Zenon DEF FillLacks, old
  <2>2. (IF old = <<>> THEN <<>> ELSE Front(old)) \in Seq(Bar)
    BY <1>1, <1>4, Parts DEF BarsGiven
  <2>3. (IF old = <<>> THEN NoBar ELSE Last(old)) \in Bar
    BY <1>4, Parts, NoBarIsBar DEF BarsGiven
  <2> QED
    BY <2>1, <2>2, <2>3
<1> QED
  BY <1>5, <1>6

-----------------------------------------------------------------------------
(* The environments *)

\* Bars of time frame tf, each after the end of the one before it, the last one ended by e.
Ordered(bars, tf, e) ==
  /\ \A i \in 1 .. Len(bars) : OnGrid(bars[i].t, tf) /\ bars[i].t + tf <= e
  /\ \A i, j \in 1 .. Len(bars) : i < j => bars[i].t + tf <= bars[j].t

\* What OnEnvJobs lets through comes after all that was given before.
LEMMA EnvTakesNew ==
  ASSUME NEW tf \in Nat \ {0}, told[tf] \in Seq(Bar), stop[tf] \in Int,
         Ordered(told[tf], tf, stop[tf]),
         NEW due \in Seq(Bar), AllOnGrid(due, tf)
  PROVE  LET env == OnEnvJobs(tf, due)
         IN env.bars \in Seq(Bar) /\ env.end \in Int /\ Ordered(env.bars, tf, env.end)
<1> DEFINE seen == {i \in DOMAIN due : due[i].t >= stop[tf] /\ \A j \in 1 .. i - 1 : due[j].t < due[i].t}
           new == Picked(due, seen)
           end == IF new = <<>> THEN stop[tf] ELSE Last(new).t + tf
           bars == told[tf] \o new
<1>1. OnEnvJobs(tf, due) = [bars |-> bars, end |-> end]
  BY Zenon DEF OnEnvJobs
<1>2. DOMAIN due = 1 .. Len(due) /\ Len(due) \in Nat
  OBVIOUS
<1>3. \A i \in 1 .. Len(due) : due[i].t \in Int /\ OnGrid(due[i].t, tf)
  <2>1. \A i \in 1 .. Len(due) : due[i] \in Bar
    OBVIOUS
  <2> QED
    BY <2>1 DEF Bar, AllOnGrid
<1>4. \A i \in seen : i \in 1 .. Len(due)
  BY <1>2
<1>5. /\ new \in Seq(Bar)
      /\ \A n \in 1 .. Len(new) : Nth(seen, n) \in seen /\ new[n] = due[Nth(seen, n)]
      /\ \A n, m \in 1 .. Len(new) : n < m => Nth(seen, n) < Nth(seen, m)
  <2> HIDE DEF seen
  <2> QED
    BY <1>4, PickedFrom
<1> HIDE DEF new
<1>6. ASSUME NEW n \in 1 .. Len(new)
      PROVE  new[n].t \in Int /\ OnGrid(new[n].t, tf) /\ stop[tf] <= new[n].t
  <2>1. Nth(seen, n) \in seen /\ new[n] = due[Nth(seen, n)]
    BY <1>5
  <2>2. due[Nth(seen, n)].t >= stop[tf] /\ Nth(seen, n) \in 1 .. Len(due)
    BY <2>1, <1>2
  <2> QED
    BY <2>1, <2>2, <1>3
<1>7. ASSUME NEW n \in 1 .. Len(new), NEW m \in 1 .. Len(new), n < m
      PROVE  new[n].t + tf <= new[m].t
  <2>1. Nth(seen, n) \in seen /\ new[n] = due[Nth(seen, n)]
    BY <1>5
  <2>2. Nth(seen, m) \in seen /\ new[m] = due[Nth(seen, m)]
    BY <1>5
  <2>3. Nth(seen, n) < Nth(seen, m)
    BY <1>5, <1>7
  <2>4. Nth(seen, n) \in 1 .. Nth(seen, m) - 1
    BY <2>1, <2>2, <2>3, <1>4
  <2>5. new[n].t < new[m].t
    BY <2>1, <2>2, <2>4
  <2> QED
    BY <2>5, <1>6, GridStep
<1> HIDE DEF seen
<1>8. bars \in Seq(Bar) /\ Len(bars) = Len(told[tf]) + Len(new) /\ Len(new) \in Nat /\ Len(told[tf]) \in Nat
  BY <1>5
<1>9. ASSUME NEW i \in 1 .. Len(bars)
      PROVE  \/ i \in 1 .. Len(told[tf]) /\ bars[i] = told[tf][i]
             \/ i > Len(told[tf]) /\ i - Len(told[tf]) \in 1 .. Len(new) /\ bars[i] = new[i - Len(told[tf])]
  BY <1>5, <1>8
<1>10. CASE new = <<>>
  <2>1. bars = told[tf] /\ end = stop[tf]
    BY <1>10
  <2> QED
    BY <1>1, <2>1
<1>11. CASE new # <<>>
  <2> DEFINE N == Len(new)
  <2>1. N \in 1 .. Len(new) /\ end = new[N].t + tf
    BY <1>8, <1>11, <1>5 DEF Last
  <2>2. new[N].t \in Int /\ OnGrid(new[N].t, tf) /\ stop[tf] <= new[N].t
    BY <2>1, <1>6
  <2>3. end \in Int /\ stop[tf] <= end
    BY <2>1, <2>2
  <2>4. ASSUME NEW n \in 1 .. Len(new) PROVE new[n].t + tf <= end
    <3>1. CASE n = N
      BY <3>1, <2>1, <1>6
    <3>2. CASE n # N
      <4>1. n < N
        BY <3>2, <1>8
      <4>2. new[n].t + tf <= new[N].t
        BY <4>1, <2>1, <1>7
      <4> QED
        BY <4>2, <2>1, <2>2, <1>6
    <3> QED
      BY <3>1, <3>2
  <2>5. \A i \in 1 .. Len(told[tf]) : told[tf][i].t \in Int /\ OnGrid(told[tf][i].t, tf) /\ told[tf][i].t + tf <= stop[tf]
    <3>1. \A i \in 1 .. Len(told[tf]) : told[tf][i] \in Bar
      OBVIOUS
    <3> QED
      BY <3>1 DEF Ordered, Bar
  <2> HIDE DEF N, end, bars
  <2>6. ASSUME NEW i \in 1 .. Len(bars)
        PROVE  OnGrid(bars[i].t, tf) /\ bars[i].t + tf <= end
    <3>1. CASE i \in 1 .. Len(told[tf]) /\ bars[i] = told[tf][i]
      <4>1. OnGrid(told[tf][i].t, tf) /\ told[tf][i].t \in Int /\ told[tf][i].t + tf <= stop[tf]
        BY <3>1, <2>5
      <4> QED
        BY <4>1, <3>1, <2>3
    <3>2. CASE i - Len(told[tf]) \in 1 .. Len(new) /\ bars[i] = new[i - Len(told[tf])]
      <4>1. OnGrid(new[i - Len(told[tf])].t, tf) /\ new[i - Len(told[tf])].t + tf <= end
        BY <3>2, <2>4, <1>6
      <4> QED
        BY <4>1, <3>2
    <3> QED
      BY <3>1, <3>2, <1>9
  <2>7. ASSUME NEW i \in 1 .. Len(bars), NEW j \in 1 .. Len(bars), i < j
        PROVE  bars[i].t + tf <= bars[j].t
    <3>1. CASE j \in 1 .. Len(told[tf])
      <4>1. i \in 1 .. Len(told[tf]) /\ bars[i] = told[tf][i] /\ bars[j] = told[tf][j]
        BY <3>1, <2>7, <1>9, <1>8
      <4> QED
        BY <4>1, <3>1, <2>7 DEF Ordered
    <3>2. CASE j \notin 1 .. Len(told[tf])
      <4>1. j > Len(told[tf]) /\ j - Len(told[tf]) \in 1 .. Len(new) /\ bars[j] = new[j - Len(told[tf])]
        BY <3>2, <1>9
      <4>2. bars[j].t \in Int /\ stop[tf] <= bars[j].t
        BY <4>1, <1>6
      <4>3. CASE i \in 1 .. Len(told[tf]) /\ bars[i] = told[tf][i]
        <5>1. told[tf][i].t \in Int /\ told[tf][i].t + tf <= stop[tf]
          BY <4>3, <2>5
        <5>2. bars[i].t \in Int /\ bars[i].t + tf <= stop[tf]
          BY <5>1, <4>3
        <5>3. stop[tf] \in Int /\ tf \in Int
          BY <1>1
        <5> QED
          BY <5>2, <5>3, <4>2
      <4>4. CASE i > Len(told[tf]) /\ i - Len(told[tf]) \in 1 .. Len(new) /\ bars[i] = new[i - Len(told[tf])]
        <5> DEFINE p == i - Len(told[tf])
                   q == j - Len(told[tf])
        <5>1. p \in 1 .. Len(new) /\ q \in 1 .. Len(new) /\ p < q
          BY <2>7, <1>8, <4>1, <4>4
        <5>2. bars[i] = new[p] /\ bars[j] = new[q]
          BY <4>1, <4>4
        <5> HIDE DEF p, q
        <5> QED
          BY <5>1, <5>2, <1>7
      <4> QED
        BY <4>3, <4>4, <1>9
    <3> QED
      BY <3>1, <3>2
  <2>8. Ordered(bars, tf, end)
    BY <2>6, <2>7 DEF Ordered
  <2> QED
    BY <1>1, <1>8, <2>3, <2>8
<1> QED
  BY <1>10, <1>11

-----------------------------------------------------------------------------
(* The invariant *)

States == [sub : Int, next : Int, wait : Bar]
WaitsOn(wait, tf) == wait = NoBar \/ OnGrid(wait.t, tf)

\* The states and the environments of the time frames sts, given bars and ended times.
FramesAgree(sts, bars, ends) ==
  /\ sts \in [DOMAIN sts -> States] /\ bars \in [DOMAIN sts -> Seq(Bar)] /\ ends \in [DOMAIN sts -> Int]
  /\ DOMAIN sts \in SUBSET (Nat \ {0}) /\ DOMAIN sts # {}
  /\ \A tf \in DOMAIN sts : WaitsOn(sts[tf].wait, tf) /\ Ordered(bars[tf], tf, ends[tf])

Messages == Seq(Bar) \ {<<>>}
TaskFits(h) ==
  /\ h = [at |-> h.at, tf |-> h.tf, bars |-> h.bars, min |-> h.min, left |-> h.left]
  /\ h.tf \in Nat \ {0} /\ BarsGiven(h.bars) /\ AllOnGrid(h.bars, h.tf)
  /\ h.min \in Nat /\ (h.min # 0 => h.tf <= h.min)

RefreshFits(r) ==
  r \in [at : {"due", "subscribed", "warm", "done"}, cur : Nat, todo : SUBSET Int, given : SUBSET Int,
         early : BOOLEAN]

\* Bars lie on the grid of the cache they are in, and what an environment was given is ordered.
BarsInv ==
  /\ now \in Nat /\ expect \in Int
  /\ saving \in Seq(Messages) /\ wire \in Seq(Messages)
  /\ job \in [tf : Nat \ {0}, next : Int, wait : Bar]
  /\ \A h \in tasks : TaskFits(h)
  /\ FramesAgree(states, told, stop)
  /\ RefreshFits(refresh)

LEMMA StateKeeps ==
  ASSUME FramesAgree(states, told, stop),
         NEW tf \in Nat \ {0}, NEW sub \in Int, NEW wait \in Bar, WaitsOn(wait, tf),
         NEW bars, BarsGiven(bars), AllOnGrid(bars, tf), NEW lastOk \in BOOLEAN,
         StateOhlcvs(tf, sub, wait, bars, lastOk)
  PROVE  FramesAgree(states', told', stop')
<1> DEFINE all == IF wait # NoBar /\ wait.t < Head(bars).t THEN <<wait>> \o bars ELSE bars
           done == IF lastOk THEN all ELSE Front(all)
           picks == {i \in DOMAIN done : done[i].t >= states[tf].next}
           due == Picked(done, picks)
           st == [sub |-> sub,
                  next |-> IF due = <<>> THEN states[tf].next ELSE Last(due).t + tf,
                  wait |-> IF lastOk THEN NoBar ELSE Last(bars)]
           env == OnEnvJobs(tf, due)
<1>1. /\ states' = [states EXCEPT ![tf] = st]
      /\ told' = [told EXCEPT ![tf] = env.bars]
      /\ stop' = [stop EXCEPT ![tf] = env.end]
  BY Zenon DEF StateOhlcvs
<1>2. /\ Len(bars) \in Nat \ {0} /\ bars \in Seq(Bar) /\ Last(bars) = bars[Len(bars)] /\ Last(bars) \in Bar
  BY Parts
<1>3. BarsGiven(all) /\ AllOnGrid(all, tf)
  <2>1. CASE all = bars
    BY <2>1
  <2>2. CASE wait # NoBar /\ all = <<wait>> \o bars
    <3>1. OnGrid(wait.t, tf)
      BY <2>2 DEF WaitsOn
    <3>2. all \in Seq(Bar) /\ Len(all) = Len(bars) + 1 /\ all # <<>>
      BY <2>2, <1>2
    <3>3. ASSUME NEW i \in 1 .. Len(all) PROVE all[i] = IF i = 1 THEN wait ELSE bars[i - 1]
      BY <2>2, <1>2
    <3>4. ASSUME NEW i \in 1 .. Len(all) PROVE OnGrid(all[i].t, tf)
      <4>1. CASE i = 1
        BY <4>1, <3>1, <3>3
      <4>2. CASE i # 1
        <5>1. i - 1 \in 1 .. Len(bars) /\ all[i] = bars[i - 1]
          BY <4>2, <3>2, <3>3, <1>2
        <5> QED
          BY <5>1 DEF AllOnGrid
      <4> QED
        BY <4>1, <4>2
    <3> QED
      BY <3>2, <3>4 DEF BarsGiven, AllOnGrid
  <2> QED
    BY <2>1, <2>2
<1> HIDE DEF all
<1>4. done \in Seq(Bar) /\ AllOnGrid(done, tf)
  <2>1. /\ Len(all) \in Nat \ {0} /\ all \in Seq(Bar)
        /\ Front(all) \in Seq(Bar) /\ Len(Front(all)) = Len(all) - 1
        /\ \A i \in 1 .. Len(all) - 1 : Front(all)[i] = all[i]
    BY <1>3, Parts
  <2>2. AllOnGrid(Front(all), tf)
    BY <1>3, <2>1 DEF AllOnGrid
  <2> QED
    BY <1>3, <2>1, <2>2
<1> HIDE DEF done
<1>5. \A i \in picks : i \in 1 .. Len(done)
  BY <1>4
<1> HIDE DEF picks
<1>6. /\ due \in Seq(Bar)
      /\ \A n \in 1 .. Len(due) : Nth(picks, n) \in picks /\ due[n] = done[Nth(picks, n)]
  BY <1>4, <1>5, PickedFrom
<1> HIDE DEF due
<1>7. AllOnGrid(due, tf)
  BY <1>4, <1>5, <1>6 DEF AllOnGrid
<1>8. CASE tf \notin DOMAIN states
  <2>1. states' = states /\ told' = told /\ stop' = stop
    BY <1>1, <1>8 DEF FramesAgree
  <2> QED
    BY <2>1
<1>9. CASE tf \in DOMAIN states
  <2>1. states[tf] \in States /\ told[tf] \in Seq(Bar) /\ stop[tf] \in Int /\ Ordered(told[tf], tf, stop[tf])
    BY <1>9 DEF FramesAgree
  <2>2. env.bars \in Seq(Bar) /\ env.end \in Int /\ Ordered(env.bars, tf, env.end)
    BY <2>1, <1>6, <1>7, EnvTakesNew
  <2> HIDE DEF env
  <2>3. st \in States /\ WaitsOn(st.wait, tf)
    <3>1. (IF due = <<>> THEN states[tf].next ELSE Last(due).t + tf) \in Int
      <4>1. states[tf].next \in Int
        BY <2>1 DEF States
      <4>2. due # <<>> => Last(due).t \in Int
        BY <1>6, Parts DEF BarsGiven
      <4> QED
        BY <4>1, <4>2
    <3>2. (IF lastOk THEN NoBar ELSE Last(bars)) \in Bar
      BY <1>2, NoBarIsBar
    <3>3. OnGrid(bars[Len(bars)].t, tf)
      BY <1>2 DEF AllOnGrid
    <3>4. WaitsOn(IF lastOk THEN NoBar ELSE Last(bars), tf)
      BY <1>2, <3>3 DEF WaitsOn
    <3> QED
      BY <3>1, <3>2, <3>4 DEF States
  <2> HIDE DEF st
  <2>4. /\ DOMAIN states' = DOMAIN states
        /\ states' \in [DOMAIN states -> States]
        /\ told' \in [DOMAIN states -> Seq(Bar)]
        /\ stop' \in [DOMAIN states -> Int]
    BY <1>1, <2>2, <2>3 DEF FramesAgree
  <2>5. ASSUME NEW o \in DOMAIN states
        PROVE  WaitsOn(states'[o].wait, o) /\ Ordered(told'[o], o, stop'[o])
    <3>1. CASE o = tf
      <4>1. states'[o] = st /\ told'[o] = env.bars /\ stop'[o] = env.end
        BY <3>1, <1>1, <1>9 DEF FramesAgree
      <4> QED
        BY <4>1, <3>1, <2>2, <2>3
    <3>2. CASE o # tf
      <4>1. states'[o] = states[o] /\ told'[o] = told[o] /\ stop'[o] = stop[o]
        BY <3>2, <1>1 DEF FramesAgree
      <4> QED
        BY <4>1 DEF FramesAgree
    <3> QED
      BY <3>1, <3>2
  <2> QED
    BY <2>4, <2>5 DEF FramesAgree
<1> QED
  BY <1>8, <1>9

\* The smallest time frame is one of those of the states.
LEMMA MinTfIs ==
  ASSUME NEW sts, DOMAIN sts \in SUBSET (Nat \ {0}), DOMAIN sts # {}
  PROVE  MinTf(sts) \in DOMAIN sts
<1>1. DOMAIN sts \in SUBSET Nat
  OBVIOUS
<1>2. \E tf \in DOMAIN sts : \A o \in DOMAIN sts : tf <= o
  BY <1>1, LeastNat
<1> QED
  BY <1>2, Zenon DEF MinTf

\* There is a time frame that all of tfs can be built of.
LEMMA GcdIs ==
  ASSUME ConstantsFit, NEW tfs \in SUBSET Nat
  PROVE  Gcd(tfs) \in Nat \ {0}
<1> DEFINE Divides(d) == \A s \in tfs : s % d = 0
           T == {n \in Nat : n < Start /\ Divides(Start - n)}
<1>1. Start \in Nat /\ Start >= 1
  BY DEF ConstantsFit
<1>2. Start - 1 \in T
  <2>1. Divides(Start - (Start - 1))
    <3>1. Start - (Start - 1) = 1
      BY <1>1
    <3>2. \A s \in tfs : s % 1 = 0
      OBVIOUS
    <3> QED
      BY <3>1, <3>2
  <2> QED
    BY <2>1, <1>1
<1>3. PICK n \in T : \A m \in T : n <= m
  <2> HIDE DEF T
  <2>1. T \in SUBSET Nat
    BY DEF T
  <2> QED
    BY <1>2, <2>1, LeastNat
<1>4. Start - n \in 1 .. Start /\ Divides(Start - n)
  BY <1>1
<1>5. ASSUME NEW e \in 1 .. Start, Divides(e) PROVE e <= Start - n
  <2>1. Start - e \in Nat /\ Start - e < Start /\ Start - (Start - e) = e
    BY <1>1
  <2>2. Start - e \in T
    BY <2>1, <1>5
  <2>3. n \in Nat
    OBVIOUS
  <2> HIDE DEF T
  <2>4. n <= Start - e
    BY <2>2, <1>3
  <2> QED
    BY <2>3, <2>4, <1>1
<1>6. \E d \in 1 .. Start :
        /\ \A s \in tfs : s % d = 0
        /\ \A e \in 1 .. Start : (\A s \in tfs : s % e = 0) => e <= d
  BY <1>4, <1>5
<1>7. Gcd(tfs) \in 1 .. Start
  BY <1>6, Zenon DEF Gcd
<1> QED
  BY <1>7, <1>1

\* The time the warming ended at is one.
LEMMA SinceIs ==
  ASSUME NEW cur \in Nat, NEW tfs \in SUBSET (Nat \ {0}), tfs # {}
  PROVE  Since(tfs, cur) \in Int
<1> DEFINE A(tf) == Align(cur, tf)
           T == {n \in Nat : \E tf \in tfs : n = cur - A(tf)}
<1>1. ASSUME NEW tf \in tfs PROVE A(tf) \in Int /\ cur - A(tf) \in Nat
  <2>1. A(tf) \in Int /\ A(tf) <= cur
    BY AlignGrid
  <2> HIDE DEF A
  <2> QED
    BY <2>1
<1> HIDE DEF A
<1>2. T # {} /\ T \in SUBSET Nat
  BY <1>1
<1>3. PICK n \in T : \A m \in T : n <= m
  BY <1>2, LeastNat
<1>4. PICK tf \in tfs : n = cur - A(tf)
  OBVIOUS
<1>5. \A o \in tfs : A(o) <= A(tf)
  BY <1>1, <1>3, <1>4
<1>6. \E e \in {Align(cur, o) : o \in tfs} : \A o \in tfs : Align(cur, o) <= e
  BY <1>5, Zenon DEF A
<1>7. Since(tfs, cur) \in {Align(cur, o) : o \in tfs}
  BY <1>6, Zenon DEF Since
<1> QED
  BY <1>7, <1>1, Zenon DEF A

-----------------------------------------------------------------------------
(* The steps *)

\* States of their time frames, and with them some that were warmed.
StatesFit(sts) ==
  /\ DOMAIN sts \in SUBSET (Nat \ {0}) /\ DOMAIN sts # {}
  /\ sts \in [DOMAIN sts -> States]
  /\ \A tf \in DOMAIN sts : WaitsOn(sts[tf].wait, tf)

LEMMA WarmTfsFit ==
  ASSUME NEW sts, StatesFit(sts), NEW tfs, NEW cur \in Nat
  PROVE  DOMAIN WarmTfs(sts, tfs, cur) = DOMAIN sts /\ StatesFit(WarmTfs(sts, tfs, cur))
<1> DEFINE D == DOMAIN sts
           warm == WarmTfs(sts, tfs, cur)
<1>1. warm = [tf \in D |-> IF tf \in tfs THEN [sts[tf] EXCEPT !.sub = Align(cur, tf)] ELSE sts[tf]]
  BY DEF WarmTfs
<1>2. D \in SUBSET (Nat \ {0}) /\ D # {} /\ \A tf \in D : sts[tf] \in States /\ WaitsOn(sts[tf].wait, tf)
  BY DEF StatesFit
<1>3. DOMAIN warm = D
  BY <1>1
<1>4. ASSUME NEW tf \in D PROVE warm[tf] \in States /\ WaitsOn(warm[tf].wait, tf)
  <2>1. CASE tf \in tfs
    <3>1. Align(cur, tf) \in Int
      BY <1>2, AlignGrid
    <3>2. warm[tf] = [sts[tf] EXCEPT !.sub = Align(cur, tf)]
      BY <2>1, <1>1
    <3>3. sts[tf] \in States
      BY <1>2
    <3>4. warm[tf] \in States /\ warm[tf].wait = sts[tf].wait
      BY <3>1, <3>2, <3>3 DEF States
    <3> QED
      BY <3>4, <1>2
  <2>2. CASE tf \notin tfs
    <3>1. warm[tf] = sts[tf]
      BY <2>2, <1>1
    <3> QED
      BY <3>1, <1>2
  <2> QED
    BY <2>1, <2>2
<1>5. warm \in [D -> States]
  BY <1>1, <1>4
<1> HIDE DEF warm
<1>6. StatesFit(warm)
  BY <1>2, <1>3, <1>4, <1>5 DEF StatesFit
<1> QED
  BY <1>3, <1>6 DEF warm

\* Subscribed states are of their time frames, the new ones without bars.
LEMMA SubTfsFit ==
  ASSUME ConstantsFit, NEW old,
         DOMAIN old \in SUBSET (Nat \ {0}),
         \A tf \in DOMAIN old : old[tf] \in States /\ WaitsOn(old[tf].wait, tf),
         NEW tfs \in SUBSET (Nat \ {0})
  PROVE  StatesFit(SubTfs(old, tfs))
<1> DEFINE D == tfs \cup {Gcd(tfs)}
           zero == [sub |-> 0, next |-> 0, wait |-> NoBar]
           sub == SubTfs(old, tfs)
<1>1. D \in SUBSET (Nat \ {0}) /\ D # {}
  <2>1. tfs \in SUBSET Nat
    OBVIOUS
  <2> QED
    BY <2>1, GcdIs
<1>2. sub = [tf \in D |-> IF tf \in DOMAIN old THEN old[tf] ELSE zero]
  BY DEF SubTfs
<1>3. zero \in States /\ \A tf : WaitsOn(zero.wait, tf)
  BY NoBarIsBar DEF States, WaitsOn
<1> HIDE DEF zero
<1>4. ASSUME NEW tf \in D PROVE sub[tf] \in States /\ WaitsOn(sub[tf].wait, tf)
  <2>1. CASE tf \in DOMAIN old
    <3>1. sub[tf] = old[tf]
      BY <2>1, <1>2
    <3> QED
      BY <3>1, <2>1
  <2>2. CASE tf \notin DOMAIN old
    <3>1. sub[tf] = zero
      BY <2>2, <1>2
    <3> QED
      BY <3>1, <1>3
  <2> QED
    BY <2>1, <2>2
<1>5. DOMAIN sub = D
  BY <1>2
<1>6. sub \in [D -> States]
  BY <1>2, <1>4
<1> HIDE DEF sub
<1>7. StatesFit(sub)
  BY <1>1, <1>4, <1>5, <1>6 DEF StatesFit
<1> QED
  BY <1>7 DEF sub

\* An environment that was given nothing since it was warmed.
LEMMA NothingGiven ==
  ASSUME NEW tf, NEW e
  PROVE  <<>> \in Seq(Bar) /\ Ordered(<<>>, tf, e)
BY DEF Ordered

THEOREM BarsInit == ConstantsFit /\ Init => BarsInv
<1> SUFFICES ASSUME ConstantsFit, Init PROVE BarsInv
  OBVIOUS
<1> DEFINE none == [tf \in {} |-> 0]
<1>1. Tfs \in SUBSET (Nat \ {0}) /\ Tfs # {} /\ Start \in Nat
  BY DEF ConstantsFit
<1>2. now \in Nat /\ expect \in Int
  BY <1>1 DEF Init, Unwatched
<1>3. saving \in Seq(Messages) /\ wire \in Seq(Messages) /\ tasks = {}
  BY DEF Init
<1>4. states = WarmTfs(SubTfs(none, Tfs), Tfs, now)
  BY DEF Init
<1>5. /\ DOMAIN states \in SUBSET (Nat \ {0}) /\ DOMAIN states # {}
      /\ states \in [DOMAIN states -> States]
      /\ \A tf \in DOMAIN states : WaitsOn(states[tf].wait, tf)
  <2>1. DOMAIN none = {}
    OBVIOUS
  <2> HIDE DEF none
  <2>2. /\ DOMAIN none \in SUBSET (Nat \ {0})
        /\ \A tf \in DOMAIN none : none[tf] \in States /\ WaitsOn(none[tf].wait, tf)
    BY <2>1
  <2>3. StatesFit(SubTfs(none, Tfs))
    BY <1>1, <2>2, SubTfsFit
  <2>4. StatesFit(states)
    BY <1>2, <1>4, <2>3, WarmTfsFit
  <2> QED
    BY <2>4 DEF StatesFit
<1>6. job \in [tf : Nat \ {0}, next : Int, wait : Bar]
  <2>1. job = [tf |-> MinTf(states), next |-> Since(Tfs, now), wait |-> NoBar]
    BY DEF Init, WatchJobs, NoJob
  <2>2. MinTf(states) \in Nat \ {0}
    BY <1>5, MinTfIs
  <2>3. Since(Tfs, now) \in Int
    BY <1>1, <1>2, SinceIs
  <2> QED
    BY <2>1, <2>2, <2>3, NoBarIsBar
<1>7. FramesAgree(states, told, stop)
  <2>1. told = [tf \in DOMAIN states |-> <<>>]
    BY DEF Init
  <2>2. stop = [tf \in DOMAIN states |-> IF tf \in Tfs THEN Align(now, tf) ELSE 0]
    BY DEF Init
  <2>3. ASSUME NEW tf \in DOMAIN states PROVE (IF tf \in Tfs THEN Align(now, tf) ELSE 0) \in Int
    BY <1>2, <1>5, AlignGrid
  <2>4. stop \in [DOMAIN states -> Int] /\ told \in [DOMAIN states -> Seq(Bar)]
    BY <2>1, <2>2, <2>3, NothingGiven
  <2>5. \A tf \in DOMAIN states : Ordered(told[tf], tf, stop[tf])
    BY <2>1, NothingGiven
  <2> QED
    BY <1>5, <2>4, <2>5 DEF FramesAgree
<1>8. RefreshFits(refresh)
  <2>1. RefreshFits(NoRefresh)
    BY DEF RefreshFits, NoRefresh
  <2>2. RefreshFits([NoRefresh EXCEPT !.at = "due"])
    BY <2>1 DEF RefreshFits
  <2> QED
    BY <2>1, <2>2 DEF Init
<1> QED
  BY <1>2, <1>3, <1>6, <1>7, <1>8 DEF BarsInv

\* The spider's jobs and the messages are bars.
LEMMA SpiderKeeps ==
  ASSUME BarsInv, Spider \/ RefreshFails \/ Minute \/ Watch \/ \E crash \in BOOLEAN : Disconnect(crash)
  PROVE  BarsInv'
<1>0. UNCHANGED <<bot, refresh>>
  BY DEF Spider, RefreshKlines, Broadcast, RefreshFails, Minute, Watch, Disconnect
<1>1. /\ job' \in [tf : Nat \ {0}, next : Int, wait : Bar]
      /\ \A h \in tasks' : TaskFits(h)
      /\ FramesAgree(states', told', stop')
      /\ RefreshFits(refresh')
  BY <1>0 DEF bot, BarsInv
<1>2. now' \in Nat /\ expect' \in Int /\ saving' \in Seq(Messages) /\ wire' \in Seq(Messages)
  <2>0. now \in Nat /\ expect \in Int /\ saving \in Seq(Messages) /\ wire \in Seq(Messages)
    BY DEF BarsInv
  <2>1. CASE RefreshKlines
    <3>1. UNCHANGED <<now, wire>>
      BY <2>1 DEF RefreshKlines
    <3>2. CASE expect < now
      <4>1. saving' = Append(saving, Fetch(expect)) /\ expect' = now
        BY <2>1, <3>2 DEF RefreshKlines
      <4>2. Fetch(expect) \in Seq(Bar) /\ Len(Fetch(expect)) = now - expect
        <5>1. BarsOf(1, expect, now) \in Seq(Bar) /\ Len(BarsOf(1, expect, now)) = now - expect
          <6>1. 1 \in Nat \ {0} /\ expect \in Int /\ now \in Int /\ now > expect
            BY <2>0, <3>2
          <6>2. BarsOf(1, expect, now) \in Seq(Bar)
            BY <6>1, FetchedBars, Zenon
          <6>3. Len(BarsOf(1, expect, now)) = IF now > expect THEN now - expect ELSE 0
            BY <6>1, FetchedBars, Zenon
          <6> QED
            BY <6>1, <6>2, <6>3
        <5> QED
          BY <5>1 DEF Fetch
      <4>3. Fetch(expect) \in Messages
        BY <4>2, <3>2, <2>0 DEF Messages
      <4> QED
        BY <2>0, <3>1, <4>1, <4>3
    <3>3. CASE ~(expect < now)
      BY <2>0, <2>1, <3>1, <3>3 DEF RefreshKlines
    <3> QED
      BY <3>2, <3>3
  <2>2. ASSUME NEW i \in DOMAIN saving, Broadcast(i) PROVE now' \in Nat /\ expect' \in Int /\ saving' \in Seq(Messages) /\ wire' \in Seq(Messages)
    <3>1. i \in 1 .. Len(saving) /\ saving[i] \in Messages
      BY <2>0
    <3>2. SubSeq(saving, 1, i - 1) \in Seq(Messages) /\ SubSeq(saving, i + 1, Len(saving)) \in Seq(Messages)
      BY <2>0, <3>1
    <3>3. RemoveAt(saving, i) \in Seq(Messages)
      BY <3>2 DEF RemoveAt
    <3>4. saving' = RemoveAt(saving, i) /\ wire' = (IF up THEN Append(wire, saving[i]) ELSE wire) /\ UNCHANGED <<now, expect>>
      BY <2>2 DEF Broadcast
    <3> QED
      BY <2>0, <3>1, <3>3, <3>4
  <2>3. CASE RefreshFails
    BY <2>0, <2>3 DEF RefreshFails
  <2>4. CASE Minute
    BY <2>0, <2>4 DEF Minute, spider
  <2>5. CASE Watch
    BY <2>0, <2>5 DEF Watch
  <2>6. ASSUME NEW crash \in BOOLEAN, Disconnect(crash)
        PROVE  now' \in Nat /\ expect' \in Int /\ saving' \in Seq(Messages) /\ wire' \in Seq(Messages)
    <3>1. UNCHANGED now /\ wire' = <<>>
      BY <2>6 DEF Disconnect
    <3>2. (saving' = <<>> /\ expect' = Unwatched) \/ UNCHANGED <<saving, expect>>
      BY <2>6 DEF Disconnect
    <3>3. Unwatched \in Int /\ <<>> \in Seq(Messages)
      BY DEF Unwatched
    <3>4. wire' \in Seq(Messages) /\ now' \in Nat
      BY <2>0, <3>1, <3>3
    <3>5. saving' \in Seq(Messages) /\ expect' \in Int
      BY <2>0, <3>2, <3>3
    <3> QED
      BY <3>4, <3>5
  <2> QED
    BY <2>1, <2>2, <2>3, <2>4, <2>5, <2>6 DEF Spider
<1> QED
  BY <1>1, <1>2 DEF BarsInv

LEMMA ReceiveKeeps ==
  ASSUME BarsInv, Receive
  PROVE  BarsInv'
<1> DEFINE h == [at |-> "watch", tf |-> 1, bars |-> Head(wire), min |-> 0, left |-> 0]
<1>1. wire \in Seq(Messages) /\ wire # <<>>
  BY DEF BarsInv, Receive
<1>2. Head(wire) \in Messages /\ Tail(wire) \in Seq(Messages)
  BY <1>1
<1>3. BarsGiven(Head(wire))
  BY <1>2 DEF Messages, BarsGiven
<1>4. \A i \in 1 .. Len(Head(wire)) : OnGrid(Head(wire)[i].t, 1)
  BY <1>3, Parts, GridOne
<1>5. TaskFits(h)
  BY <1>3, <1>4 DEF TaskFits, AllOnGrid
<1>6. /\ tasks' = tasks \cup {h} /\ wire' = Tail(wire)
      /\ UNCHANGED <<now, spider, job, states, told, stop, refresh>>
  BY DEF Receive
<1> HIDE DEF h
<1>7. \A x \in tasks' : TaskFits(x)
  BY <1>5, <1>6 DEF BarsInv
<1> QED
  BY <1>2, <1>6, <1>7 DEF BarsInv, spider

LEMMA OnSpiderBarKeeps ==
  ASSUME BarsInv, NEW h \in tasks, OnSpiderBar(h)
  PROVE  BarsInv'
<1> DEFINE end == Last(h.bars).t + 1
           filled == FillLacks(job, job.tf, 1, Head(h.bars).t, end)
           fin == Finishes(h, filled)
           passed == [at |-> "feed", tf |-> job.tf, bars |-> fin.done, min |-> 0, left |-> 0]
           olds == filled.olds \o One(filled.wait)
           res == BuildOHLCV(h.bars, job.tf, olds)
<1>1. TaskFits(h) /\ BarsGiven(h.bars)
  BY DEF BarsInv, TaskFits
<1>2. job.tf \in Nat \ {0} /\ Cache(job) /\ job \in [tf : Nat \ {0}, next : Int, wait : Bar]
  BY DEF BarsInv, Cache
<1>3. Last(h.bars).t \in Int /\ Head(h.bars).t \in Int /\ h.bars \in Seq(Bar)
  BY <1>1, Parts
<1>4. filled.olds \in Seq(Bar) /\ filled.next \in Int /\ filled.wait \in Bar
  <2>1. end \in Int
    BY <1>3
  <2>2. 1 \in Nat \ {0} /\ Cache(job) /\ job.tf \in Nat \ {0} /\ Head(h.bars).t \in Int
    BY <1>2, <1>3
  <2> HIDE DEF end
  <2> QED
    BY <2>1, <2>2, Filled, Zenon
<1> HIDE DEF filled
<1>5. fin.wait \in Bar /\ fin.done \in Seq(Bar) /\ AllOnGrid(fin.done, job.tf)
  <2>1. CASE job.tf = 1
    <3>1. fin = [done |-> h.bars, wait |-> filled.wait]
      BY <2>1 DEF Finishes
    <3>2. \A i \in 1 .. Len(h.bars) : OnGrid(h.bars[i].t, 1)
      BY <1>1, Parts, GridOne
    <3> QED
      BY <3>1, <3>2, <2>1, <1>3, <1>4 DEF AllOnGrid
  <2>2. CASE job.tf # 1
    <3>1. olds \in Seq(Bar)
      <4>1. One(filled.wait) \in Seq(Bar)
        BY <1>4, OneBar
      <4> QED
        BY <1>4, <4>1
    <3>2. res \in Seq(Bar) /\ AllOnGrid(res, job.tf) /\ res # <<>>
      <4>1. h.bars # <<>>
        BY <1>1 DEF BarsGiven
      <4> HIDE DEF olds
      <4> QED
        BY <1>2, <1>3, <3>1, <4>1, Built
    <3>3. /\ Front(res) \in Seq(Bar) /\ Len(Front(res)) = Len(res) - 1 /\ Last(res) \in Bar
          /\ \A i \in 1 .. Len(res) - 1 : Front(res)[i] = res[i]
          /\ Len(res) \in Nat
      <4> HIDE DEF res
      <4> QED
        BY <3>2, Parts DEF BarsGiven
    <3>4. \/ fin = [done |-> res, wait |-> NoBar]
          \/ fin = [done |-> Front(res), wait |-> Last(res)]
      BY <2>2, Zenon DEF Finishes
    <3> HIDE DEF res, fin
    <3>5. AllOnGrid(Front(res), job.tf)
      BY <3>2, <3>3 DEF AllOnGrid
    <3> QED
      BY <3>2, <3>3, <3>4, <3>5, NoBarIsBar
  <2> QED
    BY <2>1, <2>2
<1>6. /\ job' = [job EXCEPT !.next = filled.next, !.wait = fin.wait]
      /\ tasks' = (tasks \ {h}) \cup (IF fin.done = <<>> THEN {} ELSE {passed})
      /\ UNCHANGED <<now, spider, wire, states, told, stop, refresh>>
  BY Zenon DEF OnSpiderBar, filled
<1> HIDE DEF fin
<1>7. fin.done # <<>> => TaskFits(passed)
  BY <1>2, <1>5 DEF TaskFits, BarsGiven
<1> HIDE DEF passed
<1>8. \A x \in tasks' : TaskFits(x)
  BY <1>6, <1>7 DEF BarsInv
<1>9. job' \in [tf : Nat \ {0}, next : Int, wait : Bar]
  BY <1>2, <1>4, <1>5, <1>6
<1> QED
  BY <1>6, <1>8, <1>9 DEF BarsInv, spider

\* A task takes its bars for its smallest state, which they are not larger than.
LEMMA MinOfFits ==
  ASSUME BarsInv, NEW h \in tasks, h.at = "feed", ~Refused(h)
  PROVE  MinOf(h) \in Nat \ {0} /\ h.tf <= MinOf(h)
<1>1. TaskFits(h) /\ FramesAgree(states, told, stop)
  BY DEF BarsInv
<1>2. MinTf(states) \in Nat \ {0}
  BY <1>1, MinTfIs DEF FramesAgree
<1>3. CASE h.min = 0
  <2>1. MinOf(h) = MinTf(states) /\ ~(h.tf > MinTf(states))
    BY <1>3 DEF MinOf, Refused
  <2> QED
    BY <2>1, <1>1, <1>2 DEF TaskFits
<1>4. CASE h.min # 0
  BY <1>1, <1>4 DEF MinOf, TaskFits
<1> QED
  BY <1>3, <1>4

\* What a state makes of the bars of a task keeps the agreement.
LEMMA TurnKeeps ==
  ASSUME FramesAgree(states, told, stop), NEW h, TaskFits(h), NEW m \in Nat \ {0}, h.tf <= m,
         \/ m \in DOMAIN states /\ OnMinState(h, m)
         \/ \E tf \in DOMAIN states : OnBigState(h, m, tf)
  PROVE  FramesAgree(states', told', stop')
<1>1. BarsGiven(h.bars) /\ h.bars \in Seq(Bar) /\ h.bars # <<>> /\ h.tf \in Nat \ {0}
  BY DEF TaskFits, BarsGiven
<1>6. ASSUME NEW olds \in Seq(Bar)
      PROVE  BarsGiven(SmallBars(h, m, olds)) /\ AllOnGrid(SmallBars(h, m, olds), m)
  <2>1. CASE h.tf < m
    BY <1>1, <2>1, Built DEF SmallBars, BarsGiven
  <2>2. CASE ~(h.tf < m)
    <3>1. h.tf = m
      BY <2>2, <1>1
    <3> QED
      BY <3>1, <2>2, <1>1 DEF SmallBars, TaskFits
  <2> QED
    BY <2>1, <2>2
<1>7. ASSUME NEW tasf \in Nat \ {0}, NEW src, BarsGiven(src), NEW n \in Nat \ {0}, NEW res, BarsGiven(res)
      PROVE  LastFinished(src, n, tasf, res) \in BOOLEAN
  BY DEF LastFinished
<1>8. CASE m \in DOMAIN states /\ OnMinState(h, m)
  <2> DEFINE res == SmallBars(h, m, One(states[m].wait))
  <2>1. states[m].wait \in Bar /\ states[m].sub \in Int /\ WaitsOn(states[m].wait, m)
    BY <1>8 DEF FramesAgree, States
  <2>2. BarsGiven(res) /\ AllOnGrid(res, m)
    BY <2>1, <1>6, OneBar
  <2>3. SmallDone(h, m, res) \in BOOLEAN
    BY <1>1, <1>7, <2>2 DEF SmallDone
  <2>4. StateOhlcvs(m, states[m].sub, states[m].wait, res, SmallDone(h, m, res))
    BY <1>8, Zenon DEF OnMinState
  <2> HIDE DEF res
  <2> QED
    BY <2>1, <2>2, <2>3, <2>4, StateKeeps
<1>9. ASSUME NEW tf \in DOMAIN states, OnBigState(h, m, tf)
      PROVE  FramesAgree(states', told', stop')
  <2> DEFINE src == SmallBars(h, m, <<>>)
             c == [next |-> states[tf].sub, wait |-> states[tf].wait]
             filled == FillLacks(c, tf, m, Head(src).t, Last(src).t + m)
             olds == filled.olds \o One(filled.wait)
             res == BuildOHLCV(src, tf, olds)
  <2>1. tf \in Nat \ {0} /\ states[tf] \in States
    BY DEF FramesAgree
  <2>2. BarsGiven(src)
    <3>1. <<>> \in Seq(Bar)
      OBVIOUS
    <3> QED
      BY <3>1, <1>6, Zenon
  <2>3. StateOhlcvs(tf, filled.next, NoBar, res, LastFinished(src, m, tf, res))
    BY <1>9, Zenon DEF OnBigState
  <2> HIDE DEF src
  <2>4. Cache(c)
    BY <2>1 DEF Cache, States
  <2>5. Head(src).t \in Int /\ Last(src).t + m \in Int /\ src \in Seq(Bar) /\ src # <<>>
    BY <2>2, Parts DEF BarsGiven
  <2> HIDE DEF c
  <2>6. filled.olds \in Seq(Bar) /\ filled.next \in Int /\ filled.wait \in Bar
    BY <2>1, <2>4, <2>5, Filled
  <2> HIDE DEF filled
  <2>7. olds \in Seq(Bar)
    <3>1. One(filled.wait) \in Seq(Bar)
      BY <2>6, OneBar
    <3> QED
      BY <2>6, <3>1
  <2> HIDE DEF olds
  <2>8. BarsGiven(res) /\ AllOnGrid(res, tf)
    BY <2>1, <2>5, <2>7, Built DEF BarsGiven
  <2> HIDE DEF res
  <2>9. LastFinished(src, m, tf, res) \in BOOLEAN
    BY <1>7, <2>1, <2>2, <2>8
  <2>10. NoBar \in Bar /\ WaitsOn(NoBar, tf)
    BY NoBarIsBar DEF WaitsOn
  <2> QED
    BY <2>1, <2>3, <2>6, <2>8, <2>9, <2>10, StateKeeps
<1> QED
  BY <1>8, <1>9

LEMMA OnNewBarsKeeps ==
  ASSUME BarsInv, NEW h \in tasks, OnNewBars(h)
  PROVE  BarsInv'
<1> DEFINE m == MinOf(h)
           rest == [at |-> "feed", tf |-> h.tf, bars |-> h.bars, min |-> m, left |-> TurnOf(h) - 1]
<1>1. TaskFits(h) /\ FramesAgree(states, told, stop) /\ RefreshFits(refresh)
  BY DEF BarsInv
<1>2. m \in Nat \ {0} /\ h.tf <= m
  BY MinOfFits DEF OnNewBars
<1>3. BigTurn(h) \/ MinTurn(h)
  BY DEF OnNewBars
<1>4. UNCHANGED <<now, spider, wire, job>>
  BY DEF OnNewBars
<1>5. FramesAgree(states', told', stop')
  <2>1. CASE BigTurn(h)
    <3>1. \E tf \in DOMAIN states : OnBigState(h, m, tf)
      BY <2>1 DEF BigTurn
    <3> HIDE DEF m
    <3> QED
      BY <3>1, <1>1, <1>2, TurnKeeps
  <2>2. CASE MinTurn(h)
    <3>1. \/ m \in DOMAIN states /\ OnMinState(h, m)
          \/ UNCHANGED <<states, told, stop>>
      BY <2>2 DEF MinTurn
    <3> HIDE DEF m
    <3> QED
      BY <3>1, <1>1, <1>2, TurnKeeps
  <2> QED
    BY <1>3, <2>1, <2>2
<1>6. RefreshFits(refresh')
  <2>1. PICK tf : MarkEarly(tf)
    BY <1>3 DEF BigTurn, MinTurn
  <2>2. refresh' = [refresh EXCEPT !.early = refresh.early \/ tf \in refresh.todo]
    BY <2>1 DEF MarkEarly
  <2>3. (refresh.early \/ tf \in refresh.todo) \in BOOLEAN
    BY Zenon
  <2> HIDE <2>1
  <2> QED
    BY <2>2, <2>3, <1>1 DEF RefreshFits
<1>7. TaskFits(rest)
  <2> HIDE DEF m
  <2> QED
    BY <1>1, <1>2 DEF TaskFits
<1>8. \A x \in tasks' : TaskFits(x)
  <2>1. \A x \in tasks' : x \in tasks \/ x = rest
    BY <1>3 DEF BigTurn, MinTurn
  <2> HIDE DEF rest
  <2> QED
    BY <2>1, <1>7 DEF BarsInv
<1> QED
  BY <1>4, <1>5, <1>6, <1>8 DEF BarsInv, spider

LEMMA SubPairsKeeps ==
  ASSUME ConstantsFit, BarsInv, SubPairs
  PROVE  BarsInv'
<1> DEFINE sts == SubTfs(states, Later)
<1>1. FramesAgree(states, told, stop) /\ RefreshFits(refresh)
  BY DEF BarsInv
<1>2. Later \in SUBSET (Nat \ {0})
  BY DEF ConstantsFit
<1>3. /\ states' = sts
      /\ told' = [tf \in DOMAIN states' |-> IF tf \in DOMAIN told THEN told[tf] ELSE <<>>]
      /\ stop' = [tf \in DOMAIN states' |-> IF tf \in DOMAIN stop THEN stop[tf] ELSE 0]
      /\ refresh' = [refresh EXCEPT !.at = "subscribed", !.todo = Later \ DOMAIN states]
      /\ UNCHANGED <<now, spider, wire, job, tasks>>
  BY Zenon DEF SubPairs
<1>4. StatesFit(sts)
  <2>1. /\ DOMAIN states \in SUBSET (Nat \ {0})
        /\ \A tf \in DOMAIN states : states[tf] \in States /\ WaitsOn(states[tf].wait, tf)
    BY <1>1 DEF FramesAgree
  <2> QED
    BY <1>2, <2>1, SubTfsFit
<1> HIDE DEF sts
<1>5. DOMAIN told = DOMAIN states /\ DOMAIN stop = DOMAIN states
  BY <1>1 DEF FramesAgree
<1>6. ASSUME NEW tf \in DOMAIN sts
      PROVE  told'[tf] \in Seq(Bar) /\ stop'[tf] \in Int /\ Ordered(told'[tf], tf, stop'[tf])
  <2>1. CASE tf \in DOMAIN states
    <3>1. told'[tf] = told[tf] /\ stop'[tf] = stop[tf]
      BY <2>1, <1>3, <1>5
    <3>2. told[tf] \in Seq(Bar) /\ stop[tf] \in Int /\ Ordered(told[tf], tf, stop[tf])
      BY <2>1, <1>1 DEF FramesAgree
    <3> QED
      BY <3>1, <3>2
  <2>2. CASE tf \notin DOMAIN states
    <3>1. told'[tf] = <<>> /\ stop'[tf] = 0
      BY <2>2, <1>3, <1>5
    <3> QED
      BY <3>1, NothingGiven
  <2> QED
    BY <2>1, <2>2
<1>7. told' \in [DOMAIN sts -> Seq(Bar)] /\ stop' \in [DOMAIN sts -> Int]
  <2>1. /\ told' = [tf \in DOMAIN sts |-> told'[tf]]
        /\ stop' = [tf \in DOMAIN sts |-> stop'[tf]]
    BY <1>3
  <2> QED
    BY <2>1, <1>6
<1>8. FramesAgree(states', told', stop')
  BY <1>3, <1>4, <1>6, <1>7 DEF FramesAgree, StatesFit
<1>9. RefreshFits(refresh')
  <2>1. \A tf \in Later \ DOMAIN states : tf \in Int
    BY <1>2
  <2>2. (Later \ DOMAIN states) \in SUBSET Int
    BY <2>1, Zenon
  <2> QED
    BY <2>2, <1>1, <1>3 DEF RefreshFits
<1> QED
  BY <1>3, <1>8, <1>9 DEF BarsInv, spider

LEMMA WarmEnvKeeps ==
  ASSUME BarsInv, NEW tf \in refresh.todo, WarmEnv(tf)
  PROVE  BarsInv'
<1>1. FramesAgree(states, told, stop) /\ RefreshFits(refresh) /\ refresh.cur \in Nat
  BY DEF BarsInv, RefreshFits
<1>2. /\ told' = [told EXCEPT ![tf] = <<>>]
      /\ stop' = [stop EXCEPT ![tf] = Align(refresh.cur, tf)]
      /\ refresh' = [refresh EXCEPT !.given = {tf}]
      /\ UNCHANGED <<now, spider, wire, job, tasks, states>>
  BY Zenon DEF WarmEnv
<1>3. ASSUME NEW o \in DOMAIN states
      PROVE  told'[o] \in Seq(Bar) /\ stop'[o] \in Int /\ Ordered(told'[o], o, stop'[o])
  <2>1. CASE o = tf
    <3>1. told'[o] = <<>> /\ stop'[o] = Align(refresh.cur, o)
      BY <2>1, <1>1, <1>2 DEF FramesAgree
    <3>2. Align(refresh.cur, o) \in Int
      <4>1. o \in Nat \ {0} /\ refresh.cur \in Int
        BY <1>1 DEF FramesAgree
      <4> QED
        BY <4>1, AlignGrid, Zenon
    <3> QED
      BY <3>1, <3>2, NothingGiven
  <2>2. CASE o # tf
    <3>1. told'[o] = told[o] /\ stop'[o] = stop[o]
      BY <2>2, <1>1, <1>2 DEF FramesAgree
    <3> QED
      BY <3>1, <1>1 DEF FramesAgree
  <2> QED
    BY <2>1, <2>2
<1>4. told' \in [DOMAIN states -> Seq(Bar)] /\ stop' \in [DOMAIN states -> Int]
  <2>1. /\ told' = [o \in DOMAIN states |-> told'[o]]
        /\ stop' = [o \in DOMAIN states |-> stop'[o]]
    BY <1>1, <1>2 DEF FramesAgree
  <2> QED
    BY <2>1, <1>3
<1>5. FramesAgree(states', told', stop')
  BY <1>1, <1>2, <1>3, <1>4 DEF FramesAgree
<1>6. RefreshFits(refresh')
  <2>1. {tf} \in SUBSET Int
    BY <1>1 DEF RefreshFits
  <2> QED
    BY <2>1, <1>1, <1>2 DEF RefreshFits
<1> QED
  BY <1>2, <1>5, <1>6 DEF BarsInv, spider

LEMMA SetSubNextKeeps ==
  ASSUME BarsInv, SetSubNext
  PROVE  BarsInv'
<1>1. FramesAgree(states, told, stop) /\ RefreshFits(refresh) /\ refresh.cur \in Nat
  BY DEF BarsInv, RefreshFits
<1>2. /\ states' = WarmTfs(states, refresh.given, refresh.cur)
      /\ refresh' = [refresh EXCEPT !.todo = @ \ refresh.given, !.given = {}]
      /\ UNCHANGED <<now, spider, wire, job, tasks, told, stop>>
  BY Zenon DEF SetSubNext
<1>3. StatesFit(states)
  BY <1>1 DEF FramesAgree, StatesFit
<1>4. DOMAIN states' = DOMAIN states /\ StatesFit(states')
  BY <1>1, <1>2, <1>3, WarmTfsFit
<1>5. FramesAgree(states', told', stop')
  BY <1>1, <1>2, <1>4 DEF FramesAgree, StatesFit
<1>6. RefreshFits(refresh')
  BY <1>1, <1>2 DEF RefreshFits
<1> QED
  BY <1>2, <1>5, <1>6 DEF BarsInv, spider

\* The other steps of a refresh leave states and environments alone.
LEMMA RefreshKeeps ==
  ASSUME BarsInv, WarmJobs \/ WarmFails \/ WatchPairs
  PROVE  BarsInv'
<1>1. RefreshFits(refresh) /\ now \in Nat /\ job.tf # 0
  BY DEF BarsInv
<1>2. UNCHANGED <<now, spider, wire, tasks, states, told, stop>>
  BY DEF WarmJobs, WarmFails, WatchPairs, bot
<1>3. job' = job
  BY <1>1 DEF WarmJobs, WarmFails, WatchPairs, WatchJobs, bot
<1>4. \/ refresh' = [refresh EXCEPT !.at = "warm", !.cur = now]
      \/ refresh' = [refresh EXCEPT !.at = "done"]
  BY DEF WarmJobs, WarmFails, WatchPairs
<1>5. RefreshFits(refresh')
  BY <1>1, <1>4 DEF RefreshFits
<1> QED
  BY <1>2, <1>3, <1>5 DEF BarsInv, spider

THEOREM BarsStep == ConstantsFit /\ BarsInv /\ [Next]_vars => BarsInv'
<1> SUFFICES ASSUME ConstantsFit, BarsInv, [Next]_vars PROVE BarsInv'
  OBVIOUS
<1>1. ASSUME NEW h \in tasks, Refuse(h) \/ FillFails(h) PROVE BarsInv'
  <2>1. /\ tasks' = tasks \ {h}
        /\ UNCHANGED <<now, spider, wire, job, states, told, stop, refresh>>
    BY <1>1 DEF Refuse, FillFails
  <2> QED
    BY <2>1 DEF BarsInv, spider
<1>2. CASE UNCHANGED vars
  BY <1>2 DEF BarsInv, vars, spider, bot
<1> QED
  BY <1>1, <1>2, SpiderKeeps, ReceiveKeeps, OnSpiderBarKeeps, OnNewBarsKeeps, SubPairsKeeps,
     WarmEnvKeeps, SetSubNextKeeps, RefreshKeeps
  DEF Next, Bot, WarmPairs

-----------------------------------------------------------------------------
(* What holds for every value of the constants. *)

(* The invariant: every cache holds bars of its own grid, and no environment   *)
(* is given a bar it has passed (what onSpiderBar, onStateOhlcvs and OnEnvJobs *)
(* keep between them).                                                         *)
THEOREM BarsInvariant == ConstantsFit => (Spec => []BarsInv)
<1>1. ASSUME ConstantsFit PROVE Spec => []BarsInv
  <2>1. Init => BarsInv
    BY <1>1, BarsInit
  <2>2. BarsInv /\ [Next]_vars => BarsInv'
    BY <1>1, BarsStep
  <2> QED
    BY <2>1, <2>2, PTL DEF Spec
<1> QED
  BY <1>1

(* An environment is given its bars in the order of time, none twice, however  *)
(* messages, goroutines, faults, restarts and refreshes of the pairs fall      *)
(* (NextMS of the state, TimeStop of the environment).                         *)
THEOREM GivenInOrder == ConstantsFit => (Spec => []InOrder)
<1>1. BarsInv => InOrder
  <2> SUFFICES ASSUME BarsInv, NEW tf \in DOMAIN told, NEW i \in 2 .. Len(told[tf])
      PROVE  told[tf][i - 1].t < told[tf][i].t
    BY DEF InOrder
  <2>1. tf \in Nat \ {0} /\ told[tf] \in Seq(Bar) /\ Ordered(told[tf], tf, stop[tf])
    BY DEF BarsInv, FramesAgree
  <2>2. i \in 1 .. Len(told[tf]) /\ i - 1 \in 1 .. Len(told[tf]) /\ i - 1 < i
    BY <2>1
  <2>3. told[tf][i] \in Bar /\ told[tf][i - 1] \in Bar
    BY <2>1, <2>2
  <2>4. told[tf][i - 1].t + tf <= told[tf][i].t
    BY <2>1, <2>2 DEF Ordered
  <2> QED
    BY <2>1, <2>3, <2>4 DEF Bar
<1> QED
  BY <1>1, BarsInvariant, PTL
=============================================================================
