-------------------------- MODULE LocalOrderProofs --------------------------
(* Theorems about LocalOrder: the simulated orders and their wallet, for all   *)
(* prices, costs and fees, any number of orders and bars.                      *)
EXTENDS LocalOrder, WellFoundedInduction, TLAPS

-----------------------------------------------------------------------------
(* Sums.  A set of numbers has a least one, so what holds at 0 and with n at   *)
(* n + 1 holds everywhere: the one fact of induction used here.                *)

LEMMA LeastNat ==
  ASSUME NEW T \in SUBSET Nat, T # {}
  PROVE  \E n \in T : \A m \in T : n <= m
<1> DEFINE R == {ss \in Nat \X Nat : ss[1] < ss[2]}
<1>1. IsWellFoundedOn(R, Nat)
  BY NatLessThanWellFounded DEF OpToRel
<1> HIDE DEF R
<1>2. PICK x \in T : \A y \in T : <<y, x>> \notin R
  BY <1>1, WFMin
<1>3. ASSUME NEW y \in T PROVE x <= y
  <2>1. x \in Nat /\ y \in Nat
    OBVIOUS
  <2>2. y < x => <<y, x>> \in R
    BY <2>1 DEF R
  <2> QED
    BY <1>2, <2>1, <2>2
<1> QED
  BY <1>3

LEMMA Induction ==
  ASSUME NEW S \in SUBSET Nat, 0 \in S, \A n \in S : n + 1 \in S
  PROVE  S = Nat
<1> DEFINE T == Nat \ S
<1>1. SUFFICES ASSUME T # {} PROVE FALSE
  OBVIOUS
<1>2. PICK n \in T : \A m \in T : n <= m
  BY <1>1, LeastNat
<1>3. n \in Nat /\ n # 0 /\ n - 1 \in Nat /\ n - 1 \notin T
  BY <1>2
<1>4. (n - 1) + 1 \in S
  BY <1>3
<1> QED
  BY <1>3, <1>4

\* s holds the sums of the first numbers of f.
Sums(f, n, s) ==
  /\ s \in [0 .. n -> Int] /\ s[0] = 0
  /\ \A i \in 1 .. n : s[i] = s[i - 1] + f[i]

Numbers(f, n) == \A i \in 1 .. n : f[i] \in Int

LEMMA SumsExist ==
  ASSUME NEW n \in Nat, NEW f, Numbers(f, n)
  PROVE  \E s : Sums(f, n, s)
<1> DEFINE S == {m \in Nat : m <= n => \E s : Sums(f, m, s)}
<1>1. 0 \in S
  <2>1. Sums(f, 0, [i \in 0 .. 0 |-> 0])
    BY DEF Sums
  <2> QED
    BY <2>1
<1>2. ASSUME NEW m \in S PROVE m + 1 \in S
  <2>1. SUFFICES ASSUME m + 1 <= n PROVE \E s : Sums(f, m + 1, s)
    OBVIOUS
  <2>2. PICK s : Sums(f, m, s)
    BY <2>1
  <2> DEFINE t == [i \in 0 .. m + 1 |-> IF i = m + 1 THEN s[m] + f[m + 1] ELSE s[i]]
  <2>3. f[m + 1] \in Int /\ s[m] \in Int
    BY <2>1, <2>2 DEF Numbers, Sums
  <2>4. t \in [0 .. m + 1 -> Int] /\ t[0] = 0
    BY <2>2, <2>3 DEF Sums
  <2>5. ASSUME NEW i \in 1 .. m + 1 PROVE t[i] = t[i - 1] + f[i]
    <3>1. CASE i = m + 1
      BY <3>1, <2>3
    <3>2. CASE i # m + 1
      <4>1. i \in 1 .. m /\ i - 1 \in 0 .. m /\ i - 1 # m + 1
        BY <3>2
      <4>2. s[i] = s[i - 1] + f[i]
        BY <4>1, <2>2 DEF Sums
      <4>3. t[i] = s[i] /\ t[i - 1] = s[i - 1]
        BY <4>1, <3>2
      <4> QED
        BY <4>2, <4>3
    <3> QED
      BY <3>1, <3>2
  <2>6. Sums(f, m + 1, t)
    BY <2>4, <2>5 DEF Sums
  <2> QED
    BY <2>6
<1> HIDE DEF S
<1>3. S = Nat
  BY <1>1, <1>2, Induction DEF S
<1> QED
  BY <1>3 DEF S

LEMMA SumsUnique ==
  ASSUME NEW n \in Nat, NEW f, NEW s, NEW t, Sums(f, n, s), Sums(f, n, t)
  PROVE  s = t
<1> DEFINE S == {m \in Nat : m <= n => s[m] = t[m]}
<1>1. 0 \in S
  BY DEF Sums
<1>2. ASSUME NEW m \in S PROVE m + 1 \in S
  <2>1. SUFFICES ASSUME m + 1 <= n PROVE s[m + 1] = t[m + 1]
    OBVIOUS
  <2>2. m + 1 \in 1 .. n /\ (m + 1) - 1 = m /\ s[m] = t[m]
    BY <2>1
  <2> QED
    BY <2>2 DEF Sums
<1> HIDE DEF S
<1>3. S = Nat
  BY <1>1, <1>2, Induction DEF S
<1>4. \A i \in 0 .. n : s[i] = t[i]
  BY <1>3 DEF S
<1> QED
  BY <1>4 DEF Sums

LEMMA SumIs ==
  ASSUME NEW n \in Nat, NEW f, NEW s, Sums(f, n, s)
  PROVE  Sum(f, n) = s[n]
<1> DEFINE Rec(x) == x = [i \in 0 .. n |-> IF i = 0 THEN 0 ELSE x[i - 1] + f[i]]
<1>1. Rec(s)
  <2>1. \A i \in 0 .. n : s[i] = IF i = 0 THEN 0 ELSE s[i - 1] + f[i]
    BY DEF Sums
  <2> QED
    BY <2>1 DEF Sums
<1>2. ASSUME NEW x, Rec(x) PROVE x = s
  <2> DEFINE S == {m \in Nat : m <= n => x[m] = s[m]}
  <2>1. 0 \in S
    BY <1>2 DEF Sums
  <2>2. ASSUME NEW m \in S PROVE m + 1 \in S
    <3>1. SUFFICES ASSUME m + 1 <= n PROVE x[m + 1] = s[m + 1]
      OBVIOUS
    <3>2. m + 1 \in 1 .. n /\ (m + 1) - 1 = m /\ s[m] = x[m]
      BY <3>1
    <3>3. x[m + 1] = x[m] + f[m + 1]
      BY <1>2, <3>2
    <3> QED
      BY <3>2, <3>3 DEF Sums
  <2> HIDE DEF S
  <2>3. S = Nat
    BY <2>1, <2>2, Induction DEF S
  <2>4. \A i \in 0 .. n : x[i] = s[i]
    BY <2>3 DEF S
  <2>5. DOMAIN x = 0 .. n /\ x = [i \in DOMAIN x |-> x[i]]
    BY <1>2
  <2> QED
    BY <2>4, <2>5 DEF Sums
<1>3. (CHOOSE x : Rec(x)) = s
  BY <1>1, <1>2
<1> QED
  BY <1>3 DEF Sum

LEMMA SumInt ==
  ASSUME NEW n \in Nat, NEW f, Numbers(f, n)
  PROVE  Sum(f, n) \in Int
<1>1. PICK s : Sums(f, n, s)
  BY SumsExist
<1>2. s[n] \in Int
  BY <1>1 DEF Sums
<1> QED
  BY <1>1, <1>2, SumIs

LEMMA SumSame ==
  ASSUME NEW n \in Nat, NEW f, NEW g, Numbers(f, n), \A i \in 1 .. n : g[i] = f[i]
  PROVE  Sum(g, n) = Sum(f, n)
<1>1. PICK s : Sums(f, n, s)
  BY SumsExist
<1>2. Sums(g, n, s)
  BY <1>1 DEF Sums
<1> QED
  BY <1>1, <1>2, SumIs

LEMMA SumZero ==
  ASSUME NEW n \in Nat, NEW f, \A i \in 1 .. n : f[i] = 0
  PROVE  Sum(f, n) = 0
<1>1. Sums(f, n, [i \in 0 .. n |-> 0])
  BY DEF Sums
<1> QED
  BY <1>1, SumIs

\* One number is changed.
LEMMA SumChanged ==
  ASSUME NEW n \in Nat, NEW f, NEW g, Numbers(f, n), NEW k \in 1 .. n, g[k] \in Int,
         \A i \in 1 .. n : i # k => g[i] = f[i]
  PROVE  Sum(g, n) = Sum(f, n) + g[k] - f[k]
<1>1. PICK s : Sums(f, n, s)
  BY SumsExist
<1> DEFINE t == [i \in 0 .. n |-> IF i < k THEN s[i] ELSE s[i] + (g[k] - f[k])]
<1>2. g[k] - f[k] \in Int /\ f[k] \in Int
  BY DEF Numbers
<1>3. t \in [0 .. n -> Int] /\ t[0] = 0
  BY <1>1, <1>2 DEF Sums
<1>4. ASSUME NEW i \in 1 .. n PROVE t[i] = t[i - 1] + g[i]
  <2>1. i \in 0 .. n /\ i - 1 \in 0 .. n /\ s[i] = s[i - 1] + f[i] /\ s[i - 1] \in Int /\ f[i] \in Int
    BY <1>1 DEF Sums, Numbers
  <2>2. CASE i < k
    <3>1. i - 1 < k /\ i # k
      BY <2>2
    <3> QED
      BY <3>1, <2>1, <2>2
  <2>3. CASE i = k
    <3>1. t[k] = s[k] + (g[k] - f[k]) /\ t[k - 1] = s[k - 1]
      BY <2>1, <2>3
    <3> QED
      BY <3>1, <2>1, <2>3, <1>2
  <2>4. CASE i > k
    <3>1. ~(i - 1 < k) /\ ~(i < k) /\ i # k
      BY <2>4
    <3>2. t[i] = s[i] + (g[k] - f[k]) /\ t[i - 1] = s[i - 1] + (g[k] - f[k]) /\ g[i] = f[i]
      BY <3>1, <2>1
    <3> QED
      BY <3>2, <2>1, <1>2
  <2> QED
    BY <2>2, <2>3, <2>4
<1>5. Sums(g, n, t)
  BY <1>3, <1>4 DEF Sums
<1>6. t[n] = s[n] + (g[k] - f[k]) /\ s[n] \in Int
  BY <1>1 DEF Sums
<1> HIDE DEF t
<1>7. Sum(g, n) = t[n] /\ Sum(f, n) = s[n]
  BY <1>1, <1>5, SumIs
<1> QED
  BY <1>2, <1>6, <1>7

\* One number more.
LEMMA SumAppended ==
  ASSUME NEW n \in Nat, NEW f, NEW g, Numbers(f, n), g[n + 1] \in Int, \A i \in 1 .. n : g[i] = f[i]
  PROVE  Sum(g, n + 1) = Sum(f, n) + g[n + 1]
<1>1. PICK s : Sums(g, n + 1, s)
  <2>1. Numbers(g, n + 1)
    BY DEF Numbers
  <2> QED
    BY <2>1, SumsExist
<1> DEFINE t == [i \in 0 .. n |-> s[i]]
<1>2. Sums(f, n, t)
  <2>1. t \in [0 .. n -> Int] /\ t[0] = 0
    BY <1>1 DEF Sums
  <2>2. ASSUME NEW i \in 1 .. n PROVE t[i] = t[i - 1] + f[i]
    <3>1. i \in 1 .. n + 1 /\ i \in 0 .. n /\ i - 1 \in 0 .. n
      OBVIOUS
    <3>2. s[i] = s[i - 1] + g[i] /\ g[i] = f[i]
      BY <3>1, <1>1 DEF Sums
    <3> QED
      BY <3>1, <3>2
  <2> QED
    BY <2>1, <2>2 DEF Sums
<1>3. s[n + 1] = s[n] + g[n + 1] /\ t[n] = s[n]
  BY <1>1 DEF Sums
<1> HIDE DEF t
<1>4. Sum(f, n) = t[n]
  BY <1>2, SumIs
<1>5. Sum(g, n + 1) = s[n + 1]
  BY <1>1, SumIs
<1> QED
  BY <1>3, <1>4, <1>5

-----------------------------------------------------------------------------
(* Numbers *)

LEMMA Constants ==
  /\ \A p \in Prices : p \in Nat /\ p # 0
  /\ Deposit \in Nat /\ Fee \in Nat /\ MinOpenPct \in Nat /\ MaxOrders \in Nat /\ MaxBars \in Nat
  /\ Cost \in Nat \ {0} /\ Leverage \in Nat \ {0} /\ Charge \in BOOLEAN /\ Cuts \in BOOLEAN
BY ConstantsAssumption

LEMMA Products == ASSUME NEW a \in Int, NEW b \in Int PROVE a * b \in Int
OBVIOUS

LEMMA NatProducts == ASSUME NEW a \in Nat, NEW b \in Nat PROVE a * b \in Nat
OBVIOUS

LEMMA Quotients == ASSUME NEW a \in Nat, NEW b \in Nat \ {0} PROVE a \div b \in Nat
OBVIOUS

LEMMA NextBar ==
  ASSUME NEW a \in Nat, NEW b \in Nat \ {0}, NEW m \in Nat, a \div b < m
  PROVE  a < b * (a \div b + 1) /\ b * (a \div b + 1) <= b * (m + 1)
<1>1. a \div b \in Nat
  BY Quotients
<1>2. a < b * (a \div b + 1)
  OBVIOUS
<1>3. \A q \in Nat : q < m => b * (q + 1) <= b * (m + 1)
  OBVIOUS
<1> QED
  BY <1>1, <1>2, <1>3

LEMMA Bounds ==
  /\ BarMS \in Nat \ {0} /\ BarMS * (MaxBars + 1) \in Nat /\ LastTime \in Nat
  /\ LastTime = BarMS * (MaxBars + 1) + MaxOrders
  /\ BarMS <= BarMS * (MaxBars + 1)
<1>1. BarMS \in Nat \ {0} /\ MaxBars + 1 \in Nat \ {0} /\ MaxOrders \in Nat
  BY ConstantsAssumption DEF BarMS
<1> HIDE DEF BarMS
<1>2. BarMS * (MaxBars + 1) \in Nat
  BY <1>1, NatProducts
<1>3. \A b \in Nat, m \in Nat \ {0} : b <= b * m
  OBVIOUS
<1>4. BarMS <= BarMS * (MaxBars + 1)
  BY <1>1, <1>3
<1> QED
  BY <1>1, <1>2, <1>4 DEF LastTime

LEMMA TimesAre ==
  /\ \A t \in Times : t \in Nat /\ t # 0 /\ t <= BarMS * (MaxBars + 1) + MaxOrders
  /\ \A t \in Nat : t # 0 /\ t <= BarMS * (MaxBars + 1) + MaxOrders => t \in Times
  /\ Times = 1 .. LastTime
BY Bounds, Constants DEF Times

LEMMA MinOf == ASSUME NEW a \in Int, NEW b \in Int PROVE Min({a, b}) = IF a < b THEN a ELSE b
BY DEF Min

LEMMA MaxOf == ASSUME NEW a \in Int, NEW b \in Int PROVE Max({a, b}) = IF a < b THEN b ELSE a
BY DEF Max

-----------------------------------------------------------------------------
(* One order *)

LEMMA ProfitInt ==
  ASSUME NEW od \in InOutOrder, NEW p \in Prices, NEW x \in Int
  PROVE  Profit(od, p, x) \in Int
<1>1. p \in Int /\ od.avg \in Int /\ od.amt \in Int /\ od.dir \in Int /\ od.fee \in Int /\ od.profit \in Int
  BY Constants DEF InOutOrder
<1>2. (p - od.avg) * od.amt \in Int
  BY <1>1, Products
<1>3. (p - od.avg) * od.amt * od.dir \in Int
  BY <1>1, <1>2, Products
<1> QED
  BY <1>1, <1>3 DEF Profit

LEMMA FeeInt == ASSUME NEW a \in Nat PROVE FeeOf(a) \in Int /\ FeeOf(a) \in {0, Fee} /\ Fee \in Nat
BY ConstantsAssumption DEF FeeOf

LEMMA ClosedFits ==
  ASSUME NEW od \in InOutOrder, Fits(od), NEW p \in Prices
  PROVE  /\ Closed(od, p) \in InOutOrder /\ Fits(Closed(od, p))
         /\ Closed(od, p).status = "FullExit" /\ Closed(od, p).key = od.key
         /\ Closed(od, p).profit = Profit(od, p, FeeOf(od.amt))
         /\ Closed(od, p).amt = od.amt /\ Closed(od, p).fee = od.fee
<1>1. Profit(od, p, FeeOf(od.amt)) \in Int
  BY ProfitInt, FeeInt DEF InOutOrder
<1>2. od.amt = 0 => Profit(od, p, FeeOf(od.amt)) = od.profit
  BY DEF Profit
<1> QED
  BY <1>1, <1>2 DEF Closed, InOutOrder, Fits

\* Closing an order without amount once more changes nothing.
LEMMA ClosedAgain ==
  ASSUME NEW od \in InOutOrder, NEW p \in Prices, Fits(od), od.status = "FullExit", od.amt = 0
  PROVE  Closed(od, p) = od
<1>1. Profit(od, p, FeeOf(od.amt)) = od.profit /\ od.exitTag = TRUE
  BY DEF Profit, Fits, InOutOrder
<1> QED
  BY <1>1 DEF Closed, InOutOrder

LEMMA MarkedFits ==
  ASSUME NEW od \in InOutOrder, Fits(od), price \in Prices
  PROVE  /\ Marked(od) \in InOutOrder /\ Fits(Marked(od))
         /\ Marked(od).status = od.status /\ Marked(od).key = od.key /\ Marked(od).fee = od.fee
         /\ Marked(od).amt = od.amt /\ Marked(od).exitTag = od.exitTag
         /\ od.status # "FullEnter" => Marked(od) = od
<1>1. Profit(od, price, 0) \in Int
  BY ProfitInt
<1> QED
  BY <1>1 DEF Marked, InOutOrder, Fits

LEMMA HalvesFit ==
  ASSUME NEW od \in InOutOrder, Fits(od), od.amt >= 2, od.key + 1 \in Times
  PROVE  /\ Part(od) \in InOutOrder /\ Fits(Part(od)) /\ Part(od).key = od.key
         /\ Part(od).status = od.status /\ Part(od).exitTag = od.exitTag /\ Part(od).amt > 0
         /\ Rest(od) \in InOutOrder /\ Fits(Rest(od)) /\ Rest(od).key = od.key + 1
         /\ Rest(od).status = od.status /\ Rest(od).exitTag = od.exitTag /\ Rest(od).amt > 0
<1>1. PICK h \in Nat \ {0} : h = od.amt \div 2 /\ od.amt - h \in Nat \ {0}
  BY DEF InOutOrder
<1>2. Part(od) = [od EXCEPT !.amt = h] /\ Rest(od) = [od EXCEPT !.amt = od.amt - h, !.key = od.key + 1]
  BY <1>1 DEF Part, Rest, InOutOrder
<1>3. /\ Part(od) \in InOutOrder /\ Part(od).key = od.key /\ Part(od).status = od.status
      /\ Part(od).exitTag = od.exitTag /\ Part(od).amt = h
  BY <1>1, <1>2 DEF InOutOrder
<1>4. /\ Rest(od) \in InOutOrder /\ Rest(od).key = od.key + 1 /\ Rest(od).status = od.status
      /\ Rest(od).exitTag = od.exitTag /\ Rest(od).amt = od.amt - h
  BY <1>1, <1>2 DEF InOutOrder
<1>5. Fits(Part(od)) /\ Fits(Rest(od))
  BY <1>1, <1>3, <1>4 DEF Fits, InOutOrder
<1> QED
  BY <1>1, <1>3, <1>4, <1>5 DEF InOutOrder

\* What an entry may cost, and the amount it buys.
LEMMA EntryAmount ==
  ASSUME ava \in Int, NEW p \in Prices
  PROVE  /\ CostAva(Cost \div Leverage) \in Nat
         /\ (CostAva(Cost \div Leverage) * Leverage) \div p \in Nat
<1>1. Cost \div Leverage \in Nat /\ MinOpenPct \in Nat /\ p \in Nat \ {0} /\ Leverage \in Nat
  BY ConstantsAssumption, Quotients
<1>2. (Cost \div Leverage) * MinOpenPct \in Nat
  BY <1>1, NatProducts
<1>3. CostAva(Cost \div Leverage) \in Nat
  <2> DEFINE need == Cost \div Leverage
  <2>1. need \in Nat /\ need * MinOpenPct \in Nat
    BY <1>1, <1>2
  <2> HIDE DEF need
  <2>2. CostAva(need) \in Nat
    BY <2>1 DEF CostAva
  <2> QED
    BY <2>2 DEF need
<1>4. CostAva(Cost \div Leverage) * Leverage \in Nat
  BY <1>1, <1>3, NatProducts
<1> QED
  BY <1>1, <1>3, <1>4, Quotients

-----------------------------------------------------------------------------
(* The list of orders *)

\* Only order o is changed; one order more; order o is changed and there is one more.
OnlyOne(o) == Len(ods') = Len(ods) /\ Ids' = Ids /\ \A q \in Ids \ {o} : ods'[q] = ods[q]
OneMore(o) ==
  /\ Len(ods') = Len(ods) + 1 /\ Ids' = Ids \cup {Len(ods) + 1} /\ Len(ods) + 1 \notin Ids
  /\ \A q \in Ids \ {o} : ods'[q] = ods[q]

LEMMA IdsAre == 
  ASSUME ods \in Seq(InOutOrder)
  PROVE /\ Ids = 1 .. Len(ods) /\ Len(ods) \in Nat
        /\ \A o \in Ids : ods[o] \in InOutOrder /\ ods[o].key \in Times /\ ods[o].key \in Nat
<1>1. Ids = 1 .. Len(ods) /\ Len(ods) \in Nat /\ \A o \in Ids : ods[o] \in InOutOrder
  BY DEF Ids
<1>2. \A o \in Ids : ods[o].key \in Times
  BY <1>1 DEF InOutOrder
<1> QED
  BY <1>1, <1>2, TimesAre

LEMMA SetOne ==
  ASSUME TypeOK, KeysBounded, OrdersFit, NEW o \in Ids, NEW new \in InOutOrder, Fits(new),
         new.key = ods[o].key, ods' = [ods EXCEPT ![o] = new], now' = now
  PROVE  ods' \in Seq(InOutOrder) /\ KeysBounded' /\ OrdersFit' /\ OnlyOne(o) /\ ods'[o] = new
<1>1. ods \in Seq(InOutOrder) /\ Ids = 1 .. Len(ods)
  BY IdsAre DEF TypeOK
<1>2. ods' \in Seq(InOutOrder) /\ Len(ods') = Len(ods) /\ ods'[o] = new /\ \A q \in Ids \ {o} : ods'[q] = ods[q]
  BY <1>1
<1>3. Ids' = Ids
  BY <1>1, <1>2 DEF Ids
<1>4. KeysBounded'
  BY <1>2, <1>3 DEF KeysBounded
<1>5. OrdersFit'
  BY <1>2, <1>3 DEF OrdersFit
<1> QED
  BY <1>2, <1>3, <1>4, <1>5 DEF OnlyOne

LEMMA AddOne ==
  ASSUME TypeOK, KeysBounded, OrdersFit, NEW new \in InOutOrder, Fits(new), Len(ods) < MaxOrders,
         new.key < BarMS * (MaxBars + 1) + Len(ods) + 1, ods' = Append(ods, new),
         now' = now \/ now' = now + 1
  PROVE  ods' \in Seq(InOutOrder) /\ KeysBounded' /\ OrdersFit' /\ OneMore(0) /\ ods'[Len(ods) + 1] = new
<1>1. ods \in Seq(InOutOrder) /\ Ids = 1 .. Len(ods) /\ Len(ods) \in Nat
  BY IdsAre DEF TypeOK
<1>2. ods' \in Seq(InOutOrder) /\ Len(ods') = Len(ods) + 1 /\ ods'[Len(ods) + 1] = new /\ \A q \in Ids : ods'[q] = ods[q]
  BY <1>1
<1>3. Ids' = Ids \cup {Len(ods) + 1} /\ Len(ods) + 1 \notin Ids
  BY <1>1, <1>2 DEF Ids
<1>4. KeysBounded'
  <2>1. BarMS * (MaxBars + 1) \in Nat /\ MaxOrders \in Nat /\ now \in Nat
    BY Bounds, Constants, TimesAre DEF TypeOK
  <2>2. \A q \in Ids : ods[q].key \in Nat
    BY IdsAre DEF TypeOK
  <2> QED
    BY <1>1, <1>2, <1>3, <2>1, <2>2 DEF KeysBounded
<1>5. OrdersFit'
  BY <1>2, <1>3 DEF OrdersFit
<1> QED
  BY <1>2, <1>3, <1>4, <1>5 DEF OneMore

LEMMA SplitOne ==
  ASSUME TypeOK, KeysBounded, OrdersFit, NEW o \in Ids, Len(ods) < MaxOrders, now' = now,
         NEW rest \in InOutOrder, Fits(rest), rest.key = ods[o].key + 1,
         NEW part \in InOutOrder, Fits(part), part.key = ods[o].key,
         ods' = Append([ods EXCEPT ![o] = rest], part)
  PROVE  /\ ods' \in Seq(InOutOrder) /\ KeysBounded' /\ OrdersFit' /\ OneMore(o)
         /\ ods'[o] = rest /\ ods'[Len(ods) + 1] = part
<1>1. ods \in Seq(InOutOrder) /\ Ids = 1 .. Len(ods) /\ Len(ods) \in Nat
  BY IdsAre DEF TypeOK
<1> DEFINE cut == [ods EXCEPT ![o] = rest]
<1>2. cut \in Seq(InOutOrder) /\ Len(cut) = Len(ods) /\ cut[o] = rest /\ \A q \in Ids \ {o} : cut[q] = ods[q]
  BY <1>1
<1> HIDE DEF cut
<1>3. ods' = Append(cut, part)
  BY DEF cut
<1>4. ods' \in Seq(InOutOrder) /\ Len(ods') = Len(ods) + 1 /\ ods'[Len(ods) + 1] = part /\ \A q \in Ids : ods'[q] = cut[q]
  BY <1>1, <1>2, <1>3
<1>5. Ids' = Ids \cup {Len(ods) + 1} /\ Len(ods) + 1 \notin Ids
  BY <1>1, <1>4 DEF Ids
<1>6. KeysBounded'
  <2>1. BarMS * (MaxBars + 1) \in Nat /\ MaxOrders \in Nat /\ now \in Nat
    BY Bounds, Constants, TimesAre DEF TypeOK
  <2>2. \A q \in Ids : ods[q].key \in Nat
    BY IdsAre DEF TypeOK
  <2> QED
    BY <1>1, <1>2, <1>4, <1>5, <2>1, <2>2 DEF KeysBounded
<1>7. OrdersFit'
  BY <1>2, <1>4, <1>5 DEF OrdersFit
<1> QED
  BY <1>2, <1>4, <1>5, <1>6, <1>7 DEF OneMore

\* Every order is replaced by one with its key.
LEMMA SetAll ==
  ASSUME TypeOK, KeysBounded, NEW new \in [Ids -> InOutOrder], now' = now, ods' = new,
         \A o \in Ids : Fits(new[o]) /\ new[o].key = ods[o].key
  PROVE  ods' \in Seq(InOutOrder) /\ KeysBounded' /\ OrdersFit' /\ Ids' = Ids /\ Len(ods') = Len(ods)
<1>1. ods \in Seq(InOutOrder) /\ Ids = 1 .. Len(ods) /\ Len(ods) \in Nat
  BY IdsAre DEF TypeOK
<1>2. ods' \in Seq(InOutOrder) /\ Len(ods') = Len(ods)
  BY <1>1
<1>3. Ids' = Ids
  BY DEF Ids
<1>4. KeysBounded'
  BY <1>2, <1>3 DEF KeysBounded
<1>5. OrdersFit'
  BY <1>2, <1>3 DEF OrdersFit
<1> QED
  BY <1>2, <1>3, <1>4, <1>5

\* What can be split has a key whose successor is a time.
LEMMA NextKey ==
  ASSUME TypeOK, KeysBounded, NEW o \in Ids, Len(ods) < MaxOrders
  PROVE  ods[o].key + 1 \in Times /\ ods[o].key \in Times
<1>1. ods[o].key \in Times /\ ods[o].key \in Nat /\ Len(ods) \in Nat
  BY IdsAre DEF TypeOK
<1> QED
  BY <1>1, Bounds, Constants, TimesAre DEF KeysBounded

-----------------------------------------------------------------------------
(* The wallet *)

\* What an exit at price p earns before fees.
Gain(od, p) == (p - od.avg) * od.amt * od.dir

LEMMA GainInt ==
  ASSUME NEW od \in InOutOrder, NEW p \in Prices
  PROVE  Gain(od, p) \in Int
<1>1. p \in Int /\ od.avg \in Int /\ od.amt \in Int /\ od.dir \in Int
  BY Constants DEF InOutOrder
<1>2. (p - od.avg) * od.amt \in Int
  BY <1>1, Products
<1> QED
  BY <1>1, <1>2, Products DEF Gain

\* An exit moves what is frozen, and what the exchange pays, to what is available.
Released(od, p, froz, g) ==
  /\ frozens' = [froz EXCEPT ![od.key] = 0]
  /\ ava' = ava + froz[od.key] + g /\ paid' = paid + g
  /\ Profit(od, p, FeeOf(od.amt)) = g - od.fee

LEMMA ExitReleases ==
  ASSUME TypeOK, NEW od \in InOutOrder, Fits(od), NEW p \in Prices, NEW froz \in [Times -> Int],
         ConfirmOdExit(od, p, froz)
  PROVE  \E g \in Int : Released(od, p, froz, g)
<1>1. od.fee \in Int /\ od.profit \in Int /\ Fee \in Int /\ ava \in Int /\ paid \in Int /\ froz[od.key] \in Int
  BY Constants DEF InOutOrder, TypeOK
<1>2. Profit(od, p, FeeOf(od.amt)) = IF od.amt = 0 THEN od.profit ELSE Gain(od, p) - od.fee - Fee
  BY DEF Profit, Gain, FeeOf
<1>3. paid' = IF od.amt = 0 THEN paid ELSE paid + Gain(od, p) - Fee
  BY DEF ConfirmOdExit, Gain
<1>4. Gain(od, p) \in Int
  BY GainInt
<1>5. CASE od.amt = 0
  <2>1. od.profit = 0 /\ od.fee = 0
    BY <1>5 DEF Fits
  <2>2. Released(od, p, froz, 0)
    BY <1>1, <1>2, <1>3, <1>5, <2>1 DEF ConfirmOdExit, Released
  <2> QED
    BY <2>2
<1>6. CASE od.amt # 0
  <2>1. PICK g \in Int : g = Gain(od, p) - Fee
    BY <1>1, <1>4
  <2>2. Profit(od, p, FeeOf(od.amt)) = g - od.fee /\ paid' = paid + g
    BY <1>1, <1>2, <1>3, <1>4, <1>6, <2>1
  <2>3. ava' = ava + froz[od.key] + g
    BY <1>1, <2>1, <2>2 DEF ConfirmOdExit
  <2>4. Released(od, p, froz, g)
    BY <2>2, <2>3 DEF ConfirmOdExit, Released
  <2> QED
    BY <2>4
<1> QED
  BY <1>5, <1>6

LEMMA ReleaseTypes ==
  ASSUME TypeOK, NEW od \in InOutOrder, NEW p \in Prices, NEW froz \in [Times -> Int], NEW g \in Int,
         Released(od, p, froz, g)
  PROVE  ava' \in Int /\ paid' \in Int /\ frozens' \in [Times -> Int]
<1>1. ava \in Int /\ paid \in Int /\ od.key \in Times /\ froz[od.key] \in Int
  BY DEF InOutOrder, TypeOK
<1>2. ava' \in Int /\ paid' \in Int
  BY <1>1 DEF Released
<1>3. frozens' \in [Times -> Int]
  BY <1>1 DEF Released
<1> QED
  BY <1>2, <1>3

LEMMA CutTypes ==
  ASSUME TypeOK, NEW od \in InOutOrder, od.key + 1 \in Times
  PROVE  WalletCut(od) \in [Times -> Int]
<1>1. Rest(od).key = od.key + 1 /\ od.key \in Times
  BY DEF Rest, InOutOrder
<1>2. frozens \in [Times -> Int] /\ frozens[od.key] - frozens[od.key] \div 2 \in Int
  BY <1>1 DEF TypeOK
<1> QED
  BY <1>1, <1>2 DEF WalletCut

\* Margin takes from what is available what it adds to what is frozen, or nothing.
LEMMA MarginMoves ==
  ASSUME TypeOK, ProfitUsedOnce, NEW k \in Times, NEW m \in Int, SetMargin(k, m)
  PROVE  \E x \in Int :
           /\ ava' = ava - (x - frozens[k]) /\ frozens' = [frozens EXCEPT ![k] = x]
           /\ used' \in Int /\ used' <= Max({0, upol})
<1>1. ava \in Int /\ used \in Int /\ upol \in Int /\ frozens \in [Times -> Int] /\ frozens[k] \in Int
  BY DEF TypeOK
<1>2. used <= (IF 0 < upol THEN upol ELSE 0)
  BY <1>1, MaxOf DEF ProfitUsedOnce
<1>3. PICK c \in Int : c = Covered(m) /\ (upol <= used => c = 0) /\ (upol > used => c <= upol - used)
  <2>1. CASE upol > used
    <3>1. Min({m, upol - used}) = IF m < upol - used THEN m ELSE upol - used
      BY <1>1, MinOf
    <3> QED
      BY <1>1, <2>1, <3>1 DEF Covered
  <2>2. CASE ~(upol > used)
    BY <1>1, <2>2 DEF Covered
  <2> QED
    BY <2>1, <2>2
<1>4. CASE UNCHANGED <<ava, frozens, used>>
  <2>1. ava' = ava - (frozens[k] - frozens[k]) /\ frozens' = [frozens EXCEPT ![k] = frozens[k]]
    BY <1>1, <1>4
  <2> QED
    BY <1>1, <1>4, <2>1 DEF ProfitUsedOnce
<1>5. CASE ava' = ava - ((m - c) - frozens[k]) /\ used' = used + c /\ frozens' = [frozens EXCEPT ![k] = m - c]
  <2>1. used' \in Int /\ used' <= (IF 0 < upol THEN upol ELSE 0)
    BY <1>1, <1>2, <1>3, <1>5
  <2>2. used' <= Max({0, upol})
    BY <1>1, <2>1, MaxOf
  <2>3. PICK x \in Int : x = m - c
    OBVIOUS
  <2>4. ava' = ava - (x - frozens[k]) /\ frozens' = [frozens EXCEPT ![k] = x]
    BY <1>5, <2>3
  <2> QED
    BY <2>1, <2>2, <2>4
<1>6. \/ UNCHANGED <<ava, frozens, used>>
      \/ ava' = ava - ((m - c) - frozens[k]) /\ used' = used + c /\ frozens' = [frozens EXCEPT ![k] = m - c]
  BY <1>3 DEF SetMargin
<1> QED
  BY <1>4, <1>5, <1>6

LEMMA NowIs ==
  ASSUME ods' \in Seq(InOutOrder), KeysBounded', now' \in Nat, now' # 0
  PROVE  now' \in Times
<1>1. Len(ods') \in Nat
  OBVIOUS
<1> QED
  BY <1>1, Bounds, Constants, TimesAre DEF KeysBounded

-----------------------------------------------------------------------------
(* Every step keeps OrdersInv. *)

LEMMA SameList ==
  ASSUME TypeOK, KeysBounded, OrdersFit, ods' = ods, now' = now
  PROVE  ods' \in Seq(InOutOrder) /\ KeysBounded' /\ OrdersFit' /\ now' \in Times /\ Ids' = Ids /\ openOds' = openOds
BY DEF TypeOK, KeysBounded, OrdersFit, Ids, openOds, Open

LEMMA OrderIs ==
  ASSUME OrdersInv, NEW o \in Ids
  PROVE  ods[o] \in InOutOrder /\ Fits(ods[o]) /\ ods[o].key \in Times
<1>1. ods \in Seq(InOutOrder) /\ OrdersFit
  BY DEF OrdersInv, TypeOK
<1> QED
  BY <1>1, IdsAre DEF OrdersFit

LEMMA InitHolds == Init => OrdersInv
<1> SUFFICES ASSUME Init PROVE OrdersInv
  OBVIOUS
<1>1. ods = <<>> /\ Ids = {} /\ Len(ods) = 0
  BY DEF Init, Ids
<1>2. now \in Nat /\ now # 0 /\ now <= BarMS * (MaxBars + 1) /\ now \in Times
  BY Bounds, Constants, TimesAre DEF Init
<1>3. TypeOK
  <2>1. ava \in Int /\ upol \in Int /\ used \in Int /\ paid \in Int
    BY Constants DEF Init
  <2>2. frozens \in [Times -> Int]
    BY DEF Init
  <2> QED
    BY <1>1, <1>2, <2>1, <2>2 DEF Init, TypeOK
<1>4. KeysBounded
  BY <1>1, <1>2, Bounds, Constants DEF KeysBounded
<1>5. OrdersFit
  BY <1>1 DEF OrdersFit
<1>6. TriggerFits /\ LastPass
  BY DEF Init, TriggerFits, LastPass
<1>7. ProfitUsedOnce
  BY MaxOf DEF Init, ProfitUsedOnce
<1> QED
  BY <1>3, <1>4, <1>5, <1>6, <1>7 DEF OrdersInv

LEMMA EnterOrderInv ==
  ASSUME OrdersInv, NEW dir \in {1, -1}, NEW stop \in BOOLEAN, EnterOrder(dir, stop)
  PROVE  OrdersInv' /\ OneMore(0) /\ ods'[Len(ods) + 1].status = "Init" /\ ods'[Len(ods) + 1].key = now
                    /\ ods'[Len(ods) + 1].fee = 0
<1> DEFINE new == [status |-> "Init", key |-> now, dir |-> dir, amt |-> 0, avg |-> 0, fee |-> 0,
                   stop |-> stop, exitTag |-> FALSE, profit |-> 0]
<1>1. TypeOK /\ KeysBounded /\ OrdersFit /\ TriggerFits /\ LastPass /\ ProfitUsedOnce
  BY DEF OrdersInv
<1>2. new \in InOutOrder /\ Fits(new)
  BY <1>1 DEF InOutOrder, Fits, TypeOK
<1>3. now \in Nat /\ now # 0 /\ Len(ods) \in Nat /\ Len(ods) < MaxOrders /\ ods' = Append(ods, new) /\ now' = now + 1
  BY <1>1, TimesAre, IdsAre DEF EnterOrder, AfterEnter, TypeOK
<1>4. new.key < BarMS * (MaxBars + 1) + Len(ods) + 1
  BY <1>1, <1>3, Bounds DEF KeysBounded
<1> HIDE DEF new
<1>5. ods' \in Seq(InOutOrder) /\ KeysBounded' /\ OrdersFit' /\ OneMore(0) /\ ods'[Len(ods) + 1] = new
  BY <1>1, <1>2, <1>3, <1>4, AddOne
<1>6. now' \in Times
  BY <1>3, <1>5, NowIs
<1>7. trig = 0 /\ trig' = 0 /\ phase \notin {"close2", "clean"} /\ phase' = phase /\ UNCHANGED wallet /\ price' = price
  BY DEF EnterOrder, Called, Filling
<1>8. todo' \subseteq Ids'
  <2>1. Len(ods') \in Ids' /\ Ids \subseteq Ids'
    BY <1>5 DEF OneMore
  <2> QED
    BY <1>1, <2>1 DEF EnterOrder, Again, TypeOK
<1>9. TypeOK'
  BY <1>1, <1>5, <1>6, <1>7, <1>8 DEF TypeOK, wallet
<1>10. TriggerFits' /\ LastPass'
  BY <1>7 DEF TriggerFits, LastPass
<1>11. ProfitUsedOnce'
  BY <1>1, <1>7 DEF ProfitUsedOnce, wallet
<1> QED
  BY <1>5, <1>9, <1>10, <1>11 DEF OrdersInv, new

LEMMA ExitOrderInv ==
  ASSUME OrdersInv, NEW o \in Ids, ExitOrder(o)
  PROVE  OrdersInv' /\ OnlyOne(o) /\ ods'[o] = [ods[o] EXCEPT !.exitTag = TRUE]
<1> DEFINE new == [ods[o] EXCEPT !.exitTag = TRUE]
<1>1. TypeOK /\ KeysBounded /\ OrdersFit /\ TriggerFits /\ LastPass /\ ProfitUsedOnce
  BY DEF OrdersInv
<1>2. new \in InOutOrder /\ Fits(new) /\ new.key = ods[o].key
  <2>1. ods[o] \in InOutOrder /\ Fits(ods[o])
    BY OrderIs
  <2> QED
    BY <2>1 DEF InOutOrder, Fits
<1>3. ods' = [ods EXCEPT ![o] = new] /\ now' = now
  BY DEF ExitOrder
<1>4. new.status = ods[o].status /\ new.exitTag = TRUE
  BY <1>1, IdsAre DEF TypeOK, InOutOrder
<1> HIDE DEF new
<1>5. ods' \in Seq(InOutOrder) /\ KeysBounded' /\ OrdersFit' /\ OnlyOne(o) /\ ods'[o] = new
  BY <1>1, <1>2, <1>3, SetOne
<1>6. trig = 0 /\ trig' = 0 /\ phase # "clean" /\ phase' = phase /\ UNCHANGED wallet /\ price' = price
  BY DEF ExitOrder, Called, Filling
<1>7. todo' \subseteq Ids' /\ todo \subseteq todo'
  BY <1>1, <1>5 DEF ExitOrder, Again, TypeOK, OnlyOne
<1>8. TypeOK'
  BY <1>1, <1>3, <1>5, <1>6, <1>7 DEF TypeOK, wallet
<1>9. TriggerFits'
  BY <1>6 DEF TriggerFits
<1>10. LastPass'
  <2>1. openOds' = openOds
    BY <1>4, <1>5 DEF openOds, Open, OnlyOne
  <2> QED
    BY <1>1, <1>4, <1>5, <1>6, <1>7, <2>1 DEF LastPass, OnlyOne, openOds
<1>11. ProfitUsedOnce'
  BY <1>1, <1>6 DEF ProfitUsedOnce, wallet
<1> QED
  BY <1>5, <1>8, <1>9, <1>10, <1>11 DEF OrdersInv, new

LEMMA ExitPartInv ==
  ASSUME OrdersInv, NEW o \in Ids, ExitPart(o)
  PROVE  OrdersInv' /\ OneMore(o) /\ Open(o)
<1> DEFINE part == [Part(ods[o]) EXCEPT !.exitTag = TRUE]
<1>1. TypeOK /\ KeysBounded /\ OrdersFit /\ TriggerFits /\ LastPass /\ ProfitUsedOnce
  BY DEF OrdersInv
<1>2. /\ Len(ods) < MaxOrders /\ ods[o].amt >= 2 /\ ods[o].status = "FullEnter" /\ ~ods[o].exitTag
      /\ ods' = Append([ods EXCEPT ![o] = Rest(ods[o])], part) /\ now' = now
  BY DEF ExitPart, Cuttable
<1>3. ods[o] \in InOutOrder /\ Fits(ods[o]) /\ ods[o].key + 1 \in Times
  BY <1>1, <1>2, IdsAre, NextKey DEF TypeOK, OrdersFit
<1>4. Rest(ods[o]) \in InOutOrder /\ Fits(Rest(ods[o])) /\ Rest(ods[o]).key = ods[o].key + 1
  BY <1>2, <1>3, HalvesFit
<1>5. Part(ods[o]) \in InOutOrder /\ Fits(Part(ods[o])) /\ Part(ods[o]).key = ods[o].key
  BY <1>2, <1>3, HalvesFit
<1>6. part \in InOutOrder /\ Fits(part) /\ part.key = ods[o].key
  BY <1>5 DEF InOutOrder, Fits
<1> HIDE DEF part
<1>7. ods' \in Seq(InOutOrder) /\ KeysBounded' /\ OrdersFit' /\ OneMore(o)
  BY <1>1, <1>2, <1>4, <1>6, SplitOne
<1>8. trig = 0 /\ trig' = 0 /\ phase # "clean" /\ phase' = phase /\ price' = price /\ UNCHANGED <<ava, upol, used, paid>>
  BY DEF ExitPart, Called, Filling
<1>9. todo' \subseteq Ids'
  <2>1. Len(ods') \in Ids' /\ Ids \subseteq Ids'
    BY <1>7 DEF OneMore
  <2> QED
    BY <1>1, <2>1 DEF ExitPart, Again, TypeOK
<1>10. frozens' \in [Times -> Int]
  BY <1>1, <1>3, CutTypes DEF ExitPart
<1>11. TypeOK'
  BY <1>1, <1>2, <1>7, <1>8, <1>9, <1>10 DEF TypeOK
<1>12. Open(o)
  BY <1>2 DEF Open
<1>13. TriggerFits' /\ LastPass'
  BY <1>1, <1>2, <1>8, <1>12 DEF TriggerFits, LastPass, openOds
<1>14. ProfitUsedOnce'
  BY <1>1, <1>8 DEF ProfitUsedOnce
<1> QED
  BY <1>7, <1>11, <1>12, <1>13, <1>14 DEF OrdersInv

LEMMA StartBarInv ==
  ASSUME OrdersInv, NEW close \in Prices, StartBar(close)
  PROVE  OrdersInv' /\ now < now'
<1>1. TypeOK /\ KeysBounded /\ OrdersFit /\ TriggerFits /\ LastPass /\ ProfitUsedOnce
  BY DEF OrdersInv
<1>2. now \in Nat /\ BarMS \in Nat \ {0} /\ MaxBars \in Nat /\ Len(ods) \in Nat /\ BarMS * (MaxBars + 1) \in Nat
  BY <1>1, TimesAre, Bounds, Constants, IdsAre DEF TypeOK
<1>3. now' = BarMS * (now \div BarMS + 1) /\ now < now' /\ now' <= BarMS * (MaxBars + 1)
  BY <1>2, NextBar DEF StartBar
<1>4. now' \in Nat
  BY <1>2, <1>3, Quotients, NatProducts
<1>5. ods' = ods /\ Ids' = Ids /\ UNCHANGED wallet /\ trig' = trig /\ phase = "idle" /\ phase' = "fill" /\ todo' = openOds
  BY DEF StartBar, Ids
<1>6. \A o \in Ids : ods[o].key \in Nat /\ ods[o].key < BarMS * (MaxBars + 1) + Len(ods)
  BY <1>1, IdsAre DEF KeysBounded, TypeOK
<1>7. KeysBounded' /\ OrdersFit'
  BY <1>1, <1>2, <1>3, <1>4, <1>5, <1>6 DEF KeysBounded, OrdersFit
<1>8. now' \in Times
  BY <1>1, <1>2, <1>3, <1>4, <1>5, <1>7, NowIs DEF TypeOK
<1>9. TypeOK'
  BY <1>1, <1>5, <1>8 DEF TypeOK, wallet, StartBar, openOds
<1>10. TriggerFits' /\ LastPass' /\ ProfitUsedOnce'
  BY <1>1, <1>5 DEF TriggerFits, LastPass, ProfitUsedOnce, wallet
<1> QED
  BY <1>3, <1>7, <1>9, <1>10 DEF OrdersInv

\* Order o is closed at price p.
Closes(o, p) ==
  /\ ods' \in Seq(InOutOrder) /\ KeysBounded' /\ OrdersFit' /\ OnlyOne(o) /\ ods'[o] = Closed(ods[o], p)
  /\ ~Open(o)' /\ openOds' = openOds \ {o}

LEMMA CloseOne ==
  ASSUME TypeOK, KeysBounded, OrdersFit, NEW o \in Ids, NEW p \in Prices,
         ods' = [ods EXCEPT ![o] = Closed(ods[o], p)], now' = now
  PROVE  Closes(o, p)
<1>1. ods[o] \in InOutOrder /\ Fits(ods[o])
  BY IdsAre DEF TypeOK, OrdersFit
<1>2. /\ Closed(ods[o], p) \in InOutOrder /\ Fits(Closed(ods[o], p)) /\ Closed(ods[o], p).key = ods[o].key
      /\ Closed(ods[o], p).status = "FullExit"
  BY <1>1, ClosedFits
<1>3. ods' \in Seq(InOutOrder) /\ KeysBounded' /\ OrdersFit' /\ OnlyOne(o) /\ ods'[o] = Closed(ods[o], p)
  BY <1>2, SetOne
<1>4. ~Open(o)' /\ openOds' = openOds \ {o}
  BY <1>2, <1>3 DEF Open, openOds, OnlyOne
<1> QED
  BY <1>3, <1>4 DEF Closes

\* What a closed order leaves to do in the last pass.
LEMMA CloseInPass ==
  ASSUME OrdersInv, NEW o \in Ids, NEW p \in Prices, Closes(o, p), todo' = todo \ {o},
         phase' = phase \/ phase' = "end"
  PROVE  LastPass'
<1>1. LastPass
  BY DEF OrdersInv
<1> QED
  BY <1>1 DEF LastPass, Closes, OnlyOne, openOds

LEMMA FillEnterInv ==
  ASSUME OrdersInv, NEW o \in Ids, NEW p \in Prices, FillEnter(o, p)
  PROVE  /\ OrdersInv' /\ OnlyOne(o) /\ ods[o].status = "Init"
         /\ \/ Closes(o, p) /\ UNCHANGED wallet /\ now' = now
            \/ /\ ods'[o].status = "FullEnter" /\ ods'[o].key = ods[o].key /\ ods'[o].fee = Fee
               /\ \E c \in Int : ConfirmOdEnter(ods[o].key, c, Fee)
               /\ UNCHANGED <<upol, used, now, phase>>
<1>1. TypeOK /\ KeysBounded /\ OrdersFit /\ TriggerFits /\ LastPass /\ ProfitUsedOnce
  BY DEF OrdersInv
<1> DEFINE amt == (CostAva(Cost \div Leverage) * Leverage) \div p
<1>2. amt \in Nat /\ p \in Nat
  BY <1>1, EntryAmount, Constants DEF TypeOK
<1>3. /\ trig = 0 /\ phase \in {"fill", "close", "close2"} /\ o \in todo /\ todo' = todo \ {o} /\ price' = price
      /\ now' = now /\ ods[o].status = "Init" /\ ~ods[o].exitTag
  BY DEF FillEnter, Visit, Filling, Done
<1>4. ods[o] \in InOutOrder /\ Fits(ods[o]) /\ ods[o].amt = 0 /\ Open(o)
  BY <1>1, <1>3, IdsAre DEF TypeOK, OrdersFit, Fits, Open
<1>5. now' \in Times
  BY <1>1, <1>3 DEF TypeOK
<1>6. CASE amt = 0
  <2>1. ods' = [ods EXCEPT ![o] = Closed(ods[o], p)] /\ UNCHANGED wallet
    BY <1>6 DEF FillEnter
  <2>2. (trig' = 0 /\ phase' = "end") \/ (trig' = Look(o) /\ phase' = phase)
    BY <1>6 DEF FillEnter
  <2>3. Closes(o, p)
    BY <1>1, <1>3, <2>1, CloseOne
  <2>4. Ids' = Ids /\ ods'[o].status = "FullExit" /\ ods'[o].amt = 0
    BY <1>4, <2>3, ClosedFits DEF Closes, OnlyOne
  <2>5. TypeOK'
    <3>1. trig' \in Ids \cup {0} /\ todo' \subseteq Ids
      BY <1>1, <1>3, <2>2 DEF TypeOK, Look
    <3>2. phase' \in {"end", "fill", "close", "close2"}
      BY <1>3, <2>2
    <3> QED
      BY <1>1, <1>3, <1>5, <2>1, <2>3, <2>4, <3>1, <3>2 DEF TypeOK, wallet, Closes
  <2>6. TriggerFits'
    BY <1>3, <2>2, <2>4 DEF TriggerFits, Look
  <2>7. LastPass'
    BY <1>3, <2>2, <2>3, CloseInPass
  <2>8. ProfitUsedOnce'
    BY <1>1, <2>1 DEF ProfitUsedOnce, wallet
  <2> QED
    BY <1>3, <2>1, <2>3, <2>5, <2>6, <2>7, <2>8 DEF OrdersInv, Closes
<1>7. CASE amt # 0
  <2>1. PICK a \in Nat \ {0} : a = amt
    BY <1>2, <1>7
  <2> DEFINE new == [ods[o] EXCEPT !.status = "FullEnter", !.amt = a, !.avg = p, !.fee = Fee]
  <2>2. PICK c \in Int : c = (p * a) \div Leverage
    BY <1>2, Constants, NatProducts, Quotients
  <2>3. /\ ods' = [ods EXCEPT ![o] = new] /\ ConfirmOdEnter(ods[o].key, c, Fee) /\ trig' = Look(o)
        /\ UNCHANGED <<upol, used, phase>>
    BY <1>7, <2>1, <2>2 DEF FillEnter
  <2> HIDE DEF amt
  <2>10. new \in InOutOrder /\ new.key = ods[o].key /\ new.status = "FullEnter" /\ new.fee = Fee /\ new.amt = a
    BY <1>4 DEF InOutOrder
  <2>11. Fits(new)
    BY <2>1, <2>10 DEF Fits
  <2> HIDE DEF new
  <2>4. ods' \in Seq(InOutOrder) /\ KeysBounded' /\ OrdersFit' /\ OnlyOne(o) /\ ods'[o] = new
    BY <1>1, <1>3, <2>10, <2>11, <2>3, SetOne
  <2>5. ava' \in Int /\ paid' \in Int /\ frozens' \in [Times -> Int]
    <3>1. ava \in Int /\ paid \in Int /\ frozens \in [Times -> Int] /\ Fee \in Int /\ c - Fee \in Int
      BY <1>1, Constants DEF TypeOK
    <3>2. ava' = ava - c /\ paid' = paid - Fee /\ frozens' = [frozens EXCEPT ![ods[o].key] = c - Fee]
      BY <2>3 DEF ConfirmOdEnter
    <3>3. PICK v \in Int : v = c - Fee
      BY <3>1
    <3>4. frozens' = [frozens EXCEPT ![ods[o].key] = v]
      BY <3>2, <3>3
    <3>5. frozens' \in [Times -> Int]
      BY <3>1, <3>4
    <3>6. ava' \in Int /\ paid' \in Int
      BY <3>1, <3>2
    <3> QED
      BY <3>5, <3>6
  <2>6. TypeOK'
    <3>1. trig' \in Ids' \cup {0} /\ todo' \subseteq Ids'
      BY <1>1, <1>3, <2>3, <2>4 DEF TypeOK, Look, OnlyOne
    <3> QED
      BY <1>1, <1>3, <1>5, <2>3, <2>4, <2>5, <3>1 DEF TypeOK
  <2>7. TriggerFits'
    BY <1>3, <2>10, <2>3, <2>4 DEF TriggerFits, Look, OnlyOne
  <2>8. LastPass'
    BY <1>1, <1>3, <1>4, <2>3 DEF LastPass, openOds
  <2>9. ProfitUsedOnce'
    BY <1>1, <2>3 DEF ProfitUsedOnce
  <2> QED
    BY <1>3, <2>10, <2>3, <2>4, <2>6, <2>7, <2>8, <2>9 DEF OrdersInv
<1> QED
  BY <1>6, <1>7

LEMMA FillExitInv ==
  ASSUME OrdersInv, NEW o \in Ids, NEW p \in Prices, FillExit(o, p)
  PROVE  OrdersInv' /\ Closes(o, p) /\ Open(o) /\ \E g \in Int : Released(ods[o], p, frozens, g)
<1>1. TypeOK /\ KeysBounded /\ OrdersFit /\ TriggerFits /\ LastPass /\ ProfitUsedOnce
  BY DEF OrdersInv
<1>2. /\ trig = 0 /\ trig' = 0 /\ o \in todo /\ todo' = todo \ {o} /\ phase' = phase
      /\ UNCHANGED <<upol, used, price, now>> /\ Open(o)
      /\ ods' = [ods EXCEPT ![o] = Closed(ods[o], p)] /\ ConfirmOdExit(ods[o], p, frozens)
  BY DEF FillExit, Visit, Done
<1>3. ods[o] \in InOutOrder /\ Fits(ods[o]) /\ frozens \in [Times -> Int]
  BY <1>1, IdsAre DEF TypeOK, OrdersFit
<1>4. Closes(o, p)
  BY <1>1, <1>2, CloseOne
<1>5. PICK g \in Int : Released(ods[o], p, frozens, g)
  BY <1>1, <1>2, <1>3, ExitReleases
<1>6. ava' \in Int /\ paid' \in Int /\ frozens' \in [Times -> Int]
  BY <1>1, <1>3, <1>5, ReleaseTypes
<1>7. TypeOK'
  <2>1. trig' \in Ids' \cup {0} /\ todo' \subseteq Ids'
    BY <1>1, <1>2, <1>4 DEF TypeOK, Closes, OnlyOne
  <2> QED
    BY <1>1, <1>2, <1>4, <1>6, <2>1 DEF TypeOK, Closes
<1>8. TriggerFits'
  BY <1>2 DEF TriggerFits
<1>9. LastPass'
  BY <1>2, <1>4, CloseInPass
<1>10. ProfitUsedOnce'
  BY <1>1, <1>2 DEF ProfitUsedOnce
<1> QED
  BY <1>2, <1>4, <1>5, <1>7, <1>8, <1>9, <1>10 DEF OrdersInv, Closes

LEMMA TriggerAllInv ==
  ASSUME OrdersInv, NEW o \in Ids, NEW p \in Prices, TriggerAll(o, p)
  PROVE  /\ OrdersInv' /\ Closes(o, p) /\ \E g \in Int : Released(ods[o], p, frozens, g)
         /\ ods[o].status = "FullEnter" \/ (ods[o].status = "FullExit" /\ ods[o].amt = 0)
<1>1. TypeOK /\ KeysBounded /\ OrdersFit /\ TriggerFits /\ LastPass /\ ProfitUsedOnce
  BY DEF OrdersInv
<1>2. /\ trig' = 0 /\ todo' = todo \ {o} /\ phase' = phase
      /\ UNCHANGED <<upol, used, price, now>>
      /\ ods' = [ods EXCEPT ![o] = Closed(ods[o], p)] /\ ConfirmOdExit(ods[o], p, frozens)
  BY DEF TriggerAll, Done
<1>3. ods[o] \in InOutOrder /\ Fits(ods[o]) /\ frozens \in [Times -> Int]
  BY <1>1, IdsAre DEF TypeOK, OrdersFit
<1>4. Closes(o, p)
  BY <1>1, <1>2, CloseOne
<1>5. PICK g \in Int : Released(ods[o], p, frozens, g)
  BY <1>1, <1>2, <1>3, ExitReleases
<1>6. ava' \in Int /\ paid' \in Int /\ frozens' \in [Times -> Int]
  BY <1>1, <1>3, <1>5, ReleaseTypes
<1>7. TypeOK'
  <2>1. trig' \in Ids' \cup {0} /\ todo' \subseteq Ids'
    BY <1>1, <1>2, <1>4 DEF TypeOK, Closes, OnlyOne
  <2> QED
    BY <1>1, <1>2, <1>4, <1>6, <2>1 DEF TypeOK, Closes
<1>8. TriggerFits'
  BY <1>2 DEF TriggerFits
<1>9. LastPass'
  BY <1>2, <1>4, CloseInPass
<1>10. ProfitUsedOnce'
  BY <1>1, <1>2 DEF ProfitUsedOnce
<1>11. ods[o].status = "FullEnter" \/ (ods[o].status = "FullExit" /\ ods[o].amt = 0)
  <2>1. Waiting(o) \/ (trig = o /\ trig # 0)
    <3>1. o # 0
      BY <1>1, IdsAre DEF TypeOK
    <3> QED
      BY <3>1 DEF TriggerAll, Triggers
  <2> QED
    BY <1>1, <2>1 DEF Waiting, TriggerFits
<1> QED
  BY <1>2, <1>4, <1>5, <1>7, <1>8, <1>9, <1>10, <1>11 DEF OrdersInv, Closes

LEMMA TriggerPartInv ==
  ASSUME OrdersInv, NEW o \in Ids, NEW p \in Prices, TriggerPart(o, p)
  PROVE  OrdersInv' /\ OneMore(o) /\ Open(o) /\ Cuts
<1> DEFINE od == ods[o]
           rest == [Rest(od) EXCEPT !.stop = FALSE]
           part == Closed(Part(od), p)
<1>1. TypeOK /\ KeysBounded /\ OrdersFit /\ TriggerFits /\ LastPass /\ ProfitUsedOnce
  BY DEF OrdersInv
<1>2. /\ Len(ods) < MaxOrders /\ od.amt >= 2 /\ Cuts /\ ods' = Append([ods EXCEPT ![o] = rest], part)
      /\ ConfirmOdExit(Part(od), p, WalletCut(od))
      /\ trig' = 0 /\ todo' = todo \ {o} /\ UNCHANGED <<upol, used, price, now, phase>>
  BY DEF TriggerPart, Cuttable, Done
<1>3. od \in InOutOrder /\ Fits(od) /\ od.key + 1 \in Times /\ od.amt \in Nat
  BY <1>1, <1>2, IdsAre, NextKey DEF TypeOK, OrdersFit, InOutOrder
<1>4. od.status = "FullEnter" /\ phase = "fill"
  <2>1. (Waiting(o) /\ phase = "fill") \/ (trig = o /\ trig # 0)
    <3>1. o # 0
      BY <1>1, IdsAre DEF TypeOK
    <3> QED
      BY <3>1 DEF TriggerPart, Triggers
  <2>2. od.amt # 0
    BY <1>2, <1>3
  <2> QED
    BY <1>1, <2>1, <2>2 DEF Waiting, TriggerFits
<1>5. /\ Part(od) \in InOutOrder /\ Fits(Part(od)) /\ Part(od).key = od.key
      /\ Rest(od) \in InOutOrder /\ Fits(Rest(od)) /\ Rest(od).key = od.key + 1
  BY <1>2, <1>3, HalvesFit
<1>6. rest \in InOutOrder /\ Fits(rest) /\ rest.key = od.key + 1
  BY <1>5 DEF InOutOrder, Fits
<1>7. part \in InOutOrder /\ Fits(part) /\ part.key = od.key
  BY <1>5, ClosedFits
<1> HIDE DEF rest, part
<1>8. ods' \in Seq(InOutOrder) /\ KeysBounded' /\ OrdersFit' /\ OneMore(o)
  BY <1>1, <1>2, <1>6, <1>7, SplitOne
<1>9. WalletCut(od) \in [Times -> Int]
  BY <1>1, <1>3, CutTypes
<1>10. PICK g \in Int : Released(Part(od), p, WalletCut(od), g)
  BY <1>1, <1>2, <1>5, <1>9, ExitReleases
<1>11. ava' \in Int /\ paid' \in Int /\ frozens' \in [Times -> Int]
  BY <1>1, <1>5, <1>9, <1>10, ReleaseTypes
<1>12. TypeOK'
  <2>1. trig' \in Ids' \cup {0} /\ todo' \subseteq Ids'
    BY <1>1, <1>2, <1>8 DEF TypeOK, OneMore
  <2> QED
    BY <1>1, <1>2, <1>8, <1>11, <2>1 DEF TypeOK
<1>13. TriggerFits' /\ LastPass'
  BY <1>2, <1>4 DEF TriggerFits, LastPass
<1>14. ProfitUsedOnce'
  BY <1>1, <1>2 DEF ProfitUsedOnce
<1>15. Open(o)
  BY <1>4 DEF Open
<1> QED
  BY <1>2, <1>8, <1>12, <1>13, <1>14, <1>15 DEF OrdersInv

LEMMA NoTriggerInv ==
  ASSUME OrdersInv, NEW o \in Ids, NoTrigger(o) \/ PassOver(o)
  PROVE  OrdersInv' /\ UNCHANGED <<ods, wallet, now, phase>>
<1>1. TypeOK /\ KeysBounded /\ OrdersFit /\ TriggerFits /\ LastPass /\ ProfitUsedOnce
  BY DEF OrdersInv
<1>2. trig' = 0 /\ todo' = todo \ {o} /\ UNCHANGED <<ods, wallet, price, now, phase>>
  BY DEF NoTrigger, PassOver, Done, Visit
<1>3. ods' \in Seq(InOutOrder) /\ KeysBounded' /\ OrdersFit' /\ now' \in Times /\ Ids' = Ids /\ openOds' = openOds
  BY <1>1, <1>2, SameList
<1>4. TypeOK'
  BY <1>1, <1>2, <1>3 DEF TypeOK, wallet
<1>5. phase = "close2" => ~Open(o) \/ ~ods[o].exitTag
  <2>1. o # 0
    BY <1>1, IdsAre DEF TypeOK
  <2> QED
    BY <1>1, <2>1 DEF NoTrigger, PassOver, Waiting, TriggerFits
<1>6. LastPass'
  <2>1. phase = "close2" => o \notin openOds
    BY <1>1, <1>5 DEF LastPass, openOds
  <2> QED
    BY <1>1, <1>2, <1>3, <2>1 DEF LastPass
<1>7. TriggerFits' /\ ProfitUsedOnce'
  BY <1>1, <1>2 DEF TriggerFits, ProfitUsedOnce, wallet
<1> QED
  BY <1>2, <1>3, <1>4, <1>6, <1>7 DEF OrdersInv

LEMMA NotReachedInv ==
  ASSUME OrdersInv, NEW o \in Ids, NotReached(o)
  PROVE  /\ OrdersInv' /\ UNCHANGED <<wallet, now, phase>>
         /\ ods' = ods \/ (Closes(o, price) /\ ods[o].status = "Init")
<1>1. TypeOK /\ KeysBounded /\ OrdersFit /\ TriggerFits /\ LastPass /\ ProfitUsedOnce
  BY DEF OrdersInv
<1>2. /\ trig = 0 /\ trig' = 0 /\ todo' = todo \ {o} /\ UNCHANGED <<wallet, price, now, phase>> /\ phase = "fill"
      /\ \/ ods' = ods
         \/ ods[o].status = "Init" /\ ods' = [ods EXCEPT ![o] = Closed(ods[o], price)]
  BY DEF NotReached, Visit, Done
<1>3. now' \in Times /\ price \in Prices
  BY <1>1, <1>2 DEF TypeOK
<1>4. \/ ods' = ods
      \/ Closes(o, price) /\ ods[o].status = "Init"
  BY <1>1, <1>2, <1>3, CloseOne
<1>5. ods' \in Seq(InOutOrder) /\ KeysBounded' /\ OrdersFit' /\ Ids' = Ids
  BY <1>1, <1>2, <1>4, SameList DEF Closes, OnlyOne
<1>6. TypeOK'
  BY <1>1, <1>2, <1>3, <1>5 DEF TypeOK, wallet
<1>7. TriggerFits' /\ LastPass' /\ ProfitUsedOnce'
  BY <1>1, <1>2 DEF TriggerFits, LastPass, ProfitUsedOnce, wallet
<1> QED
  BY <1>2, <1>4, <1>5, <1>6, <1>7 DEF OrdersInv

LEMMA UpdateProfitsInv ==
  ASSUME OrdersInv, UpdateProfits
  PROVE  /\ OrdersInv' /\ Ids' = Ids /\ Len(ods') = Len(ods) /\ now' = now
         /\ \A o \in Ids : ods'[o] = Marked(ods[o])
         /\ \/ ava' = 0 /\ frozens' = [k \in Times |-> 0] /\ paid' = - Deposit /\ phase' = "bomb"
            \/ phase = "fill" /\ phase' = "margin" /\ todo' = entered /\ UNCHANGED <<ava, frozens, paid>>
<1> DEFINE new == [o \in Ids |-> Marked(ods[o])]
           f == [o \in Ids |-> IF Open(o) THEN new[o].profit ELSE 0]
<1>1. TypeOK /\ KeysBounded /\ OrdersFit /\ TriggerFits /\ LastPass /\ ProfitUsedOnce
  BY DEF OrdersInv
<1>2. price \in Prices /\ Ids = 1 .. Len(ods) /\ Len(ods) \in Nat
  BY <1>1, IdsAre DEF TypeOK
<1>3. \A o \in Ids : Marked(ods[o]) \in InOutOrder /\ Fits(Marked(ods[o])) /\ Marked(ods[o]).key = ods[o].key
  BY <1>1, <1>2, IdsAre, MarkedFits DEF TypeOK, OrdersFit
<1>4. new \in [Ids -> InOutOrder] /\ \A o \in Ids : Fits(new[o]) /\ new[o].key = ods[o].key
  BY <1>3
<1>5. \A o \in Ids : new[o].profit \in Int
  BY <1>4 DEF InOutOrder
<1>6. Numbers(f, Len(ods))
  BY <1>2, <1>5 DEF Numbers
<1>7. PICK sum \in Int : sum = Sum(f, Len(ods))
  BY <1>2, <1>6, SumInt
<1>8. /\ phase = "fill" /\ todo = {} /\ trig = 0 /\ trig' = 0 /\ now' = now /\ price' = price /\ ods' = new
      /\ \/ /\ ava' = 0 /\ frozens' = [k \in Times |-> 0] /\ paid' = - Deposit /\ phase' = "bomb"
            /\ upol' = 0 /\ used' = 0 /\ todo' = {}
         \/ /\ phase' = "margin" /\ todo' = entered /\ UNCHANGED <<ava, frozens, paid>>
            /\ upol' = sum /\ used' = 0
  BY <1>7 DEF UpdateProfits
<1> HIDE DEF new, f
<1>9. ods' \in Seq(InOutOrder) /\ KeysBounded' /\ OrdersFit' /\ Ids' = Ids /\ Len(ods') = Len(ods)
  BY <1>1, <1>4, <1>8, SetAll
<1>10. TypeOK'
  <2>1. ava' \in Int /\ paid' \in Int /\ upol' \in Int /\ used' \in Int
    BY <1>1, <1>8, Constants DEF TypeOK
  <2>2. frozens' \in [Times -> Int] /\ todo' \subseteq Ids'
    BY <1>1, <1>8, <1>9 DEF TypeOK, entered
  <2> QED
    BY <1>1, <1>8, <1>9, <2>1, <2>2 DEF TypeOK
<1>11. TriggerFits' /\ LastPass'
  BY <1>8 DEF TriggerFits, LastPass
<1>12. ProfitUsedOnce'
  BY <1>8, MaxOf DEF ProfitUsedOnce
<1>13. \A o \in Ids : ods'[o] = Marked(ods[o])
  BY <1>8 DEF new
<1> QED
  BY <1>1, <1>8, <1>9, <1>10, <1>11, <1>12, <1>13 DEF OrdersInv

LEMMA UpdateMarginInv ==
  ASSUME OrdersInv, NEW o \in Ids, UpdateMargin(o)
  PROVE  /\ OrdersInv' /\ UNCHANGED <<ods, paid, now, phase>> /\ phase = "margin" /\ o \in todo /\ todo' = todo \ {o}
         /\ \E x \in Int : ava' = ava - (x - frozens[ods[o].key]) /\ frozens' = [frozens EXCEPT ![ods[o].key] = x]
<1>1. TypeOK /\ KeysBounded /\ OrdersFit /\ TriggerFits /\ LastPass /\ ProfitUsedOnce
  BY DEF OrdersInv
<1>2. phase = "margin" /\ o \in todo /\ todo' = todo \ {o} /\ UNCHANGED <<ods, upol, paid, price, now, phase, trig>>
  BY DEF UpdateMargin, Done
<1>3. ods[o] \in InOutOrder /\ ods[o].key \in Times
  BY <1>1, IdsAre DEF TypeOK
<1>4. PICK m \in Int : SetMargin(ods[o].key, m)
  <2>1. ods[o].amt \in Nat /\ ods[o].profit \in Int /\ price \in Nat /\ Leverage \in Nat \ {0}
    BY <1>1, <1>3, Constants DEF InOutOrder, TypeOK
  <2>2. ods[o].amt * price \in Nat
    BY <2>1, NatProducts
  <2>3. PICK q \in Nat : q = (ods[o].amt * price) \div Leverage
    BY <2>1, <2>2, Quotients
  <2>4. q - ods[o].profit \in Int
    BY <2>1
  <2> QED
    BY <2>3, <2>4 DEF UpdateMargin
<1>5. PICK x \in Int : /\ ava' = ava - (x - frozens[ods[o].key]) /\ frozens' = [frozens EXCEPT ![ods[o].key] = x]
                       /\ used' \in Int /\ used' <= Max({0, upol})
  BY <1>1, <1>3, <1>4, MarginMoves
<1>6. ods' \in Seq(InOutOrder) /\ KeysBounded' /\ OrdersFit' /\ now' \in Times /\ Ids' = Ids
  BY <1>1, <1>2, SameList
<1>7. TypeOK'
  <2>1. frozens' \in [Times -> Int]
    BY <1>1, <1>3, <1>5 DEF TypeOK
  <2>2. ava \in Int /\ frozens[ods[o].key] \in Int
    BY <1>1, <1>3 DEF TypeOK
  <2>3. ava' \in Int
    BY <2>2, <1>5
  <2> QED
    BY <1>1, <1>2, <1>5, <1>6, <2>1, <2>3 DEF TypeOK
<1>8. TriggerFits' /\ LastPass'
  BY <1>1, <1>2 DEF TriggerFits, LastPass
<1>9. ProfitUsedOnce'
  BY <1>2, <1>5 DEF ProfitUsedOnce
<1> QED
  BY <1>2, <1>5, <1>6, <1>7, <1>8, <1>9 DEF OrdersInv

LEMMA EndBarInv ==
  ASSUME OrdersInv, EndBar
  PROVE  OrdersInv' /\ UNCHANGED <<ods, wallet, now>> /\ phase' = "idle"
<1>1. TypeOK /\ KeysBounded /\ OrdersFit /\ TriggerFits /\ LastPass /\ ProfitUsedOnce
  BY DEF OrdersInv
<1>2. phase = "margin" /\ phase' = "idle" /\ UNCHANGED <<ods, wallet, price, now, todo, trig>>
  BY DEF EndBar
<1>3. ods' \in Seq(InOutOrder) /\ KeysBounded' /\ OrdersFit' /\ now' \in Times /\ Ids' = Ids
  BY <1>1, <1>2, SameList
<1>4. TypeOK'
  BY <1>1, <1>2, <1>3 DEF TypeOK, wallet
<1>5. TriggerFits' /\ LastPass' /\ ProfitUsedOnce'
  BY <1>1, <1>2 DEF TriggerFits, LastPass, ProfitUsedOnce, wallet
<1> QED
  BY <1>2, <1>3, <1>4, <1>5 DEF OrdersInv

LEMMA OnLiquidationInv ==
  ASSUME OrdersInv, OnLiquidation
  PROVE  /\ OrdersInv' /\ UNCHANGED <<ods, frozens, now>> /\ phase = "bomb"
         /\ \/ Charge /\ ava' = Deposit /\ paid' = 0 /\ phase' = "idle"
            \/ UNCHANGED <<ava, paid>> /\ phase' = "end"
<1>1. TypeOK /\ KeysBounded /\ OrdersFit /\ TriggerFits /\ LastPass /\ ProfitUsedOnce
  BY DEF OrdersInv
<1>2. /\ phase = "bomb" /\ UNCHANGED <<ods, frozens, upol, used, price, now, todo, trig>>
      /\ \/ Charge /\ ava' = Deposit /\ paid' = 0 /\ phase' = "idle"
         \/ UNCHANGED <<ava, paid>> /\ phase' = "end"
  BY DEF OnLiquidation
<1>3. ods' \in Seq(InOutOrder) /\ KeysBounded' /\ OrdersFit' /\ now' \in Times /\ Ids' = Ids
  BY <1>1, <1>2, SameList
<1>4. ava' \in Int /\ paid' \in Int /\ phase' \in {"idle", "end"}
  BY <1>1, <1>2, Constants DEF TypeOK
<1>5. TypeOK'
  BY <1>1, <1>2, <1>3, <1>4 DEF TypeOK
<1>6. TriggerFits' /\ LastPass' /\ ProfitUsedOnce'
  BY <1>1, <1>2 DEF TriggerFits, LastPass, ProfitUsedOnce
<1> QED
  BY <1>2, <1>3, <1>5, <1>6 DEF OrdersInv

LEMMA CleanUpInv ==
  ASSUME OrdersInv, CleanUp
  PROVE  /\ OrdersInv' /\ Ids' = Ids /\ Len(ods') = Len(ods) /\ UNCHANGED <<wallet, now>> /\ phase' \in {"close", "close2"}
         /\ phase \in {"idle", "close"} /\ \A o \in Ids : ods'[o] = [ods[o] EXCEPT !.exitTag = @ \/ Open(o)]
<1>1. TypeOK /\ KeysBounded /\ OrdersFit /\ TriggerFits /\ LastPass /\ ProfitUsedOnce
  BY DEF OrdersInv
<1>2. /\ ods' = ExitAll /\ UNCHANGED <<wallet, price, now, trig>> /\ phase' = Pass
      /\ todo' = {o \in openOds : phase = "close" \/ ~ ods[o].exitTag}
      /\ phase = "idle" \/ (phase = "close" /\ trig = 0)
  BY DEF CleanUp
<1>3. phase' = "close" \/ (phase = "close" /\ phase' = "close2")
  BY <1>2 DEF Pass
<1>4. \A o \in Ids : ExitAll[o] = [ods[o] EXCEPT !.exitTag = @ \/ Open(o)]
  BY DEF ExitAll
<1>5. ASSUME NEW o \in Ids
      PROVE  /\ ExitAll[o] \in InOutOrder /\ Fits(ExitAll[o]) /\ ExitAll[o].key = ods[o].key
             /\ ExitAll[o].status = ods[o].status /\ (Open(o) => ExitAll[o].exitTag)
  <2>1. ods[o] \in InOutOrder /\ Fits(ods[o])
    BY <1>1, IdsAre DEF TypeOK, OrdersFit
  <2>2. PICK b \in BOOLEAN : b = (ods[o].exitTag \/ Open(o))
    OBVIOUS
  <2>3. ExitAll[o] = [ods[o] EXCEPT !.exitTag = b]
    BY <1>4, <2>2
  <2>4. ExitAll[o] \in InOutOrder /\ ExitAll[o].status = ods[o].status /\ ExitAll[o].exitTag = b
    BY <2>1, <2>3 DEF InOutOrder
  <2>5. ExitAll[o].key = ods[o].key /\ ExitAll[o].amt = ods[o].amt /\ ExitAll[o].profit = ods[o].profit /\ ExitAll[o].fee = ods[o].fee
    BY <2>1, <2>3 DEF InOutOrder
  <2>6. ods[o].exitTag => b
    BY <2>2
  <2> QED
    BY <2>1, <2>2, <2>4, <2>5, <2>6 DEF Fits
<1>6. ExitAll \in [Ids -> InOutOrder]
  BY <1>5 DEF ExitAll
<1>7. ods' \in Seq(InOutOrder) /\ KeysBounded' /\ OrdersFit' /\ Ids' = Ids /\ Len(ods') = Len(ods)
  BY <1>1, <1>2, <1>5, <1>6, SetAll
<1>13. \A o \in Ids : ods'[o].status = ods[o].status /\ (Open(o) => ods'[o].exitTag)
  BY <1>2, <1>5
<1>14. \A o \in Ids : Open(o)' <=> Open(o)
  BY <1>13 DEF Open
<1>8. openOds' = openOds
  BY <1>7, <1>14 DEF openOds
<1>9. TypeOK'
  <2>1. todo' \subseteq Ids' /\ trig' \in Ids' \cup {0}
    BY <1>1, <1>2, <1>7 DEF TypeOK, openOds
  <2> QED
    BY <1>1, <1>2, <1>3, <1>7, <2>1 DEF TypeOK, wallet
<1>10. TriggerFits'
  BY <1>1, <1>2 DEF TriggerFits
<1>11. LastPass'
  <2>1. phase' # "clean"
    BY <1>3
  <2>2. ASSUME phase' = "close2", NEW o \in openOds' PROVE o \in todo' /\ ods'[o].exitTag
    <3>1. o \in openOds /\ o \in Ids /\ Open(o) /\ phase = "close"
      BY <1>3, <1>8, <2>2 DEF openOds
    <3> QED
      BY <1>2, <1>13, <3>1
  <2> QED
    BY <2>1, <2>2 DEF LastPass
<1>12. ProfitUsedOnce'
  BY <1>1, <1>2 DEF ProfitUsedOnce, wallet
<1> QED
  BY <1>2, <1>3, <1>4, <1>7, <1>9, <1>10, <1>11, <1>12 DEF OrdersInv

LEMMA CleanUpEndInv ==
  ASSUME OrdersInv, CleanUpEnd
  PROVE  OrdersInv' /\ UNCHANGED <<ods, ava, frozens, paid, now>> /\ phase' = "clean" /\ phase = "close2"
<1>1. TypeOK /\ KeysBounded /\ OrdersFit /\ TriggerFits /\ LastPass /\ ProfitUsedOnce
  BY DEF OrdersInv
<1>2. /\ phase = "close2" /\ phase' = "clean" /\ todo = {} /\ trig = 0 /\ upol' = 0 /\ used' = 0
      /\ UNCHANGED <<ods, ava, frozens, paid, price, now, todo, trig>>
  BY DEF CleanUpEnd
<1>3. ods' \in Seq(InOutOrder) /\ KeysBounded' /\ OrdersFit' /\ now' \in Times /\ Ids' = Ids /\ openOds' = openOds
  BY <1>1, <1>2, SameList
<1>4. TypeOK'
  BY <1>1, <1>2, <1>3 DEF TypeOK
<1>5. TriggerFits' /\ LastPass'
  BY <1>1, <1>2, <1>3 DEF TriggerFits, LastPass
<1>6. ProfitUsedOnce'
  BY <1>2, MaxOf DEF ProfitUsedOnce
<1> QED
  BY <1>2, <1>3, <1>4, <1>5, <1>6 DEF OrdersInv

-----------------------------------------------------------------------------
(* What holds with parts as well *)

LEMMA NextHolds ==
  ASSUME OrdersInv, [Next]_vars
  PROVE  OrdersInv'
<1>1. CASE UNCHANGED vars
  BY <1>1 DEF vars, OrdersInv, TypeOK, Ids, KeysBounded, OrdersFit, TriggerFits, LastPass, openOds, Open, ProfitUsedOnce
<1>2. ASSUME NEW dir \in {1, -1}, NEW stop \in BOOLEAN, EnterOrder(dir, stop) PROVE OrdersInv'
  BY <1>2, EnterOrderInv
<1>3. ASSUME NEW o \in Ids, ExitOrder(o) \/ ExitPart(o) PROVE OrdersInv'
  BY <1>3, ExitOrderInv, ExitPartInv
<1>4. ASSUME NEW close \in Prices, StartBar(close) PROVE OrdersInv'
  BY <1>4, StartBarInv
<1>5. ASSUME NEW o \in Ids, NEW p \in Prices,
             FillEnter(o, p) \/ FillExit(o, p) \/ TriggerAll(o, p) \/ TriggerPart(o, p)
      PROVE  OrdersInv'
  BY <1>5, FillEnterInv, FillExitInv, TriggerAllInv, TriggerPartInv
<1>6. ASSUME NEW o \in Ids, NoTrigger(o) \/ NotReached(o) \/ PassOver(o) PROVE OrdersInv'
  BY <1>6, NoTriggerInv, NotReachedInv
<1>7. ASSUME NEW o \in Ids, UpdateMargin(o) PROVE OrdersInv'
  BY <1>7, UpdateMarginInv
<1>8. CASE UpdateProfits \/ EndBar \/ OnLiquidation \/ CleanUp \/ CleanUpEnd
  BY <1>8, UpdateProfitsInv, EndBarInv, OnLiquidationInv, CleanUpInv, CleanUpEndInv
<1> QED
  BY <1>1, <1>2, <1>3, <1>4, <1>5, <1>6, <1>7, <1>8 DEF Next, Strategy, FillPendingOrders

(* The inductive invariant of the simulated orders, whatever the strategy does *)
(* and in whichever order the orders of a bar come.                            *)
THEOREM OrdersInvariant == Spec => []OrdersInv
<1>1. Init => OrdersInv
  BY InitHolds
<1>2. OrdersInv /\ [Next]_vars => OrdersInv'
  BY NextHolds
<1> QED
  BY <1>1, <1>2, PTL DEF Spec

\* Every variable has its type: no key or time leaves its range, no amount is negative.
THEOREM TypeCorrect == Spec => []TypeOK
<1>1. OrdersInv => TypeOK
  BY DEF OrdersInv
<1> QED
  BY <1>1, OrdersInvariant, PTL

(* SetMargin never hands out more unrealized profit than there is, whatever    *)
(* orders are visited and fail on the way.                                     *)
THEOREM ProfitOnce == Spec => []ProfitUsedOnce
<1>1. OrdersInv => ProfitUsedOnce
  BY DEF OrdersInv
<1> QED
  BY <1>1, OrdersInvariant, PTL

LEMMA ExitedStays ==
  ASSUME OrdersInv, [Next]_vars, NEW q \in Ids, ~Open(q)
  PROVE  ods'[q] = ods[q]
<1>1. \A o \in Ids : ods[o] \in InOutOrder /\ Fits(ods[o])
  BY IdsAre DEF OrdersInv, TypeOK, OrdersFit
<1>2. q # 0 /\ ods[q].status = "FullExit"
  BY IdsAre DEF OrdersInv, TypeOK, Open
<1>3. CASE UNCHANGED vars
  BY <1>3 DEF vars
<1>4. ASSUME NEW dir \in {1, -1}, NEW stop \in BOOLEAN, EnterOrder(dir, stop) PROVE ods'[q] = ods[q]
  BY <1>2, <1>4, EnterOrderInv DEF OneMore
<1>5. ASSUME NEW o \in Ids, ExitOrder(o) \/ ExitPart(o) PROVE ods'[q] = ods[q]
  <2>1. Open(o)
    BY <1>5 DEF ExitOrder, ExitPart, Open
  <2> QED
    BY <1>5, <2>1, ExitOrderInv, ExitPartInv DEF OneMore, OnlyOne
<1>6. ASSUME NEW o \in Ids, NEW p \in Prices, FillEnter(o, p) \/ FillExit(o, p) \/ TriggerPart(o, p)
      PROVE  ods'[q] = ods[q]
  <2>1. Open(o)
    BY <1>6, FillEnterInv, FillExitInv, TriggerPartInv DEF Open
  <2>2. OnlyOne(o) \/ OneMore(o)
    BY <1>6, FillEnterInv, FillExitInv, TriggerPartInv DEF Closes
  <2> QED
    BY <2>1, <2>2 DEF OneMore, OnlyOne
<1>7. ASSUME NEW o \in Ids, NEW p \in Prices, TriggerAll(o, p) PROVE ods'[q] = ods[q]
  <2>1. /\ OnlyOne(o) /\ ods'[o] = Closed(ods[o], p)
        /\ ods[o].status = "FullEnter" \/ (ods[o].status = "FullExit" /\ ods[o].amt = 0)
    BY <1>7, TriggerAllInv DEF Closes
  <2>2. CASE o = q
    BY <1>1, <1>2, <2>1, <2>2, ClosedAgain
  <2> QED
    BY <2>1, <2>2 DEF OnlyOne
<1>8. ASSUME NEW o \in Ids, NoTrigger(o) \/ NotReached(o) \/ PassOver(o) PROVE ods'[q] = ods[q]
  BY <1>2, <1>8, NoTriggerInv, NotReachedInv DEF Closes, OnlyOne
<1>9. CASE UpdateProfits
  <2>1. ods'[q] = Marked(ods[q])
    BY <1>9, UpdateProfitsInv
  <2> QED
    BY <1>2, <2>1 DEF Marked
<1>10. CASE CleanUp
  <2>1. ods'[q] = [ods[q] EXCEPT !.exitTag = @ \/ Open(q)]
    BY <1>10, CleanUpInv
  <2>2. ods[q].exitTag = TRUE
    BY <1>1, <1>2 DEF Fits, InOutOrder
  <2>3. (ods[q].exitTag \/ Open(q)) = TRUE
    BY <2>2
  <2>4. [ods[q] EXCEPT !.exitTag = TRUE] = ods[q]
    BY <1>1, <2>2 DEF InOutOrder
  <2> QED
    BY <2>1, <2>3, <2>4
<1>11. ASSUME NEW o \in Ids, UpdateMargin(o) PROVE ods'[q] = ods[q]
  BY <1>11, UpdateMarginInv
<1>12. ASSUME NEW close \in Prices, StartBar(close) PROVE ods'[q] = ods[q]
  BY <1>12 DEF StartBar
<1>13. CASE EndBar \/ OnLiquidation \/ CleanUpEnd
  BY <1>13, EndBarInv, OnLiquidationInv, CleanUpEndInv
<1> QED
  BY <1>3, <1>4, <1>5, <1>6, <1>7, <1>8, <1>9, <1>10, <1>11, <1>12, <1>13
  DEF Next, Strategy, FillPendingOrders

(* An order that is fully exited keeps its result, though a trigger may close  *)
(* it once more after LocalExit has (fillPendingEnter, tryFillTriggers).       *)
THEOREM ExitKept == Spec => ExitIsFinal
<1>1. OrdersInv /\ [Next]_vars => [\A o \in Ids : ~ Open(o) => ods'[o] = ods[o]]_vars
  BY ExitedStays
<1> QED
  BY <1>1, OrdersInvariant, PTL DEF Spec, ExitIsFinal

-----------------------------------------------------------------------------
(* The wallet, while orders are exited whole *)

\* What an order adds to what the exchange paid.
Share(od) == IF od.status # "FullExit" THEN - od.fee ELSE od.profit
Shares == [o \in Ids |-> Share(ods[o])]

LEMMA ShareInt == ASSUME NEW od \in InOutOrder PROVE Share(od) \in Int
<1>1. od.fee \in Int /\ od.profit \in Int
  BY Constants DEF InOutOrder
<1> QED
  BY <1>1 DEF Share

LEMMA TotalIs ==
  ASSUME TypeOK
  PROVE  LastTime \in Nat /\ Times = 1 .. LastTime /\ Numbers(frozens, LastTime) /\ frozenSum \in Int /\ ava \in Int /\ paid \in Int
<1>1. LastTime \in Nat /\ Times = 1 .. LastTime
  BY Bounds, TimesAre
<1>2. Numbers(frozens, LastTime)
  BY <1>1 DEF Numbers, TypeOK
<1> QED
  BY <1>1, <1>2, SumInt DEF frozenSum, TypeOK

\* One key of the frozen money gets x.
LEMMA FrozenChanged ==
  ASSUME TypeOK, NEW k \in Times, NEW x \in Int, frozens' = [frozens EXCEPT ![k] = x]
  PROVE  frozenSum' = frozenSum + x - frozens[k] /\ frozens[k] \in Int
<1>1. LastTime \in Nat /\ Times = 1 .. LastTime /\ Numbers(frozens, LastTime) /\ LastTime' = LastTime
  BY TotalIs DEF LastTime, BarMS
<1>2. frozens'[k] = x /\ \A i \in 1 .. LastTime : i # k => frozens'[i] = frozens[i]
  BY <1>1 DEF TypeOK
<1>3. PICK n \in Nat : n = LastTime
  BY <1>1
<1>4. PICK g : g = frozens'
  OBVIOUS
<1>5. k \in 1 .. n /\ g[k] \in Int /\ Numbers(frozens, n) /\ \A i \in 1 .. n : i # k => g[i] = frozens[i]
  BY <1>1, <1>2, <1>3, <1>4
<1>6. Sum(g, n) = Sum(frozens, n) + g[k] - frozens[k]
  BY <1>5, SumChanged
<1> QED
  BY <1>1, <1>2, <1>3, <1>4, <1>6 DEF frozenSum, TypeOK

LEMMA FrozenZero ==
  ASSUME \A k \in Times : frozens[k] = 0
  PROVE  frozenSum = 0
<1>1. LastTime \in Nat /\ Times = 1 .. LastTime
  BY Bounds, TimesAre
<1> QED
  BY <1>1, SumZero DEF frozenSum

LEMMA SharesAre ==
  ASSUME TypeOK
  PROVE  /\ Numbers(Shares, Len(ods)) /\ Len(ods) \in Nat /\ Ids = 1 .. Len(ods)
         /\ \A o \in Ids : Shares[o] = Share(ods[o]) /\ Share(ods[o]) \in Int
         /\ Sum(Shares, Len(ods)) \in Int
         /\ (~Charge => (ProfitsAddUp <=> (phase \notin {"bomb", "end"} => Sum(Shares, Len(ods)) = paid)))
<1>1. Ids = 1 .. Len(ods) /\ Len(ods) \in Nat
  BY IdsAre DEF TypeOK
<1>2. \A o \in Ids : ods[o] \in InOutOrder
  BY IdsAre DEF TypeOK
<1>3. \A o \in Ids : Shares[o] = Share(ods[o]) /\ Share(ods[o]) \in Int
  BY <1>2, ShareInt DEF Shares
<1>4. Numbers(Shares, Len(ods))
  BY <1>1, <1>3 DEF Numbers
<1>5. Shares = [o \in Ids |-> IF Open(o) THEN - ods[o].fee ELSE ods[o].profit]
  BY DEF Shares, Share, Open
<1>6. Sum(Shares, Len(ods)) \in Int
  BY <1>1, <1>4, SumInt
<1> QED
  BY <1>1, <1>3, <1>4, <1>5, <1>6 DEF ProfitsAddUp

\* The shares that follow from one or from no change of the list.
LEMMA ShareChanged ==
  ASSUME TypeOK, TypeOK', NEW o \in Ids, OnlyOne(o)
  PROVE  Sum(Shares, Len(ods))' = Sum(Shares, Len(ods)) + Share(ods'[o]) - Share(ods[o])
<1>1. /\ Numbers(Shares, Len(ods)) /\ Len(ods) \in Nat /\ Ids = 1 .. Len(ods)
      /\ \A q \in Ids : Shares[q] = Share(ods[q])
  BY SharesAre
<1>2. Ids' = Ids /\ Len(ods') = Len(ods) /\ \A q \in Ids \ {o} : ods'[q] = ods[q]
  BY DEF OnlyOne
<1>3. \A q \in Ids : Shares'[q] = Share(ods'[q])
  BY <1>2 DEF Shares, Share
<1>4. Shares'[o] \in Int
  <2>1. ods'[o] \in InOutOrder
    BY <1>2 DEF TypeOK, Ids
  <2> QED
    BY <1>3, <2>1, ShareInt
<1>5. \A q \in 1 .. Len(ods) : q # o => Shares'[q] = Shares[q]
  BY <1>1, <1>2, <1>3
<1>6. Sum(Shares', Len(ods)) = Sum(Shares, Len(ods)) + Shares'[o] - Shares[o]
  BY <1>1, <1>4, <1>5, SumChanged
<1> QED
  BY <1>1, <1>2, <1>3, <1>6

LEMMA SharesSame ==
  ASSUME TypeOK, Ids' = Ids, Len(ods') = Len(ods), \A q \in Ids : Share(ods'[q]) = Share(ods[q])
  PROVE  Sum(Shares, Len(ods))' = Sum(Shares, Len(ods))
<1>1. /\ Numbers(Shares, Len(ods)) /\ Len(ods) \in Nat /\ Ids = 1 .. Len(ods)
      /\ \A q \in Ids : Shares[q] = Share(ods[q])
  BY SharesAre
<1>2. \A q \in Ids : Shares'[q] = Share(ods'[q])
  BY DEF Shares, Share
<1>3. Sum(Shares', Len(ods)) = Sum(Shares, Len(ods))
  BY <1>1, <1>2, SumSame
<1> QED
  BY <1>3

LEMMA ShareAdded ==
  ASSUME TypeOK, OneMore(0), Share(ods'[Len(ods) + 1]) = 0
  PROVE  Sum(Shares, Len(ods))' = Sum(Shares, Len(ods))
<1>1. /\ Numbers(Shares, Len(ods)) /\ Len(ods) \in Nat /\ Ids = 1 .. Len(ods)
      /\ \A q \in Ids : Shares[q] = Share(ods[q]) /\ Share(ods[q]) \in Int
      /\ Sum(Shares, Len(ods)) \in Int
  BY SharesAre
<1>2. Ids' = Ids \cup {Len(ods) + 1} /\ Len(ods') = Len(ods) + 1 /\ \A q \in Ids : ods'[q] = ods[q]
  BY <1>1 DEF OneMore
<1>3. \A q \in Ids \cup {Len(ods) + 1} : Shares'[q] = Share(ods'[q])
  BY <1>2 DEF Shares, Share
<1>4. Shares'[Len(ods) + 1] = 0 /\ \A q \in 1 .. Len(ods) : Shares'[q] = Shares[q]
  BY <1>1, <1>2, <1>3
<1>5. Sum(Shares', Len(ods) + 1) = Sum(Shares, Len(ods)) + Shares'[Len(ods) + 1]
  BY <1>1, <1>4, SumAppended
<1> QED
  BY <1>1, <1>2, <1>4, <1>5

LEMMA KeysKept ==
  ASSUME OrdersInv, KeysApart, Ids' = Ids, \A q \in Ids : ods'[q].key = ods[q].key, now' \in Nat, now <= now'
  PROVE  KeysApart'
<1>1. now \in Nat /\ \A q \in Ids : ods[q].key \in Nat
  BY IdsAre, TimesAre DEF OrdersInv, TypeOK
<1> QED
  BY <1>1 DEF KeysApart

LEMMA OwnersKept ==
  ASSUME FrozenIsOwned, \A k \in Times : frozens'[k] # 0 => frozens[k] # 0,
         \A q \in entered : q \in entered' /\ ods'[q].key = ods[q].key
  PROVE  FrozenIsOwned'
<1>1. Times' = Times
  BY DEF Times, LastTime, BarMS
<1> QED
  BY <1>1 DEF FrozenIsOwned

\* The wallet as it is, and the same money in it.
LEMMA MoneySame ==
  ASSUME MoneyKept, UNCHANGED <<ava, frozens, paid>>
  PROVE  MoneyKept'
BY DEF MoneyKept, Total, frozenSum, LastTime, BarMS

\* Neither margins nor a liquidation.
Ordinary ==
  /\ phase \in {"idle", "fill", "close", "close2"}
  /\ phase' = phase \/ phase' = "end"

LEMMA OrdinaryIs ==
  ASSUME OrdersInv, NEW o \in Ids, NEW p \in Prices,
         \/ \E dir \in {1, -1}, stop \in BOOLEAN : EnterOrder(dir, stop)
         \/ ExitOrder(o) \/ FillEnter(o, p) \/ FillExit(o, p) \/ TriggerAll(o, p)
         \/ NoTrigger(o) \/ NotReached(o) \/ PassOver(o)
  PROVE  Ordinary
<1>1. o # 0 /\ TriggerFits
  BY IdsAre DEF OrdersInv, TypeOK
<1>2. CASE \E dir \in {1, -1}, stop \in BOOLEAN : EnterOrder(dir, stop)
  BY <1>2 DEF EnterOrder, Called, Filling, Ordinary
<1>3. CASE ExitOrder(o)
  BY <1>3 DEF ExitOrder, Called, Filling, Ordinary
<1>4. CASE FillEnter(o, p)
  <2>1. phase' = phase \/ phase' = "end"
    BY <1>4, FillEnterInv DEF FillEnter
  <2> QED
    BY <1>4, <2>1 DEF FillEnter, Visit, Filling, Ordinary
<1>5. CASE FillExit(o, p) \/ NotReached(o) \/ PassOver(o)
  BY <1>5 DEF FillExit, NotReached, PassOver, Visit, Filling, Ordinary
<1>6. CASE TriggerAll(o, p) \/ NoTrigger(o)
  <2>1. phase' = phase /\ (Filling \/ phase = "fill")
    BY <1>1, <1>6 DEF TriggerAll, Triggers, NoTrigger, Waiting, Visit, TriggerFits
  <2> QED
    BY <2>1 DEF Filling, Ordinary
<1> QED
  BY <1>2, <1>3, <1>4, <1>5, <1>6

LEMMA OrdinaryKeeps ==
  ASSUME Ordinary
  PROVE  MarginsEntered' /\ BombTakesAll' /\ (phase' \notin {"bomb", "end"} => phase \notin {"bomb", "end"})
BY DEF Ordinary, MarginsEntered, BombTakesAll

LEMMA ProfitsSame ==
  ASSUME OrdersInv, OrdersInv', ProfitsAddUp, phase' \notin {"bomb", "end"} => phase \notin {"bomb", "end"},
         Sum(Shares, Len(ods))' - Sum(Shares, Len(ods)) = paid' - paid
  PROVE  ProfitsAddUp'
<1>1. CASE Charge
  BY <1>1 DEF ProfitsAddUp
<1>2. CASE ~Charge
  <2>1. TypeOK /\ TypeOK'
    BY DEF OrdersInv
  <2>2. paid \in Int /\ paid' \in Int
    BY <2>1 DEF TypeOK
  <2>3. Sum(Shares, Len(ods)) \in Int /\ (phase \notin {"bomb", "end"} => Sum(Shares, Len(ods)) = paid)
    BY <1>2, <2>1, SharesAre
  <2>4. (TypeOK => Sum(Shares, Len(ods)) \in Int)'
    BY SharesAre, PTL
  <2>5. (TypeOK /\ ~Charge => (ProfitsAddUp <=> (phase \notin {"bomb", "end"} => Sum(Shares, Len(ods)) = paid)))'
    BY SharesAre, PTL
  <2>6. ProfitsAddUp' <=> (phase' \notin {"bomb", "end"} => Sum(Shares, Len(ods))' = paid')
    BY <1>2, <2>1, <2>5
  <2> QED
    BY <2>1, <2>2, <2>3, <2>4, <2>6
<1> QED
  BY <1>1, <1>2

LEMMA EnterOrderMoney ==
  ASSUME OrdersInv, WalletInv, NEW dir \in {1, -1}, NEW stop \in BOOLEAN, EnterOrder(dir, stop), Ordinary
  PROVE  WalletInv'
<1>0. PICK n : n = Len(ods) + 1
  OBVIOUS
<1>1. KeysApart /\ FrozenIsOwned /\ MoneyKept /\ ProfitsAddUp /\ TypeOK
  BY DEF WalletInv, OrdersInv
<1>2. OrdersInv' /\ OneMore(0) /\ ods'[n].status = "Init" /\ ods'[n].key = now /\ ods'[n].fee = 0
  BY <1>0, EnterOrderInv
<1>3. now' = now + 1 /\ UNCHANGED wallet /\ now \in Nat
  BY <1>1, TimesAre DEF EnterOrder, AfterEnter, TypeOK
<1>4. /\ Ids' = Ids \cup {n} /\ n \notin Ids /\ \A q \in Ids : ods'[q] = ods[q] /\ ods[q].key \in Nat
  <2>1. 0 \notin Ids
    BY <1>1, IdsAre DEF TypeOK
  <2> QED
    BY <1>0, <1>1, <1>2, <2>1, IdsAre DEF OneMore, TypeOK
<1>5. KeysApart'
  BY <1>1, <1>2, <1>3, <1>4 DEF KeysApart
<1>6. FrozenIsOwned'
  <2>1. \A q \in entered : q \in entered' /\ ods'[q].key = ods[q].key
    BY <1>4 DEF entered
  <2> QED
    BY <1>1, <1>3, <2>1, OwnersKept DEF wallet
<1>7. MoneyKept'
  BY <1>1, <1>3, MoneySame DEF wallet
<1>8. MarginsEntered' /\ BombTakesAll' /\ (phase' \notin {"bomb", "end"} => phase \notin {"bomb", "end"})
  BY OrdinaryKeeps
<1>9. ProfitsAddUp'
  <2>1. Share(ods'[n]) = 0
    <3>1. PICK od : od = ods'[n]
      OBVIOUS
    <3>2. od.status = "Init" /\ od.fee = 0
      BY <1>2, <3>1
    <3>3. \A z \in Int : - z = 0 - z
      OBVIOUS
    <3>4. - od.fee = 0
      <4>1. 0 \in Int /\ 0 - 0 = 0
        OBVIOUS
      <4> QED
        BY <3>2, <3>3, <4>1, Zenon
    <3>5. Share(od) = - od.fee
      BY <3>2 DEF Share
    <3> QED
      BY <3>1, <3>4, <3>5
  <2>2. Sum(Shares, Len(ods))' = Sum(Shares, Len(ods)) /\ Sum(Shares, Len(ods)) \in Int
    BY <1>0, <1>1, <1>2, <2>1, ShareAdded, SharesAre
  <2>3. paid' = paid /\ paid \in Int
    BY <1>1, <1>3 DEF wallet, TypeOK
  <2>4. Sum(Shares, Len(ods))' - Sum(Shares, Len(ods)) = paid' - paid
    BY <2>2, <2>3
  <2> QED
    BY <1>1, <1>2, <1>8, <2>4, ProfitsSame
<1> QED
  BY <1>5, <1>6, <1>7, <1>8, <1>9 DEF WalletInv

LEMMA NowNat == TypeOK => now \in Nat
BY TimesAre DEF TypeOK

\* No order changes its key, whether it is entered or what it has earned or paid.
LEMMA NothingMoves ==
  ASSUME OrdersInv, OrdersInv', WalletInv, Ids' = Ids, Len(ods') = Len(ods), UNCHANGED <<ava, frozens, paid>>, now <= now',
         \A q \in Ids : /\ ods'[q].key = ods[q].key /\ Share(ods'[q]) = Share(ods[q])
                        /\ ods[q].status = "FullEnter" => ods'[q].status = "FullEnter",
         phase' \notin {"bomb", "end"} => phase \notin {"bomb", "end"}
  PROVE  KeysApart' /\ FrozenIsOwned' /\ MoneyKept' /\ ProfitsAddUp'
<1>1. KeysApart /\ FrozenIsOwned /\ MoneyKept /\ ProfitsAddUp /\ TypeOK /\ TypeOK'
  BY DEF WalletInv, OrdersInv
<1>2. now' \in Nat
  <2>1. (TypeOK => now \in Nat)'
    BY NowNat, PTL
  <2> QED
    BY <1>1, <2>1
<1>3. KeysApart'
  BY <1>1, <1>2, KeysKept
<1>4. FrozenIsOwned'
  <2>1. \A q \in entered : q \in entered' /\ ods'[q].key = ods[q].key
    BY DEF entered
  <2> QED
    BY <1>1, <2>1, OwnersKept
<1>5. MoneyKept'
  BY <1>1, MoneySame
<1>6. ProfitsAddUp'
  <2>1. Sum(Shares, Len(ods))' = Sum(Shares, Len(ods)) /\ Sum(Shares, Len(ods)) \in Int /\ paid \in Int
    BY <1>1, SharesSame, SharesAre DEF TypeOK
  <2>2. Sum(Shares, Len(ods))' - Sum(Shares, Len(ods)) = paid' - paid
    BY <2>1
  <2> QED
    BY <1>1, <2>2, ProfitsSame
<1> QED
  BY <1>3, <1>4, <1>5, <1>6

\* An order closed at price p releases what it has frozen.
LEMMA ReleaseMoney ==
  ASSUME OrdersInv, OrdersInv', WalletInv, NEW o \in Ids, NEW p \in Prices, Closes(o, p), NEW g \in Int,
         Released(ods[o], p, frozens, g), now' = now, Open(o) \/ ods[o].amt = 0,
         phase' \notin {"bomb", "end"} => phase \notin {"bomb", "end"}
  PROVE  KeysApart' /\ FrozenIsOwned' /\ MoneyKept' /\ ProfitsAddUp'
<1>1. KeysApart /\ FrozenIsOwned /\ MoneyKept /\ ProfitsAddUp /\ TypeOK /\ TypeOK'
  BY DEF WalletInv, OrdersInv
<1>2. ods[o] \in InOutOrder /\ Fits(ods[o]) /\ ods[o].key \in Times /\ now \in Nat
  BY <1>1, OrderIs, NowNat
<1>3. OnlyOne(o) /\ ods'[o] = Closed(ods[o], p) /\ Ids' = Ids /\ \A q \in Ids \ {o} : ods'[q] = ods[q]
  BY DEF Closes, OnlyOne
<1>4. /\ ods'[o].key = ods[o].key /\ ods'[o].status = "FullExit" /\ ods'[o].fee = ods[o].fee
      /\ ods'[o].profit = Profit(ods[o], p, FeeOf(ods[o].amt))
  BY <1>2, <1>3, ClosedFits
<1>5. /\ frozens' = [frozens EXCEPT ![ods[o].key] = 0] /\ ava' = ava + frozens[ods[o].key] + g /\ paid' = paid + g
      /\ Profit(ods[o], p, FeeOf(ods[o].amt)) = g - ods[o].fee
  BY DEF Released
<1>6. KeysApart'
  BY <1>1, <1>2, <1>3, <1>4, KeysKept
<1>7. FrozenIsOwned'
  <2>1. Times' = Times
    BY DEF Times, LastTime, BarMS
  <2>2. ASSUME NEW k \in Times, frozens'[k] # 0 PROVE \E q \in entered' : ods'[q].key = k
    <3>1. k # ods[o].key /\ frozens[k] # 0
      BY <1>1, <1>2, <1>5, <2>2 DEF TypeOK
    <3>2. PICK q \in entered : ods[q].key = k
      BY <1>1, <3>1 DEF FrozenIsOwned
    <3>3. q \in entered' /\ ods'[q].key = k
      BY <1>3, <3>1, <3>2 DEF entered
    <3> QED
      BY <3>3
  <2> QED
    BY <2>1, <2>2 DEF FrozenIsOwned
<1>8. MoneyKept'
  <2>1. frozenSum' = frozenSum - frozens[ods[o].key] /\ frozens[ods[o].key] \in Int
    <3>1. PICK k \in Times : k = ods[o].key
      BY <1>2
    <3>2. PICK x \in Int : x = 0
      OBVIOUS
    <3>3. frozens' = [frozens EXCEPT ![k] = x]
      BY <1>5, <3>1, <3>2
    <3>4. frozenSum' = frozenSum + x - frozens[k] /\ frozens[k] \in Int
      BY <1>1, <3>3, FrozenChanged
    <3> QED
      BY <1>1, <3>1, <3>2, <3>4, TotalIs
  <2>2. frozenSum \in Int /\ ava \in Int /\ paid \in Int /\ Deposit \in Int
    BY <1>1, TotalIs, Constants
  <2>3. ava + frozenSum = Deposit + paid
    BY <1>1 DEF MoneyKept, Total
  <2>4. PICK z \in Int : z = frozens[ods[o].key]
    BY <2>1
  <2>5. ava' = ava + z + g /\ paid' = paid + g /\ frozenSum' = frozenSum - z
    BY <1>5, <2>1, <2>4
  <2>6. ava' + frozenSum' = Deposit + paid'
    BY <2>2, <2>3, <2>5
  <2> QED
    BY <2>6 DEF MoneyKept, Total
<1>9. ProfitsAddUp'
  <2>1. ods[o].fee \in Int /\ ods[o].profit \in Int
    BY <1>2, Constants DEF InOutOrder
  <2>2. Share(ods'[o]) - Share(ods[o]) = g
    <3>1. Share(ods'[o]) = g - ods[o].fee
      BY <1>4, <1>5 DEF Share
    <3>2. CASE Open(o)
      BY <2>1, <3>1, <3>2 DEF Share, Open
    <3>3. CASE ~Open(o)
      <4>1. ods[o].amt = 0 /\ ods[o].fee = 0 /\ ods[o].profit = 0
        BY <1>2, <3>3 DEF Fits
      <4>2. Profit(ods[o], p, FeeOf(ods[o].amt)) = ods[o].profit
        BY <4>1 DEF Profit
      <4>3. g = 0
        BY <1>5, <4>1, <4>2
      <4> QED
        BY <3>1, <3>3, <4>1, <4>3 DEF Share, Open
    <3> QED
      BY <3>2, <3>3
  <2>3. Share(ods'[o]) \in Int /\ Share(ods[o]) \in Int
    BY <1>2, <1>3, ClosedFits, ShareInt
  <2>4. Sum(Shares, Len(ods))' = Sum(Shares, Len(ods)) + Share(ods'[o]) - Share(ods[o]) /\ Sum(Shares, Len(ods)) \in Int
    BY <1>1, <1>3, ShareChanged, SharesAre
  <2>5. paid \in Int /\ paid' - paid = g
    BY <1>1, <1>5 DEF TypeOK
  <2>6. Sum(Shares, Len(ods))' - Sum(Shares, Len(ods)) = paid' - paid
    BY <2>2, <2>3, <2>4, <2>5
  <2> QED
    BY <1>1, <2>6, ProfitsSame
<1> QED
  BY <1>6, <1>7, <1>8, <1>9

\* An order without amount neither earns nor pays, open or closed.
LEMMA ShareUnused ==
  ASSUME NEW od \in InOutOrder, Fits(od), od.amt = 0, NEW p \in Prices
  PROVE  Share(od) = 0 /\ Share(Closed(od, p)) = 0
<1>1. od.fee = 0 /\ od.profit = 0
  BY DEF Fits
<1>2. \A z \in Int : - z = 0 - z
  OBVIOUS
<1>3. - od.fee = 0
  <2>1. 0 \in Int /\ 0 - 0 = 0
    OBVIOUS
  <2> QED
    BY <1>1, <1>2, <2>1, Zenon
<1>4. Share(od) = 0
  BY <1>1, <1>3 DEF Share
<1>5. Closed(od, p).status = "FullExit" /\ Closed(od, p).profit = Profit(od, p, FeeOf(od.amt))
  BY ClosedFits
<1>6. Profit(od, p, FeeOf(od.amt)) = 0
  BY <1>1 DEF Profit
<1> QED
  BY <1>4, <1>5, <1>6 DEF Share

LEMMA CloseUnusedMoney ==
  ASSUME OrdersInv, OrdersInv', WalletInv, NEW o \in Ids, NEW p \in Prices, Closes(o, p), ods[o].status = "Init",
         UNCHANGED <<ava, frozens, paid>>, now' = now, phase' \notin {"bomb", "end"} => phase \notin {"bomb", "end"}
  PROVE  KeysApart' /\ FrozenIsOwned' /\ MoneyKept' /\ ProfitsAddUp'
<1>1. ods[o] \in InOutOrder /\ Fits(ods[o]) /\ ods[o].amt = 0 /\ now \in Nat
  BY OrderIs, NowNat DEF OrdersInv, Fits
<1>2. ods'[o] = Closed(ods[o], p) /\ Ids' = Ids /\ Len(ods') = Len(ods) /\ \A q \in Ids \ {o} : ods'[q] = ods[q]
  BY DEF Closes, OnlyOne
<1>3. ods'[o].key = ods[o].key /\ Share(ods'[o]) = Share(ods[o])
  BY <1>1, <1>2, ClosedFits, ShareUnused
<1>4. \A q \in Ids : /\ ods'[q].key = ods[q].key /\ Share(ods'[q]) = Share(ods[q])
                     /\ ods[q].status = "FullEnter" => ods'[q].status = "FullEnter"
  BY <1>2, <1>3
<1>5. now <= now'
  BY <1>1
<1> QED
  BY <1>2, <1>4, <1>5, NothingMoves

\* An order in Init has nothing frozen, for no other order has its key.
LEMMA FillEnterMoney ==
  ASSUME OrdersInv, WalletInv, NEW o \in Ids, NEW p \in Prices, FillEnter(o, p), Ordinary
  PROVE  WalletInv'
<1>1. KeysApart /\ FrozenIsOwned /\ MoneyKept /\ ProfitsAddUp /\ TypeOK
  BY DEF WalletInv, OrdersInv
<1>2. MarginsEntered' /\ BombTakesAll' /\ (phase' \notin {"bomb", "end"} => phase \notin {"bomb", "end"})
  BY OrdinaryKeeps
<1>3. /\ OrdersInv' /\ OnlyOne(o) /\ ods[o].status = "Init"
      /\ \/ Closes(o, p) /\ UNCHANGED wallet /\ now' = now
         \/ /\ ods'[o].status = "FullEnter" /\ ods'[o].key = ods[o].key /\ ods'[o].fee = Fee
            /\ \E c \in Int : ConfirmOdEnter(ods[o].key, c, Fee)
            /\ UNCHANGED <<upol, used, now, phase>>
  BY FillEnterInv
<1>4. CASE Closes(o, p) /\ UNCHANGED wallet /\ now' = now
  <2>1. UNCHANGED <<ava, frozens, paid>>
    BY <1>4 DEF wallet
  <2>2. KeysApart' /\ FrozenIsOwned' /\ MoneyKept' /\ ProfitsAddUp'
    BY <1>2, <1>3, <1>4, <2>1, CloseUnusedMoney
  <2> QED
    BY <1>2, <2>2 DEF WalletInv
<1>5. ASSUME ods'[o].status = "FullEnter", ods'[o].key = ods[o].key, ods'[o].fee = Fee, now' = now,
             NEW c \in Int, ConfirmOdEnter(ods[o].key, c, Fee)
      PROVE  WalletInv'
  <2>1. ods[o] \in InOutOrder /\ Fits(ods[o]) /\ ods[o].amt = 0 /\ ods[o].key \in Times /\ now \in Nat /\ Fee \in Int
    <3>1. ods[o] \in InOutOrder /\ Fits(ods[o]) /\ ods[o].key \in Times /\ now \in Nat
      BY <1>1, OrderIs, NowNat
    <3> QED
      BY <1>3, <3>1, Constants DEF Fits
  <2>2. PICK k \in Times : k = ods[o].key
    BY <2>1
  <2>3. PICK x \in Int : x = c - Fee
    BY <2>1
  <2>4. ava' = ava - c /\ frozens' = [frozens EXCEPT ![k] = x] /\ paid' = paid - Fee
    BY <1>5, <2>2, <2>3 DEF ConfirmOdEnter
  <2>5. Ids' = Ids /\ \A q \in Ids \ {o} : ods'[q] = ods[q]
    BY <1>3 DEF OnlyOne
  <2>6. frozens[k] = 0
    <3>1. SUFFICES ASSUME frozens[k] # 0 PROVE FALSE
      OBVIOUS
    <3>2. PICK q \in entered : ods[q].key = k
      BY <1>1, <3>1 DEF FrozenIsOwned
    <3>3. q \in Ids /\ q # o
      BY <1>3, <3>2 DEF entered
    <3> QED
      BY <1>1, <2>2, <3>2, <3>3 DEF KeysApart
  <2>7. KeysApart'
    BY <1>1, <1>5, <2>1, <2>5, KeysKept
  <2>8. FrozenIsOwned'
    <3>1. Times' = Times
      BY DEF Times, LastTime, BarMS
    <3>2. ASSUME NEW j \in Times, frozens'[j] # 0 PROVE \E q \in entered' : ods'[q].key = j
      <4>1. CASE j = k
        <5>1. o \in entered' /\ ods'[o].key = j
          BY <1>5, <2>2, <2>5, <4>1 DEF entered
        <5> QED
          BY <5>1
      <4>2. CASE j # k
        <5>1. frozens[j] # 0
          BY <1>1, <2>4, <3>2, <4>2 DEF TypeOK
        <5>2. PICK q \in entered : ods[q].key = j
          BY <1>1, <5>1 DEF FrozenIsOwned
        <5>3. q \in entered' /\ ods'[q].key = j
          BY <1>3, <2>5, <5>2 DEF entered
        <5> QED
          BY <5>3
      <4> QED
        BY <4>1, <4>2
    <3> QED
      BY <3>1, <3>2 DEF FrozenIsOwned
  <2>9. MoneyKept'
    <3>1. frozenSum' = frozenSum + x - frozens[k]
      BY <1>1, <2>4, FrozenChanged
    <3>2. frozenSum \in Int /\ ava \in Int /\ paid \in Int /\ Deposit \in Int
      BY <1>1, TotalIs, Constants
    <3>3. ava + frozenSum = Deposit + paid
      BY <1>1 DEF MoneyKept, Total
    <3>4. ava' + frozenSum' = Deposit + paid'
      BY <2>1, <2>3, <2>4, <2>6, <3>1, <3>2, <3>3
    <3> QED
      BY <3>4 DEF MoneyKept, Total
  <2>10. ProfitsAddUp'
    <3>1. Share(ods[o]) = 0 /\ Share(ods'[o]) = - Fee
      BY <1>5, <2>1, ShareUnused DEF Share
    <3>2. Sum(Shares, Len(ods))' = Sum(Shares, Len(ods)) + Share(ods'[o]) - Share(ods[o]) /\ Sum(Shares, Len(ods)) \in Int
      BY <1>1, <1>3, ShareChanged, SharesAre DEF OrdersInv
    <3>3. paid \in Int /\ paid' = paid - Fee
      BY <1>1, <2>4 DEF TypeOK
    <3>4. Sum(Shares, Len(ods))' - Sum(Shares, Len(ods)) = paid' - paid
      BY <2>1, <3>1, <3>2, <3>3
    <3> QED
      BY <1>1, <1>2, <1>3, <3>4, ProfitsSame
  <2> QED
    BY <1>2, <2>7, <2>8, <2>9, <2>10 DEF WalletInv
<1> QED
  BY <1>3, <1>4, <1>5

LEMMA CloseMoney ==
  ASSUME OrdersInv, WalletInv, NEW o \in Ids, NEW p \in Prices, FillExit(o, p) \/ TriggerAll(o, p), Ordinary
  PROVE  WalletInv'
<1>1. MarginsEntered' /\ BombTakesAll' /\ (phase' \notin {"bomb", "end"} => phase \notin {"bomb", "end"})
  BY OrdinaryKeeps
<1>2. OrdersInv' /\ Closes(o, p) /\ (Open(o) \/ ods[o].amt = 0) /\ \E g \in Int : Released(ods[o], p, frozens, g)
  BY FillExitInv, TriggerAllInv DEF Open
<1>3. now' = now
  BY DEF FillExit, TriggerAll
<1>4. KeysApart' /\ FrozenIsOwned' /\ MoneyKept' /\ ProfitsAddUp'
  BY <1>1, <1>2, <1>3, ReleaseMoney
<1> QED
  BY <1>1, <1>4 DEF WalletInv

\* What is set to be exited, passed over or not reached.
LEMMA QuietMoney ==
  ASSUME OrdersInv, WalletInv, NEW o \in Ids, Ordinary,
         ExitOrder(o) \/ NoTrigger(o) \/ PassOver(o) \/ NotReached(o)
  PROVE  WalletInv'
<1>1. MarginsEntered' /\ BombTakesAll' /\ (phase' \notin {"bomb", "end"} => phase \notin {"bomb", "end"})
  BY OrdinaryKeeps
<1>2. now \in Nat /\ ods[o] \in InOutOrder
  BY OrderIs, NowNat DEF OrdersInv
<1>3. now <= now
  BY <1>2
<1>4. CASE ExitOrder(o)
  <2>1. OrdersInv' /\ OnlyOne(o) /\ ods'[o] = [ods[o] EXCEPT !.exitTag = TRUE]
    BY <1>4, ExitOrderInv
  <2>2. ods'[o].key = ods[o].key /\ ods'[o].status = ods[o].status /\ Share(ods'[o]) = Share(ods[o])
    BY <1>2, <2>1 DEF InOutOrder, Share
  <2>3. UNCHANGED <<ava, frozens, paid>> /\ now' = now
    BY <1>4 DEF ExitOrder, wallet
  <2>4. /\ Ids' = Ids /\ Len(ods') = Len(ods)
        /\ \A q \in Ids : /\ ods'[q].key = ods[q].key /\ Share(ods'[q]) = Share(ods[q])
                          /\ ods[q].status = "FullEnter" => ods'[q].status = "FullEnter"
    BY <2>1, <2>2 DEF OnlyOne
  <2> QED
    BY <1>1, <1>3, <2>1, <2>3, <2>4, NothingMoves DEF WalletInv
<1>5. CASE ods' = ods /\ UNCHANGED <<wallet, now>> /\ OrdersInv'
  <2>1. UNCHANGED <<ava, frozens, paid>> /\ Ids' = Ids
    BY <1>5 DEF wallet, Ids
  <2> QED
    BY <1>1, <1>3, <1>5, <2>1, NothingMoves DEF WalletInv
<1>6. CASE Closes(o, price) /\ ods[o].status = "Init" /\ UNCHANGED <<wallet, now>> /\ OrdersInv'
  <2>1. UNCHANGED <<ava, frozens, paid>>
    BY <1>6 DEF wallet
  <2>2. price \in Prices
    BY DEF OrdersInv, TypeOK
  <2> QED
    BY <1>1, <1>6, <2>1, <2>2, CloseUnusedMoney DEF WalletInv
<1>7. CASE NoTrigger(o) \/ PassOver(o)
  BY <1>5, <1>7, NoTriggerInv
<1>8. CASE NotReached(o)
  BY <1>5, <1>6, <1>8, NotReachedInv
<1> QED
  BY <1>4, <1>7, <1>8

LEMMA StartBarMoney ==
  ASSUME OrdersInv, WalletInv, NEW close \in Prices, StartBar(close)
  PROVE  WalletInv'
<1>1. OrdersInv' /\ now < now'
  BY StartBarInv
<1>2. ods' = ods /\ UNCHANGED <<ava, frozens, paid>> /\ phase = "idle" /\ phase' = "fill"
  BY DEF StartBar, wallet
<1>3. (TypeOK => now \in Nat) /\ (TypeOK => now \in Nat)'
  BY NowNat, PTL
<1>4. now <= now' /\ Ids' = Ids
  BY <1>1, <1>2, <1>3 DEF OrdersInv, Ids
<1>5. KeysApart' /\ FrozenIsOwned' /\ MoneyKept' /\ ProfitsAddUp'
  BY <1>1, <1>2, <1>4, NothingMoves
<1>6. MarginsEntered' /\ BombTakesAll'
  BY <1>2 DEF MarginsEntered, BombTakesAll
<1> QED
  BY <1>5, <1>6 DEF WalletInv

LEMMA UpdateProfitsMoney ==
  ASSUME OrdersInv, WalletInv, UpdateProfits
  PROVE  WalletInv'
<1>1. KeysApart /\ FrozenIsOwned /\ MoneyKept /\ ProfitsAddUp /\ TypeOK
  BY DEF WalletInv, OrdersInv
<1>2. /\ OrdersInv' /\ Ids' = Ids /\ Len(ods') = Len(ods) /\ now' = now
      /\ \A o \in Ids : ods'[o] = Marked(ods[o])
      /\ \/ ava' = 0 /\ frozens' = [k \in Times |-> 0] /\ paid' = - Deposit /\ phase' = "bomb"
         \/ phase = "fill" /\ phase' = "margin" /\ todo' = entered /\ UNCHANGED <<ava, frozens, paid>>
  BY UpdateProfitsInv
<1>3. \A o \in Ids : /\ ods'[o].key = ods[o].key /\ Share(ods'[o]) = Share(ods[o])
                     /\ ods'[o].status = ods[o].status
  <2>1. ASSUME NEW o \in Ids
        PROVE Marked(ods[o]).key = ods[o].key /\ Marked(ods[o]).status = ods[o].status /\ Share(Marked(ods[o])) = Share(ods[o])
    <3>1. ods[o] \in InOutOrder
      BY <1>1, IdsAre DEF TypeOK
    <3> QED
      BY <3>1 DEF Marked, InOutOrder, Share
  <2> QED
    BY <1>2, <2>1
<1>4. now \in Nat /\ now <= now
  BY <1>1, TimesAre DEF TypeOK
<1>5. CASE ava' = 0 /\ frozens' = [k \in Times |-> 0] /\ paid' = - Deposit /\ phase' = "bomb"
  <2>1. Times' = Times
    BY DEF Times, LastTime, BarMS
  <2>2. \A k \in Times : frozens'[k] = 0
    BY <1>5
  <2>3. KeysApart'
    BY <1>1, <1>2, <1>3, <1>4, KeysKept
  <2>4. FrozenIsOwned' /\ BombTakesAll'
    BY <2>1, <2>2 DEF FrozenIsOwned, BombTakesAll
  <2>5. MarginsEntered' /\ ProfitsAddUp'
    BY <1>5 DEF MarginsEntered, ProfitsAddUp
  <2>6. MoneyKept'
    <3>1. ((\A k \in Times : frozens[k] = 0) => frozenSum = 0)'
      BY FrozenZero, PTL
    <3>2. frozenSum' = 0
      BY <2>1, <2>2, <3>1
    <3>3. Deposit \in Int
      BY Constants
    <3>4. ava' + frozenSum' = Deposit + paid'
      BY <1>5, <3>2, <3>3
    <3> QED
      BY <3>4 DEF MoneyKept, Total
  <2> QED
    BY <2>3, <2>4, <2>5, <2>6 DEF WalletInv
<1>6. CASE phase = "fill" /\ phase' = "margin" /\ todo' = entered /\ UNCHANGED <<ava, frozens, paid>>
  <2>1. KeysApart' /\ FrozenIsOwned' /\ MoneyKept' /\ ProfitsAddUp'
    BY <1>2, <1>3, <1>4, <1>6, NothingMoves
  <2>2. entered' = entered
    BY <1>2, <1>3 DEF entered
  <2>3. MarginsEntered' /\ BombTakesAll'
    BY <1>6, <2>2 DEF MarginsEntered, BombTakesAll
  <2> QED
    BY <2>1, <2>3 DEF WalletInv
<1> QED
  BY <1>2, <1>5, <1>6

\* A margin is set of an order that is entered, which owns what is frozen for it.
LEMMA UpdateMarginMoney ==
  ASSUME OrdersInv, WalletInv, NEW o \in Ids, UpdateMargin(o)
  PROVE  WalletInv'
<1>1. KeysApart /\ FrozenIsOwned /\ MoneyKept /\ ProfitsAddUp /\ MarginsEntered /\ TypeOK
  BY DEF WalletInv, OrdersInv
<1>2. /\ OrdersInv' /\ UNCHANGED <<ods, paid, now, phase>> /\ phase = "margin" /\ o \in todo /\ todo' = todo \ {o}
      /\ \E x \in Int : ava' = ava - (x - frozens[ods[o].key]) /\ frozens' = [frozens EXCEPT ![ods[o].key] = x]
  BY UpdateMarginInv
<1>3. PICK k \in Times : k = ods[o].key
  BY <1>1, IdsAre DEF TypeOK
<1>4. PICK x \in Int : ava' = ava - (x - frozens[k]) /\ frozens' = [frozens EXCEPT ![k] = x]
  BY <1>2, <1>3
<1>5. Ids' = Ids /\ entered' = entered /\ o \in entered /\ now \in Nat /\ now <= now
  BY <1>1, <1>2, TimesAre DEF Ids, entered, MarginsEntered, TypeOK
<1>6. KeysApart'
  BY <1>1, <1>2, <1>5, KeysKept
<1>7. FrozenIsOwned'
  <2>1. Times' = Times
    BY DEF Times, LastTime, BarMS
  <2>2. ASSUME NEW j \in Times, frozens'[j] # 0 PROVE \E q \in entered' : ods'[q].key = j
    <3>1. CASE j = k
      BY <1>2, <1>3, <1>5, <3>1
    <3>2. CASE j # k
      <4>1. frozens[j] # 0
        BY <1>1, <1>4, <2>2, <3>2 DEF TypeOK
      <4> QED
        BY <1>1, <1>2, <1>5, <4>1 DEF FrozenIsOwned
    <3> QED
      BY <3>1, <3>2
  <2> QED
    BY <2>1, <2>2 DEF FrozenIsOwned
<1>8. MoneyKept'
  <2>1. frozenSum' = frozenSum + x - frozens[k] /\ frozens[k] \in Int
    BY <1>1, <1>4, FrozenChanged
  <2>2. frozenSum \in Int /\ ava \in Int /\ paid \in Int /\ Deposit \in Int
    BY <1>1, TotalIs, Constants
  <2>3. PICK z \in Int : z = frozens[k]
    BY <2>1
  <2>4. ava + frozenSum = Deposit + paid
    BY <1>1 DEF MoneyKept, Total
  <2>5. ava' = ava - (x - z) /\ frozenSum' = frozenSum + x - z /\ paid' = paid
    BY <1>2, <1>4, <2>1, <2>3
  <2>6. ava' + frozenSum' = Deposit + paid'
    BY <2>2, <2>4, <2>5
  <2> QED
    BY <2>6 DEF MoneyKept, Total
<1>9. ProfitsAddUp'
  <2>1. Sum(Shares, Len(ods))' = Sum(Shares, Len(ods)) /\ Sum(Shares, Len(ods)) \in Int /\ paid \in Int
    BY <1>1, <1>2, <1>5, SharesSame, SharesAre DEF TypeOK
  <2>2. Sum(Shares, Len(ods))' - Sum(Shares, Len(ods)) = paid' - paid
    BY <1>2, <2>1
  <2> QED
    BY <1>1, <1>2, <2>2, ProfitsSame
<1>10. MarginsEntered' /\ BombTakesAll'
  BY <1>1, <1>2, <1>5 DEF MarginsEntered, BombTakesAll
<1> QED
  BY <1>6, <1>7, <1>8, <1>9, <1>10 DEF WalletInv

\* What is frozen is gone already; a new deposit starts the account again.
LEMMA OnLiquidationMoney ==
  ASSUME OrdersInv, WalletInv, OnLiquidation
  PROVE  WalletInv'
<1>1. KeysApart /\ FrozenIsOwned /\ MoneyKept /\ BombTakesAll /\ TypeOK
  BY DEF WalletInv, OrdersInv
<1>2. /\ OrdersInv' /\ UNCHANGED <<ods, frozens, now>> /\ phase = "bomb"
      /\ \/ Charge /\ ava' = Deposit /\ paid' = 0 /\ phase' = "idle"
         \/ UNCHANGED <<ava, paid>> /\ phase' = "end"
  BY OnLiquidationInv
<1>3. Ids' = Ids /\ entered' = entered /\ now \in Nat /\ now <= now
  BY <1>1, <1>2, TimesAre DEF Ids, entered, TypeOK
<1>4. KeysApart'
  BY <1>1, <1>2, <1>3, KeysKept
<1>5. FrozenIsOwned'
  BY <1>1, <1>2, <1>3, OwnersKept
<1>6. MarginsEntered' /\ BombTakesAll' /\ ProfitsAddUp'
  BY <1>2 DEF MarginsEntered, BombTakesAll, ProfitsAddUp
<1>7. MoneyKept'
  <2>1. frozenSum = 0 /\ frozenSum' = frozenSum
    BY <1>1, <1>2, FrozenZero DEF BombTakesAll, frozenSum, LastTime, BarMS
  <2>2. Deposit \in Int /\ ava' + frozenSum' = Deposit + paid'
    BY <1>1, <1>2, <2>1, Constants DEF MoneyKept, Total
  <2> QED
    BY <2>2 DEF MoneyKept, Total
<1> QED
  BY <1>4, <1>5, <1>6, <1>7 DEF WalletInv

LEMMA EndBarMoney ==
  ASSUME OrdersInv, WalletInv, EndBar
  PROVE  WalletInv'
<1>1. OrdersInv' /\ UNCHANGED <<ods, wallet, now>> /\ phase = "margin" /\ phase' = "idle"
  BY EndBarInv DEF EndBar
<1>2. UNCHANGED <<ava, frozens, paid>> /\ Ids' = Ids /\ now \in Nat /\ now <= now
  BY <1>1, TimesAre DEF wallet, Ids, OrdersInv, TypeOK
<1>3. KeysApart' /\ FrozenIsOwned' /\ MoneyKept' /\ ProfitsAddUp'
  BY <1>1, <1>2, NothingMoves
<1>4. MarginsEntered' /\ BombTakesAll'
  BY <1>1 DEF MarginsEntered, BombTakesAll
<1> QED
  BY <1>3, <1>4 DEF WalletInv

LEMMA CleanUpMoney ==
  ASSUME OrdersInv, WalletInv, CleanUp
  PROVE  WalletInv'
<1>1. /\ OrdersInv' /\ Ids' = Ids /\ Len(ods') = Len(ods) /\ UNCHANGED <<wallet, now>> /\ phase' \in {"close", "close2"}
      /\ phase \in {"idle", "close"} /\ \A o \in Ids : ods'[o] = [ods[o] EXCEPT !.exitTag = @ \/ Open(o)]
  BY CleanUpInv
<1>2. UNCHANGED <<ava, frozens, paid>> /\ now \in Nat /\ now <= now
  BY <1>1, TimesAre DEF wallet, OrdersInv, TypeOK
<1>3. \A o \in Ids : /\ ods'[o].key = ods[o].key /\ Share(ods'[o]) = Share(ods[o])
                     /\ ods[o].status = "FullEnter" => ods'[o].status = "FullEnter"
  <2>1. ASSUME NEW o \in Ids, NEW b \in BOOLEAN
        PROVE  LET od == [ods[o] EXCEPT !.exitTag = b]
               IN od.key = ods[o].key /\ od.status = ods[o].status /\ Share(od) = Share(ods[o])
    <3>1. ods[o] \in InOutOrder
      BY IdsAre DEF OrdersInv, TypeOK
    <3> QED
      BY <3>1 DEF InOutOrder, Share
  <2>2. \A o \in Ids : ods'[o] = [ods[o] EXCEPT !.exitTag = (ods[o].exitTag \/ Open(o))]
    BY <1>1
  <2>3. \A o \in Ids : (ods[o].exitTag \/ Open(o)) \in BOOLEAN
    OBVIOUS
  <2> QED
    BY <2>1, <2>2, <2>3
<1>4. KeysApart' /\ FrozenIsOwned' /\ MoneyKept' /\ ProfitsAddUp'
  BY <1>1, <1>2, <1>3, NothingMoves
<1>5. MarginsEntered' /\ BombTakesAll'
  BY <1>1 DEF MarginsEntered, BombTakesAll
<1> QED
  BY <1>4, <1>5 DEF WalletInv

LEMMA CleanUpEndMoney ==
  ASSUME OrdersInv, WalletInv, CleanUpEnd
  PROVE  WalletInv'
<1>1. OrdersInv' /\ UNCHANGED <<ods, ava, frozens, paid, now>> /\ phase' = "clean" /\ phase = "close2"
  BY CleanUpEndInv
<1>2. UNCHANGED <<ava, frozens, paid>> /\ Ids' = Ids /\ now \in Nat /\ now <= now
  BY <1>1, TimesAre DEF Ids, OrdersInv, TypeOK
<1>3. KeysApart' /\ FrozenIsOwned' /\ MoneyKept' /\ ProfitsAddUp'
  BY <1>1, <1>2, NothingMoves
<1>4. MarginsEntered' /\ BombTakesAll'
  BY <1>1 DEF MarginsEntered, BombTakesAll
<1> QED
  BY <1>3, <1>4 DEF WalletInv

LEMMA InitMoney == Init => WalletInv
<1> SUFFICES ASSUME Init PROVE WalletInv
  OBVIOUS
<1>1. TypeOK /\ ods = <<>> /\ Ids = {} /\ Len(ods) = 0
  BY InitHolds DEF Init, OrdersInv, Ids
<1>2. \A k \in Times : frozens[k] = 0
  BY DEF Init
<1>3. KeysApart /\ FrozenIsOwned
  BY <1>1, <1>2 DEF KeysApart, FrozenIsOwned
<1>4. MarginsEntered /\ BombTakesAll
  BY DEF Init, MarginsEntered, BombTakesAll
<1>5. MoneyKept
  <2>1. frozenSum = 0 /\ Deposit \in Int
    BY <1>2, FrozenZero, Constants
  <2> QED
    BY <2>1 DEF Init, MoneyKept, Total
<1>6. ProfitsAddUp
  <2>1. CASE Charge
    BY <2>1 DEF ProfitsAddUp
  <2>2. CASE ~Charge
    <3>1. Sum(Shares, 0) = 0
      BY SumZero
    <3>2. Sum(Shares, Len(ods)) = paid
      BY <1>1, <3>1 DEF Init
    <3> QED
      BY <1>1, <2>2, <3>2, SharesAre
  <2> QED
    BY <2>1, <2>2
<1> QED
  BY <1>3, <1>4, <1>5, <1>6 DEF WalletInv

LEMMA NextMoney ==
  ASSUME ~Cuts, OrdersInv, WalletInv, [Next]_vars
  PROVE  WalletInv'
<1>1. CASE UNCHANGED vars
  <2>1. /\ ods' = ods /\ now' = now /\ phase' = phase /\ todo' = todo
        /\ UNCHANGED <<ava, frozens, paid>>
    BY <1>1 DEF vars
  <2>2. OrdersInv' /\ Ids' = Ids /\ entered' = entered /\ now \in Nat /\ now <= now
    BY <2>1, NextHolds, TimesAre DEF Ids, entered, OrdersInv, TypeOK
  <2>3. KeysApart' /\ FrozenIsOwned' /\ MoneyKept' /\ ProfitsAddUp'
    BY <2>1, <2>2, NothingMoves
  <2>4. MarginsEntered' /\ BombTakesAll'
    BY <2>1, <2>2 DEF WalletInv, MarginsEntered, BombTakesAll, Times, LastTime, BarMS
  <2> QED
    BY <2>3, <2>4 DEF WalletInv
<1>2. ASSUME NEW dir \in {1, -1}, NEW stop \in BOOLEAN, EnterOrder(dir, stop) PROVE WalletInv'
  <2>1. Ordinary
    BY <1>2 DEF EnterOrder, Called, Filling, Ordinary
  <2> QED
    BY <1>2, <2>1, EnterOrderMoney
<1>3. ASSUME NEW o \in Ids, ExitOrder(o) \/ NoTrigger(o) \/ NotReached(o) \/ PassOver(o) PROVE WalletInv'
  <2>1. PICK p : p \in Prices
    BY ConstantsAssumption
  <2>2. Ordinary
    BY <1>3, <2>1, OrdinaryIs
  <2> QED
    BY <1>3, <2>2, QuietMoney
<1>4. ASSUME NEW o \in Ids, NEW p \in Prices, FillEnter(o, p) \/ FillExit(o, p) \/ TriggerAll(o, p) PROVE WalletInv'
  <2>1. Ordinary
    BY <1>4, OrdinaryIs
  <2> QED
    BY <1>4, <2>1, FillEnterMoney, CloseMoney
<1>5. ASSUME NEW o \in Ids, NEW p \in Prices, TriggerPart(o, p) PROVE FALSE
  BY <1>5 DEF TriggerPart, Cuttable
<1>6. ASSUME NEW o \in Ids, ExitPart(o) PROVE FALSE
  BY <1>6 DEF ExitPart, Cuttable
<1>7. ASSUME NEW close \in Prices, StartBar(close) PROVE WalletInv'
  BY <1>7, StartBarMoney
<1>8. ASSUME NEW o \in Ids, UpdateMargin(o) PROVE WalletInv'
  BY <1>8, UpdateMarginMoney
<1>9. CASE UpdateProfits \/ EndBar \/ OnLiquidation \/ CleanUp \/ CleanUpEnd
  BY <1>9, UpdateProfitsMoney, EndBarMoney, OnLiquidationMoney, CleanUpMoney, CleanUpEndMoney
<1> QED
  BY <1>1, <1>2, <1>3, <1>4, <1>5, <1>6, <1>7, <1>8, <1>9 DEF Next, Strategy, FillPendingOrders

(* While orders are exited whole the wallet keeps its invariant: keys, owners  *)
(* of frozen money, and the books.  Exits in part break it, which the run      *)
(* LocalOrderKeys shows.                                                       *)
THEOREM WalletInvariant == ~Cuts => (Spec => [](OrdersInv /\ WalletInv))
<1>1. ASSUME ~Cuts PROVE Spec => [](OrdersInv /\ WalletInv)
  <2>1. Init => OrdersInv /\ WalletInv
    BY InitHolds, InitMoney
  <2>2. (OrdersInv /\ WalletInv) /\ [Next]_vars => (OrdersInv /\ WalletInv)'
    BY <1>1, NextHolds, NextMoney
  <2> QED
    BY <2>1, <2>2, PTL DEF Spec
<1> QED
  BY <1>1

(* No entry, exit, margin or liquidation makes or loses money (ConfirmOdEnter, *)
(* ConfirmOdExit, SetMargin and onLiquidation).                                *)
THEOREM MoneyIsConserved == ~Cuts => (Spec => []MoneyConserved)
<1>1. ASSUME ~Cuts PROVE Spec => []MoneyConserved
  <2>1. OrdersInv /\ WalletInv => MoneyConserved
    BY DEF WalletInv, MoneyKept, MoneyConserved
  <2>2. Spec => [](OrdersInv /\ WalletInv)
    BY <1>1, WalletInvariant
  <2> QED
    BY <2>1, <2>2, PTL
<1> QED
  BY <1>1

\* No money stays frozen under the key of an order that is closed.
THEOREM FrozenHasOwner == ~Cuts => (Spec => []FrozenIsOwned)
<1>1. ASSUME ~Cuts PROVE Spec => []FrozenIsOwned
  <2>1. OrdersInv /\ WalletInv => FrozenIsOwned
    BY DEF WalletInv
  <2>2. Spec => [](OrdersInv /\ WalletInv)
    BY <1>1, WalletInvariant
  <2> QED
    BY <2>1, <2>2, PTL
<1> QED
  BY <1>1

\* The wallet keys of the open orders differ, for the clock moves on after each entry.
THEOREM NoKeyTwice == ~Cuts => (Spec => []KeysDiffer)
<1>1. ASSUME ~Cuts PROVE Spec => []KeysDiffer
  <2>1. OrdersInv /\ WalletInv => KeysDiffer
    BY DEF WalletInv, KeysApart, KeysDiffer, openOds
  <2>2. Spec => [](OrdersInv /\ WalletInv)
    BY <1>1, WalletInvariant
  <2> QED
    BY <2>1, <2>2, PTL
<1> QED
  BY <1>1

\* The profits the orders report are what the exchange paid.
THEOREM ReportedIsPaid == ~Cuts => (Spec => []ProfitsAddUp)
<1>1. ASSUME ~Cuts PROVE Spec => []ProfitsAddUp
  <2>1. OrdersInv /\ WalletInv => ProfitsAddUp
    BY DEF WalletInv
  <2>2. Spec => [](OrdersInv /\ WalletInv)
    BY <1>1, WalletInvariant
  <2> QED
    BY <2>1, <2>2, PTL
<1> QED
  BY <1>1

(* CleanUp leaves no order open, though its callbacks open some, and no money  *)
(* frozen.                                                                     *)
THEOREM CleanUpLeavesNothing == ~Cuts => (Spec => []CleanUpClosesAll)
<1>1. ASSUME ~Cuts PROVE Spec => []CleanUpClosesAll
  <2>1. ASSUME OrdersInv, WalletInv, phase = "clean" PROVE openOds = {} /\ ava = Deposit + paid
    <3>1. openOds = {}
      BY <2>1 DEF OrdersInv, LastPass
    <3>2. entered = {}
      BY <3>1 DEF openOds, Open, entered
    <3>3. frozenSum = 0
      BY <2>1, <3>2, FrozenZero DEF WalletInv, FrozenIsOwned
    <3>4. ava \in Int
      BY <2>1 DEF OrdersInv, TypeOK
    <3>5. ava = Deposit + paid
      BY <2>1, <3>3, <3>4 DEF WalletInv, MoneyKept, Total
    <3> QED
      BY <3>1, <3>5
  <2>2. OrdersInv /\ WalletInv => CleanUpClosesAll
    BY <2>1 DEF CleanUpClosesAll
  <2>3. Spec => [](OrdersInv /\ WalletInv)
    BY <1>1, WalletInvariant
  <2> QED
    BY <2>2, <2>3, PTL
<1> QED
  BY <1>1
=============================================================================
