-------------------------- MODULE OrderStoreProofs --------------------------
(* Theorems about OrderStore, for every value of its constants. *)
EXTENDS OrderStore, FiniteSetTheorems, SequenceTheorems, TLAPS

LEMMA ConstantsType ==
  /\ Cardinality(Orders) \in Nat /\ Cardinality(Handlers) \in Nat
  /\ MaxRows \in Nat /\ MaxObjs \in Nat /\ MaxCrash \in Nat
  /\ Mutexes \subseteq Nat \ {0} /\ 0 \in Ids /\ Ids = 0 .. MaxRows
<1>1. Cardinality(Orders) \in Nat /\ Cardinality(Handlers) \in Nat
  BY ConstantsAssumption, FS_CardinalityType
<1>2. MaxRows \in Nat
  <2>1. MaxObjs \in Nat /\ MaxCrash + 1 \in Nat
    BY ConstantsAssumption
  <2>2. 2 * MaxObjs \in Nat
    BY <2>1
  <2>3. ASSUME NEW a \in Nat, NEW b \in Nat
        PROVE  a * b \in Nat
    BY <2>3
  <2> QED
    BY <2>1, <2>2, <2>3 DEF MaxRows
<1> QED
  BY <1>1, <1>2, ConstantsAssumption DEF Mutexes, Ids

LEMMA ProcsDiffer ==
  /\ "strategy" \in Procs /\ "sweep" \in Procs /\ Handlers \subseteq Procs
  /\ "strategy" \notin Handlers /\ "sweep" \notin Handlers
BY ConstantsAssumption DEF Procs

LEMMA IdleType == Idle \in Proc
BY ConstantsType DEF Idle, Proc, Parts

\* A mutex is left for a lock that is not in the table, whoever waits or holds.
LEMMA NewMutexType ==
  ASSUME TypeOK, NEW k \in Orders, lockOds[k] = 0
  PROVE  /\ NewMutex \in Mutexes
         /\ \A c \in Orders : lockOds[c] # NewMutex
         /\ \A p \in Handlers : procs[p].mutex # NewMutex
<1> DEFINE n == Cardinality(Orders) + Cardinality(Handlers)
           inTable == {lockOds[c] : c \in Orders}
           held == [p \in Handlers |-> procs[p].mutex]
           inHands == {held[p] : p \in Handlers}
<1>1. n \in Nat
  BY ConstantsType
<1>2. IsFiniteSet(inTable) /\ Cardinality(inTable) <= Cardinality(Orders)
  <2>1. lockOds \in Surjection(Orders, inTable)
    BY DEF TypeOK, Surjection
  <2> QED
    BY <2>1, FS_Surjection, ConstantsAssumption
<1>3. IsFiniteSet(inHands) /\ Cardinality(inHands) <= Cardinality(Handlers)
  <2>1. held \in Surjection(Handlers, inHands)
    BY DEF Surjection
  <2> QED
    BY <2>1, FS_Surjection, ConstantsAssumption
<1>4. IsFiniteSet(inTable \cup inHands) /\ Cardinality(inTable \cup inHands) <= n
  <2>1. Cardinality(inTable \cap inHands) \in Nat
    BY <1>2, FS_Intersection, FS_CardinalityType
  <2>2. Cardinality(inTable) \in Nat /\ Cardinality(inHands) \in Nat
    BY <1>2, <1>3, FS_CardinalityType
  <2>3. /\ IsFiniteSet(inTable \cup inHands)
        /\ Cardinality(inTable \cup inHands)
             = Cardinality(inTable) + Cardinality(inHands) - Cardinality(inTable \cap inHands)
    BY <1>2, <1>3, FS_Union
  <2> QED
    BY <1>2, <1>3, <2>1, <2>2, <2>3, ConstantsType
<1>5. Cardinality(0 .. n) = n + 1
  BY <1>1, FS_Interval
<1>6. PICK m \in 0 .. n : m \notin inTable \cup inHands
  <2>1. ASSUME 0 .. n \subseteq inTable \cup inHands
        PROVE  FALSE
    <3>1. Cardinality(0 .. n) <= Cardinality(inTable \cup inHands)
      BY <1>4, <2>1, FS_Subset
    <3>2. Cardinality(inTable \cup inHands) \in Nat
      BY <1>4, FS_CardinalityType
    <3> QED
      BY <1>1, <1>4, <1>5, <3>1, <3>2
  <2> QED
    BY <2>1
<1>7. m # 0 /\ m \in Mutexes
  BY <1>1, <1>6 DEF Mutexes
<1>8. (\A c \in Orders : lockOds[c] # m) /\ (\A p \in Handlers : procs[p].mutex # m)
  BY <1>6
<1> QED
  BY <1>7, <1>8 DEF NewMutex

\* The rows of S in some order, each once.
LEMMA SetToSeqOnto ==
  ASSUME NEW T, NEW S \in SUBSET T, IsFiniteSet(S)
  PROVE  /\ SetToSeq(S) \in Seq(T) /\ Len(SetToSeq(S)) = Cardinality(S)
         /\ \A n \in 1 .. Cardinality(S) : SetToSeq(S)[n] \in S
         /\ \A x \in S : \E n \in 1 .. Cardinality(S) : SetToSeq(S)[n] = x
<1> DEFINE n == Cardinality(S)
           f == SetToSeq(S)
<1>1. n \in Nat /\ ExistsBijection(1 .. n, S)
  BY FS_CardinalityType
<1>2. \E g \in [1 .. n -> S] : IsInjective(g)
  BY <1>1 DEF ExistsBijection, Bijection, Injection
<1>3. f \in [1 .. n -> S] /\ IsInjective(f)
  BY <1>2 DEF SetToSeq
<1>4. f \in Injection(1 .. n, S)
  BY <1>3 DEF Injection
<1>5. IsFiniteSet(1 .. n) /\ Cardinality(1 .. n) = n
  BY <1>1, FS_Interval
<1>6. f \in Surjection(1 .. n, S)
  BY <1>4, <1>5, FS_Injection
<1>7. f \in Seq(T) /\ Len(f) = n
  BY <1>1, <1>3
<1> QED
  BY <1>3, <1>6, <1>7 DEF Surjection

\* One pair for an index: what is loaded is a part of a function.
OnePerRow(S) == \A s, t \in S : s[1] = t[1] => s = t

LEMMA RowsFinite ==
  ASSUME NEW X, NEW S \in SUBSET ((1 .. MaxRows) \X X), OnePerRow(S)
  PROVE  IsFiniteSet(S)
<1> DEFINE f == [s \in S |-> s[1]]
<1>1. f \in Injection(S, 1 .. MaxRows)
  BY DEF Injection, IsInjective, OnePerRow
<1>2. IsFiniteSet(1 .. MaxRows)
  BY ConstantsType, FS_Interval
<1> QED
  BY <1>1, <1>2, FS_Injection

OpenRow == [key : Orders, status : {1, 2}, filled : -1 .. 1, exit : BOOLEAN]

LEMMA LoadedType ==
  ASSUME NEW i \in 1 .. MaxRows, NEW r \in OpenRow
  PROVE  /\ Loaded(i, r) \in InOutOrder /\ Loaded(i, r).key = r.key /\ Loaded(i, r).id = i
         /\ Loaded(i, r).status = r.status /\ Loaded(i, r).exit = r.exit
BY ConstantsType DEF Loaded, InOutOrder, OpenRow, Row

LEMMA SeqOfFunction ==
  ASSUME NEW X, NEW n \in Nat, NEW f \in [1 .. n -> X]
  PROVE  f \in Seq(X) /\ Len(f) = n
OBVIOUS

LEMMA LoadAll ==
  ASSUME NEW S \in SUBSET ((1 .. MaxRows) \X OpenRow), OnePerRow(S),
         NEW mem \in Seq(InOutOrder), NEW map \in [Ids -> 0 .. MaxObjs],
         Len(mem) + Cardinality(S) <= MaxObjs, Load(S, mem, map)
  PROVE  /\ objs' \in Seq(InOutOrder) /\ Len(objs') = Len(mem) + Cardinality(S)
         /\ Cardinality(S) \in Nat
         /\ \A o \in 1 .. Len(mem) : objs'[o] = mem[o]
         /\ \A o \in Len(mem) + 1 .. Len(objs') : \E s \in S : objs'[o] = Loaded(s[1], s[2]) /\ openOds'[s[1]] = o
         /\ openOds' \in [Ids -> 0 .. MaxObjs]
         /\ \A s \in S : /\ openOds'[s[1]] \in Len(mem) + 1 .. Len(objs')
                         /\ objs'[openOds'[s[1]]] = Loaded(s[1], s[2])
         /\ \A i \in Ids : (\A s \in S : s[1] # i) => openOds'[i] = map[i]
<1> DEFINE T == (1 .. MaxRows) \X OpenRow
           new == SetToSeq(S)
           n == Cardinality(S)
           Pos(i) == CHOOSE j \in DOMAIN new : new[j][1] = i
           added == [j \in DOMAIN new |-> Loaded(new[j][1], new[j][2])]
<1>0. IsFiniteSet(S) /\ n \in Nat
  BY RowsFinite, FS_CardinalityType
<1>1. /\ new \in Seq(T) /\ Len(new) = n /\ DOMAIN new = 1 .. n
      /\ \A j \in 1 .. n : new[j] \in S
      /\ \A x \in S : \E j \in 1 .. n : new[j] = x
  <2>1. S \in SUBSET T
    OBVIOUS
  <2> HIDE DEF T
  <2>2. /\ new \in Seq(T) /\ Len(new) = n
        /\ \A j \in 1 .. n : new[j] \in S
        /\ \A x \in S : \E j \in 1 .. n : new[j] = x
    BY <1>0, <2>1, SetToSeqOnto, SMTT(30)
  <2>3. DOMAIN new = 1 .. n
    BY <2>2
  <2> QED
    BY <2>2, <2>3
<1>2. objs' = mem \o added
  BY DEF Load
<1>3. openOds' = [i \in Ids |-> IF i \in {s[1] : s \in S} THEN Len(mem) + Pos(i) ELSE map[i]]
  BY DEF Load
<1> HIDE DEF new
<1>4. \A j \in 1 .. n : Loaded(new[j][1], new[j][2]) \in InOutOrder
  BY <1>1, LoadedType
<1>5. added \in Seq(InOutOrder) /\ Len(added) = n /\ \A j \in 1 .. n : added[j] = Loaded(new[j][1], new[j][2])
  <2>1. added \in [1 .. n -> InOutOrder] /\ \A j \in 1 .. n : added[j] = Loaded(new[j][1], new[j][2])
    BY <1>1, <1>4
  <2> HIDE DEF added
  <2> QED
    BY <1>0, <2>1, SeqOfFunction
<1>6. Len(mem) \in Nat
  OBVIOUS
<1> HIDE DEF added, n
<1>7. /\ objs' \in Seq(InOutOrder) /\ Len(objs') = Len(mem) + n
      /\ \A o \in 1 .. Len(mem) + n : objs'[o] = IF o <= Len(mem) THEN mem[o] ELSE added[o - Len(mem)]
  BY <1>2, <1>5, ConcatProperties
<1>8. \A s \in S : Pos(s[1]) \in 1 .. n /\ new[Pos(s[1])] = s
  <2> TAKE s \in S
  <2>1. \E j \in DOMAIN new : new[j][1] = s[1]
    BY <1>1
  <2>2. Pos(s[1]) \in 1 .. n /\ new[Pos(s[1])][1] = s[1]
    BY <1>1, <2>1
  <2> QED
    BY <1>1, <2>2 DEF OnePerRow
<1> HIDE DEF Pos
<1>9. \A j \in 1 .. n : openOds'[new[j][1]] = Len(mem) + Pos(new[j][1])
  BY <1>1, <1>3 DEF Ids
<1>10. \A s \in S : openOds'[s[1]] = Len(mem) + Pos(s[1])
  BY <1>3 DEF Ids
<1>11. \A j \in 1 .. n : Pos(new[j][1]) = j
  <2>1. IsInjective(new)
    <3>1. new \in [1 .. n -> S]
      BY <1>1
    <3>2. new \in Surjection(1 .. n, S)
      BY <1>1, <3>1 DEF Surjection
    <3>3. IsFiniteSet(1 .. n) /\ Cardinality(1 .. n) = Cardinality(S)
      BY <1>0, FS_Interval DEF n
    <3> QED
      BY <1>0, <3>2, <3>3, FS_Surjection DEF Injection
  <2> TAKE j \in 1 .. n
  <2>2. new[Pos(new[j][1])] = new[j] /\ Pos(new[j][1]) \in 1 .. n
    BY <1>1, <1>8
  <2> QED
    BY <1>1, <2>1, <2>2, SMTT(40) DEF IsInjective
<1>12. ASSUME NEW o \in Len(mem) + 1 .. Len(objs')
       PROVE  \E s \in S : objs'[o] = Loaded(s[1], s[2]) /\ openOds'[s[1]] = o
  <2>1. o - Len(mem) \in 1 .. n /\ o > Len(mem) /\ o \in 1 .. Len(mem) + n
    BY <1>0, <1>6, <1>7 DEF n
  <2>2. objs'[o] = added[o - Len(mem)]
    BY <1>6, <1>7, <2>1
  <2>3. Len(mem) + (o - Len(mem)) = o
    BY <1>6, <2>1
  <2>4. objs'[o] = Loaded(new[o - Len(mem)][1], new[o - Len(mem)][2]) /\ new[o - Len(mem)] \in S
    BY <1>1, <1>5, <2>1, <2>2
  <2>5. openOds'[new[o - Len(mem)][1]] = o
    BY <1>9, <1>11, <2>1, <2>3
  <2> QED
    BY <2>4, <2>5
<1>13. ASSUME NEW s \in S
       PROVE  /\ openOds'[s[1]] \in Len(mem) + 1 .. Len(objs')
              /\ objs'[openOds'[s[1]]] = Loaded(s[1], s[2])
  <2>1. openOds'[s[1]] \in Len(mem) + 1 .. Len(mem) + n /\ openOds'[s[1]] - Len(mem) = Pos(s[1])
    BY <1>0, <1>6, <1>8, <1>10 DEF n
  <2>2. objs'[openOds'[s[1]]] = added[Pos(s[1])]
    BY <1>0, <1>6, <1>7, <2>1 DEF n
  <2> QED
    BY <1>5, <1>7, <1>8, <2>1, <2>2
<1>14. openOds' \in [Ids -> 0 .. MaxObjs]
  <2>1. \A i \in Ids : i \in {s[1] : s \in S} => Len(mem) + Pos(i) \in 0 .. MaxObjs
    BY <1>0, <1>6, <1>8, ConstantsType, SMTT(40) DEF n
  <2> QED
    BY <1>3, <2>1
<1>15. \A i \in Ids : (\A s \in S : s[1] # i) => openOds'[i] = map[i]
  BY <1>3
<1>16. \A o \in 1 .. Len(mem) : objs'[o] = mem[o]
  BY <1>0, <1>6, <1>7 DEF n
<1>17. Len(objs') = Len(mem) + Cardinality(S) /\ Cardinality(S) \in Nat
  BY <1>0, <1>7 DEF n
<1> QED
  BY <1>7, <1>12, <1>13, <1>14, <1>15, <1>16, <1>17
\* What LoadAll says, as one predicate.
Adds(S, mem, map) ==
  /\ objs' \in Seq(InOutOrder) /\ Len(objs') = Len(mem) + Cardinality(S)
  /\ Cardinality(S) \in Nat
  /\ \A o \in 1 .. Len(mem) : objs'[o] = mem[o]
  /\ \A o \in Len(mem) + 1 .. Len(objs') : \E s \in S : objs'[o] = Loaded(s[1], s[2]) /\ openOds'[s[1]] = o
  /\ openOds' \in [Ids -> 0 .. MaxObjs]
  /\ \A s \in S : openOds'[s[1]] \in Len(mem) + 1 .. Len(objs')
  /\ \A i \in Ids : (\A s \in S : s[1] # i) => openOds'[i] = map[i]

LEMMA LoadAdds ==
  ASSUME NEW S \in SUBSET ((1 .. MaxRows) \X OpenRow), OnePerRow(S),
         NEW mem \in Seq(InOutOrder), NEW map \in [Ids -> 0 .. MaxObjs],
         Len(mem) + Cardinality(S) <= MaxObjs, Load(S, mem, map)
  PROVE  Adds(S, mem, map)
<1>1. /\ objs' \in Seq(InOutOrder) /\ Len(objs') = Len(mem) + Cardinality(S)
      /\ Cardinality(S) \in Nat /\ openOds' \in [Ids -> 0 .. MaxObjs]
  BY LoadAll
<1>2. \A o \in 1 .. Len(mem) : objs'[o] = mem[o]
  BY LoadAll
<1>3. \A o \in Len(mem) + 1 .. Len(objs') : \E s \in S : objs'[o] = Loaded(s[1], s[2]) /\ openOds'[s[1]] = o
  BY LoadAll
<1>4. \A s \in S : openOds'[s[1]] \in Len(mem) + 1 .. Len(objs')
  BY LoadAll
<1>5. ASSUME NEW i \in Ids, \A s \in S : s[1] # i
      PROVE  openOds'[i] = map[i]
  <2>1. i \notin {s[1] : s \in S}
    BY <1>5
  <2> QED
    BY <2>1 DEF Load
<1> QED
  BY <1>1, <1>2, <1>3, <1>4, <1>5 DEF Adds

----------------------------------------------------------------------------
(* Where the goroutines and the map point, and what the database knows *)

Live(p) == procs[p].pc # "idle"
AtMain(p) == At(p, "main") \/ (At(p, "exec") /\ procs[p].part = "main")
PastMain(p) == procs[p].pc \in {"enter", "exit"} \/ (At(p, "exec") /\ procs[p].part # "main")
Empty ==
  /\ objs = <<>> /\ snap = {} /\ todo = {}
  /\ procs = [p \in Procs |-> Idle] /\ openOds = [i \in Ids |-> 0]

Places ==
  /\ \A p \in Procs : Live(p) => procs[p].od \in Objs
  /\ \A p \in Procs : ~ Live(p) => procs[p] = Idle
  /\ \A i \in Ids : openOds[i] # 0 => openOds[i] \in Objs
  /\ ~ up => Empty

\* The row of id i is a row of the order k, and no restart deleted it.
RowOf(i, k) == i \in DOMAIN rows /\ rows[i].key = k /\ rows[i].status # 0

ObjKnown(o) == objs[o].id # 0 => RowOf(objs[o].id, objs[o].key)
ProcKnown(p) ==
  /\ PastMain(p) \/ (procs[p].pc \in {"main", "exec"} /\ ~ procs[p].add) => Od(p).id # 0
  /\ At(p, "exec") =>
       /\ procs[p].part = "main" => procs[p].status # 0
       /\ PastMain(p) \/ ~ procs[p].add => RowOf(procs[p].id, Od(p).key)
SnapKnown ==
  /\ OnePerRow(snap)
  /\ \A s \in snap : s[2] \in OpenRow /\ RowOf(s[1], s[2].key)
RowsKnown ==
  (\A o \in Objs : ObjKnown(o)) /\ (\A p \in Procs : ProcKnown(p)) /\ SnapKnown

\* The entry of k has its row: a restart keeps the order.
Stored(k) == \E i \in DOMAIN rows : RowOf(i, k) /\ rows[i].filled # -1
Saving == procs["strategy"].pc \in Parts \cup {"exec", "remap", "after"}
PastEnter ==
  procs["strategy"].pc \in {"exit", "remap", "after"}
    \/ (At("strategy", "exec") /\ procs["strategy"].part = "exit")

\* Before the first Save only the strategy has the new order.
NewIsOwn ==
  At("strategy", "save") /\ ~ Od("strategy").exit =>
    /\ Od("strategy").id = 0 /\ procs["strategy"].od \notin todo \cup Mapped
    /\ \A p \in Procs \ {"strategy"} : procs[p].od # procs["strategy"].od
    /\ \A r \in Requests : <<Od("strategy").key, r>> \notin sent
EntryIsSaved ==
  Saving /\ ~ Od("strategy").exit /\ ~ procs["strategy"].err =>
    procs["strategy"].add /\ (PastEnter => Stored(Od("strategy").key))
SentHasRow ==
  /\ \A k \in Orders, r \in Requests : <<k, r>> \in sent => \E i \in DOMAIN rows : rows[i].key = k
  /\ Saving /\ ~ AtMain("strategy") /\ ~ procs["strategy"].err =>
       \E i \in DOMAIN rows : rows[i].key = Od("strategy").key

IInv ==
  TypeOK /\ Places /\ RowsKnown /\ NewIsOwn /\ EntryIsSaved /\ SentHasRow /\ SubmittedIsStored
----------------------------------------------------------------------------
(* Type correctness, action by action *)

LEMMA Types ==
  ASSUME TypeOK
  PROVE  /\ \A o \in Objs : objs[o] \in InOutOrder
         /\ \A i \in DOMAIN rows : rows[i] \in Row
         /\ Objs = 1 .. Len(objs) /\ DOMAIN rows = 1 .. Len(rows) /\ Len(objs) \in Nat /\ Len(rows) \in Nat
         /\ DOMAIN rows \subseteq Ids \ {0} /\ Objs \subseteq (0 .. MaxObjs) \ {0}
         /\ \A p \in Procs : procs[p] \in Proc
BY ConstantsType DEF TypeOK, Objs

LEMMA SaveMapType ==
  ASSUME TypeOK, Places, NEW p \in Procs, SaveMap(p)
  PROVE  TypeOK'
<1>1. procs[p].od \in Objs /\ Od(p) \in InOutOrder /\ procs[p] \in Proc
  BY Types DEF Places, SaveMap, At, Live, Od
<1>2. procs[p].od \in 0 .. MaxObjs /\ Od(p).id \in Ids /\ Od(p).key \in Orders /\ (Od(p).id = 0) \in BOOLEAN
  BY <1>1 DEF InOutOrder, Proc
<1>3. [procs[p] EXCEPT !.pc = "main", !.old = Od(p).id, !.add = Od(p).id = 0] \in Proc
  BY <1>1, <1>2 DEF Proc, Parts
<1>4. openOds' \in [Ids -> 0 .. MaxObjs]
  BY <1>2, ConstantsType DEF SaveMap, TypeOK
<1>5. lockOds' \in [Orders -> Mutexes \cup {0}]
  BY <1>2 DEF SaveMap, TypeOK
<1>6. procs' \in [Procs -> Proc]
  BY <1>3 DEF SaveMap, TypeOK
<1> QED
  BY <1>4, <1>5, <1>6 DEF SaveMap, TypeOK, Objs

LEMMA CaptureType ==
  ASSUME TypeOK, Places, NEW p \in Procs, Capture(p)
  PROVE  TypeOK'
<1>1. procs[p].od \in Objs /\ Od(p) \in InOutOrder /\ procs[p] \in Proc /\ procs[p].pc \in Parts
  BY Types DEF Places, Capture, Live, Od, Parts
<1>2. Od(p).id \in Ids /\ Od(p).status \in 0 .. 3 /\ Od(p).filled \in 0 .. 1
  BY <1>1 DEF InOutOrder
<1>3. [procs[p] EXCEPT !.pc = "exec", !.part = procs[p].pc, !.id = Od(p).id,
                       !.status = Od(p).status, !.filled = Od(p).filled] \in Proc
  BY <1>1, <1>2 DEF Proc
<1>4. [procs[p] EXCEPT !.pc = Following[procs[p].pc]] \in Proc
  BY <1>1 DEF Proc, Following, Parts
<1>5. procs' \in [Procs -> Proc]
  BY <1>3, <1>4 DEF Capture, TypeOK, Goto
<1> QED
  BY <1>5 DEF Capture, TypeOK, Objs

\* The statement has been executed, or it failed.
LEMMA AfterExecType ==
  ASSUME NEW i \in Proc, NEW pc \in {"enter", "exit", "remap"}
  PROVE  /\ [i EXCEPT !.pc = pc, !.part = "main", !.id = 0, !.status = 0, !.filled = 0] \in Proc
         /\ [i EXCEPT !.pc = pc, !.part = "main", !.id = 0, !.status = 0, !.filled = 0,
                      !.err = TRUE] \in Proc
<1>1. ASSUME NEW id \in Ids, NEW status \in 0 .. 3, NEW filled \in 0 .. 1
      PROVE  [i EXCEPT !.pc = pc, !.part = "main", !.id = id, !.status = status, !.filled = filled] \in Proc
  BY DEF Proc, Parts
<1>2. ASSUME NEW id \in Ids, NEW status \in 0 .. 3, NEW filled \in 0 .. 1
      PROVE  [i EXCEPT !.pc = pc, !.part = "main", !.id = id, !.status = status, !.filled = filled,
                       !.err = TRUE] \in Proc
  BY DEF Proc, Parts
<1>3. 0 \in Ids /\ 0 \in 0 .. 3 /\ 0 \in 0 .. 1
  BY ConstantsType
<1> QED
  BY <1>1, <1>2, <1>3, Zenon

\* What a statement leaves in the object.
LEMMA SavedType ==
  ASSUME NEW od \in InOutOrder, NEW id \in Ids, NEW added \in BOOLEAN
  PROVE  /\ [od EXCEPT !.id = id, !.dirtyMain = FALSE] \in InOutOrder
         /\ [od EXCEPT !.dirtyMain = FALSE] \in InOutOrder
         /\ [od EXCEPT !.enterID = added, !.dirtyEnter = FALSE] \in InOutOrder
         /\ [od EXCEPT !.exitID = TRUE, !.dirtyExit = FALSE] \in InOutOrder
<1>1. [od EXCEPT !.id = id, !.dirtyMain = FALSE] \in InOutOrder
  BY DEF InOutOrder
<1>2. [od EXCEPT !.dirtyMain = FALSE] \in InOutOrder
  BY DEF InOutOrder
<1>3. [od EXCEPT !.enterID = added, !.dirtyEnter = FALSE] \in InOutOrder
  BY DEF InOutOrder
<1>4. [od EXCEPT !.exitID = TRUE, !.dirtyExit = FALSE] \in InOutOrder
  BY DEF InOutOrder
<1> QED
  BY <1>1, <1>2, <1>3, <1>4

LEMMA RowsSavedType ==
  ASSUME TypeOK, NEW i \in Ids, NEW status \in 0 .. 3, NEW filled \in 0 .. 1,
         \/ rows' = [rows EXCEPT ![i].status = status]
         \/ rows' = [rows EXCEPT ![i].filled = filled]
         \/ rows' = [rows EXCEPT ![i].exit = TRUE]
         \/ rows' = rows
  PROVE  rows' \in Seq(Row) /\ Len(rows') = Len(rows) /\ DOMAIN rows' = DOMAIN rows
<1>1. ASSUME NEW new, new \in Row, rows' = [rows EXCEPT ![i] = new], i \in DOMAIN rows
      PROVE  rows' \in Seq(Row) /\ Len(rows') = Len(rows) /\ DOMAIN rows' = DOMAIN rows
  BY <1>1, Types DEF TypeOK
<1>2. CASE i \in DOMAIN rows
  <2>1. rows[i] \in Row
    BY <1>2, Types
  <2>2. [rows[i] EXCEPT !.status = status] \in Row
    BY <2>1 DEF Row
  <2>3. [rows[i] EXCEPT !.filled = filled] \in Row
    BY <2>1 DEF Row
  <2>4. [rows[i] EXCEPT !.exit = TRUE] \in Row
    BY <2>1 DEF Row
  <2> QED
    BY <1>1, <1>2, <2>2, <2>3, <2>4 DEF TypeOK
<1>3. CASE i \notin DOMAIN rows
  <2>1. rows' = rows
    BY <1>3, Types DEF TypeOK
  <2> QED
    BY <2>1 DEF TypeOK
<1> QED
  BY <1>2, <1>3

LEMMA ExecType ==
  ASSUME TypeOK, Places, NEW p \in Procs, Exec(p)
  PROVE  TypeOK'
<1> DEFINE i == procs[p]
<1>1. i.od \in Objs /\ Od(p) \in InOutOrder /\ i \in Proc /\ Od(p) = objs[i.od]
  BY Types DEF Places, Exec, At, Live, Od
<1>2. procs' \in [Procs -> Proc]
  <2>1. Following[i.part] \in {"enter", "exit", "remap"}
    BY <1>1 DEF Following, Proc, Parts
  <2>2. [i EXCEPT !.pc = Following[i.part], !.part = "main", !.id = 0, !.status = 0, !.filled = 0] \in Proc
    BY <1>1, <2>1, AfterExecType, Zenon
  <2> QED
    BY <2>2 DEF Exec, TypeOK
<1>3. CASE ExecMain(p) /\ i.add
  <2> DEFINE new == [key |-> Od(p).key, status |-> i.status, filled |-> -1, exit |-> FALSE]
  <2>1. new \in Row
    BY <1>1 DEF InOutOrder, Proc, Row
  <2>2. rows' = Append(rows, new) /\ Len(rows) < MaxRows
    BY <1>3 DEF ExecMain
  <2>3. rows' \in Seq(Row) /\ Len(rows') = Len(rows) + 1
    BY <2>1, <2>2 DEF TypeOK
  <2>4. Len(rows') \in Ids /\ Len(rows') <= MaxRows /\ DOMAIN rows \subseteq DOMAIN rows'
    BY <2>2, <2>3, Types, ConstantsType, SMTT(40) DEF TypeOK
  <2>5. [objs[i.od] EXCEPT !.id = Len(rows'), !.dirtyMain = FALSE] \in InOutOrder
    <3>1. objs[i.od] \in InOutOrder /\ Len(rows') \in Ids /\ TRUE \in BOOLEAN
      BY <1>1, <2>4
    <3> QED
      BY <3>1, SavedType, Zenon
  <2>6. objs' \in Seq(InOutOrder) /\ Len(objs') = Len(objs)
    <3> DEFINE od == [objs[i.od] EXCEPT !.id = Len(rows'), !.dirtyMain = FALSE]
    <3>1. objs' = [objs EXCEPT ![i.od] = od]
      BY <1>3 DEF ExecMain
    <3>2. od \in InOutOrder
      BY <2>5
    <3> HIDE DEF od
    <3> QED
      BY <1>1, <3>1, <3>2, Types DEF TypeOK, Objs
  <2> QED
    BY <1>2, <2>3, <2>4, <2>6, Types DEF TypeOK, Exec, Objs
<1>4. CASE ~ (ExecMain(p) /\ i.add)
  <2>1. PICK od \in InOutOrder : objs' = [objs EXCEPT ![i.od] = od]
    <3>1. (Od(p).enterID \/ i.add) \in BOOLEAN
      BY <1>1 DEF InOutOrder, Proc
    <3>2. \/ objs' = [objs EXCEPT ![i.od].dirtyMain = FALSE]
          \/ objs' = [objs EXCEPT ![i.od] =
                        [@ EXCEPT !.enterID = Od(p).enterID \/ i.add, !.dirtyEnter = FALSE]]
          \/ objs' = [objs EXCEPT ![i.od] = [@ EXCEPT !.exitID = TRUE, !.dirtyExit = FALSE]]
      BY <1>4, SMTT(40) DEF Exec, ExecMain, ExecEnter, ExecExit
    <3> DEFINE added == Od(p).enterID \/ i.add
    <3>3. /\ [objs[i.od] EXCEPT !.dirtyMain = FALSE] \in InOutOrder
          /\ [objs[i.od] EXCEPT !.enterID = added, !.dirtyEnter = FALSE] \in InOutOrder
          /\ [objs[i.od] EXCEPT !.exitID = TRUE, !.dirtyExit = FALSE] \in InOutOrder
      BY <1>1, <3>1, SavedType, ConstantsType
    <3> HIDE DEF added
    <3> QED
      BY <3>2, <3>3 DEF added
  <2>2. objs' \in Seq(InOutOrder) /\ Len(objs') = Len(objs)
    BY <1>1, <2>1, Types DEF TypeOK, Objs
  <2>3. rows' \in Seq(Row) /\ Len(rows') = Len(rows)
    <3>1. i.id \in Ids /\ i.status \in 0 .. 3 /\ i.filled \in 0 .. 1
      BY <1>1 DEF Proc
    <3>2. \/ rows' = [rows EXCEPT ![i.id].status = i.status]
          \/ rows' = [rows EXCEPT ![i.id].filled = i.filled]
          \/ rows' = [rows EXCEPT ![i.id].exit = TRUE]
          \/ rows' = rows
      BY <1>4 DEF Exec, ExecMain, ExecEnter, ExecExit
    <3> QED
      BY <3>1, <3>2, RowsSavedType
  <2> QED
    BY <1>2, <2>2, <2>3, Types DEF TypeOK, Exec, Objs
<1> QED
  BY <1>3, <1>4

LEMMA ExecFailsType ==
  ASSUME TypeOK, NEW p \in Procs, ExecFails(p)
  PROVE  TypeOK'
<1>1. procs[p] \in Proc
  BY Types
<1>2. [procs[p] EXCEPT !.pc = "remap", !.part = "main", !.id = 0, !.status = 0,
                       !.filled = 0, !.err = TRUE] \in Proc
  BY <1>1, AfterExecType, Zenon
<1>3. procs' \in [Procs -> Proc]
  BY <1>2 DEF ExecFails, TypeOK
<1> QED
  BY <1>3 DEF ExecFails, TypeOK, Objs

LEMMA RemapType ==
  ASSUME TypeOK, Places, NEW p \in Procs, Remap(p)
  PROVE  TypeOK'
<1>1. procs[p].od \in Objs /\ Od(p) \in InOutOrder /\ procs[p] \in Proc
  BY Types DEF Places, Remap, At, Live, Od
<1>2. openOds' \in [Ids -> 0 .. MaxObjs]
  <2>1. Od(p).id \in Ids /\ procs[p].od \in 0 .. MaxObjs /\ 0 \in 0 .. MaxObjs
    BY <1>1, ConstantsType DEF InOutOrder, Proc
  <2> QED
    BY <2>1 DEF Remap, Moved, TypeOK
<1>3. [procs[p] EXCEPT !.pc = "after"] \in Proc
  BY <1>1 DEF Proc
<1>4. procs' \in [Procs -> Proc]
  BY <1>3 DEF Remap, Goto, TypeOK
<1> QED
  BY <1>2, <1>4 DEF Remap, TypeOK, Objs

LEMMA StartSaveType ==
  ASSUME TypeOK, NEW p \in Procs, NEW o \in 0 .. MaxObjs, StartSave(p, o)
  PROVE  procs' \in [Procs -> Proc]
<1>1. [procs[p] EXCEPT !.pc = "save", !.od = o] \in Proc
  BY Types, ZenonT(40) DEF Proc
<1> QED
  BY <1>1 DEF StartSave, TypeOK

LEMMA EnterOrderType ==
  ASSUME TypeOK, NEW k \in Orders, EnterOrder(k)
  PROVE  TypeOK'
<1> DEFINE od == [key |-> k, id |-> 0, status |-> 1, filled |-> 0, exit |-> FALSE,
                  enterID |-> FALSE, exitID |-> FALSE,
                  dirtyMain |-> TRUE, dirtyEnter |-> TRUE, dirtyExit |-> FALSE]
<1>1. od \in InOutOrder
  BY ConstantsType DEF InOutOrder
<1>2. objs' = Append(objs, od) /\ Len(objs) < MaxObjs
  BY DEF EnterOrder
<1> HIDE DEF od
<1>3. objs' \in Seq(InOutOrder) /\ Len(objs') = Len(objs) + 1 /\ Len(objs) \in Nat
  BY <1>1, <1>2 DEF TypeOK
<1>4. Len(objs') \in 0 .. MaxObjs /\ Len(objs') <= MaxObjs /\ Objs \subseteq Objs'
  BY <1>2, <1>3, ConstantsType DEF TypeOK, Objs
<1>5. procs' \in [Procs -> Proc]
  BY <1>4, ProcsDiffer, StartSaveType DEF EnterOrder
<1> QED
  BY <1>3, <1>4, <1>5 DEF EnterOrder, TypeOK

LEMMA ExitOrderType ==
  ASSUME TypeOK, NEW o \in Objs, ExitOrder(o)
  PROVE  TypeOK'
<1>1. objs[o] \in InOutOrder /\ o \in 0 .. MaxObjs
  BY Types
<1>2. [objs[o] EXCEPT !.exit = TRUE, !.dirtyMain = TRUE, !.dirtyExit = TRUE] \in InOutOrder
  BY <1>1 DEF InOutOrder
<1>3. objs' \in Seq(InOutOrder) /\ Len(objs') = Len(objs)
  BY <1>2, Types DEF ExitOrder, TypeOK, Objs
<1>4. procs' \in [Procs -> Proc]
  BY <1>1, ProcsDiffer, StartSaveType DEF ExitOrder
<1> QED
  BY <1>3, <1>4, Types DEF ExitOrder, TypeOK, Objs

LEMMA PostOrderType ==
  ASSUME TypeOK, Places, PostOrder
  PROVE  TypeOK'
<1>1. Od("strategy") \in InOutOrder
  BY Types, ProcsDiffer DEF Places, PostOrder, At, Live, Od
<1>2. Request(Od("strategy")) \in Orders \X Requests
  BY <1>1 DEF Request, InOutOrder, Requests
<1> QED
  BY <1>2, IdleType DEF PostOrder, TypeOK, Objs

LEMMA LookUpType ==
  ASSUME TypeOK, NEW p \in Handlers, NEW o \in Objs, LookUp(p, o)
  PROVE  TypeOK'
<1> DEFINE k == objs[o].key
           m == IF lockOds[k] # 0 THEN lockOds[k] ELSE NewMutex
<1>1. k \in Orders /\ o \in 0 .. MaxObjs /\ procs[p] \in Proc
  BY Types, ProcsDiffer DEF InOutOrder
<1>2. m \in Mutexes
  BY <1>1, NewMutexType DEF TypeOK
<1> HIDE DEF m
<1>3. lockOds' = [lockOds EXCEPT ![k] = m]
      /\ procs' = [procs EXCEPT ![p] = [@ EXCEPT !.pc = "wait", !.od = o, !.mutex = m]]
  BY DEF LookUp, m
<1>4. [procs[p] EXCEPT !.pc = "wait", !.od = o, !.mutex = m] \in Proc
  BY <1>1, <1>2 DEF Proc
<1>5. procs' \in [Procs -> Proc] /\ lockOds' \in [Orders -> Mutexes \cup {0}]
  BY <1>1, <1>2, <1>3, <1>4 DEF TypeOK
<1> QED
  BY <1>5 DEF LookUp, TypeOK, Objs

LEMMA AcquireType ==
  ASSUME TypeOK, NEW p \in Handlers, Acquire(p) \/ Unlock(p)
  PROVE  TypeOK'
<1>1. [procs[p] EXCEPT !.pc = "work"] \in Proc
  BY Types, ProcsDiffer DEF Proc
<1>2. procs' \in [Procs -> Proc]
  BY <1>1, IdleType DEF Acquire, Unlock, Goto, TypeOK
<1> QED
  BY <1>2 DEF Acquire, Unlock, TypeOK, Objs

LEMMA FilledType ==
  ASSUME NEW od \in InOutOrder
  PROVE  /\ Filled(od) \in InOutOrder /\ Filled(od).key = od.key /\ Filled(od).id = od.id
         /\ Filled(od).exit = od.exit /\ Filled(od).status = 2
<1>1. Filled(od) \in InOutOrder
  <2>1. ASSUME NEW status \in 1 .. 3, NEW filled \in 0 .. 1
        PROVE  [od EXCEPT !.status = status, !.filled = filled, !.dirtyMain = TRUE,
                          !.dirtyEnter = TRUE] \in InOutOrder
    BY DEF InOutOrder
  <2>2. 2 \in 1 .. 3 /\ 1 \in 0 .. 1
    OBVIOUS
  <2> QED
    BY <2>1, <2>2, Zenon DEF Filled
<1>2. Filled(od).key = od.key
  BY DEF Filled, InOutOrder
<1>3. Filled(od).id = od.id
  BY DEF Filled, InOutOrder
<1>4. Filled(od).exit = od.exit
  BY DEF Filled, InOutOrder
<1>5. Filled(od).status = 2
  BY DEF Filled, InOutOrder
<1> QED
  BY <1>1, <1>2, <1>3, <1>4, <1>5

LEMMA ClosedType ==
  ASSUME NEW od \in InOutOrder
  PROVE  /\ Closed(od) \in InOutOrder /\ Closed(od).key = od.key /\ Closed(od).id = od.id
         /\ Closed(od).exit /\ Closed(od).status = 3
<1>1. Closed(od) \in InOutOrder
  <2>1. ASSUME NEW status \in 1 .. 3
        PROVE  [od EXCEPT !.status = status, !.exit = TRUE, !.dirtyMain = TRUE,
                          !.dirtyExit = TRUE] \in InOutOrder
    BY DEF InOutOrder
  <2>2. 3 \in 1 .. 3
    OBVIOUS
  <2> QED
    BY <2>1, <2>2, Zenon DEF Closed
<1>2. Closed(od).key = od.key
  BY DEF Closed, InOutOrder
<1>3. Closed(od).id = od.id
  BY DEF Closed, InOutOrder
<1>4. Closed(od).exit
  BY DEF Closed, InOutOrder
<1>5. Closed(od).status = 3
  BY DEF Closed, InOutOrder
<1> QED
  BY <1>1, <1>2, <1>3, <1>4, <1>5

\* A handler fills or closes an open order and leaves a closed one alone.
LEMMA ChangesType ==
  ASSUME NEW od \in InOutOrder, NEW new \in Changes(od)
  PROVE  /\ new \in InOutOrder /\ new.key = od.key /\ new.id = od.id
         /\ od.exit => new.exit
         /\ new = od \/ Open(od)
         /\ new.status \in {od.status, 2, 3} /\ (new.status # 3 => Open(od))
<1>0. od.status \in 1 .. 3
  BY DEF InOutOrder
<1>1. CASE new = od
  BY <1>0, <1>1 DEF Open
<1>2. CASE new = Filled(od) /\ od.status = 1
  BY <1>2, FilledType DEF Open
<1>3. CASE new = Closed(od) /\ Open(od)
  BY <1>3, ClosedType
<1> QED
  BY <1>1, <1>2, <1>3 DEF Changes

LEMMA WorkType ==
  ASSUME TypeOK, Places, NEW p \in Handlers, Work(p)
  PROVE  TypeOK'
<1>1. procs[p].od \in Objs /\ Od(p) \in InOutOrder /\ procs[p] \in Proc
  BY Types, ProcsDiffer DEF Places, Work, At, Live, Od
<1>2. PICK new \in Changes(Od(p)) : /\ objs' = [objs EXCEPT ![procs[p].od] = new]
                                    /\ Goto(p, IF IsDirty(new) THEN "save" ELSE "after")
  BY DEF Work
<1>3. new \in InOutOrder
  BY <1>1, ChangesType
<1>4. objs' \in Seq(InOutOrder) /\ Len(objs') = Len(objs)
  BY <1>1, <1>2, <1>3, Types DEF TypeOK, Objs
<1>5. \A pc \in {"save", "after"} : [procs[p] EXCEPT !.pc = pc] \in Proc
  BY <1>1 DEF Proc
<1>6. procs' \in [Procs -> Proc]
  BY <1>2, <1>5 DEF Goto, TypeOK
<1> QED
  BY <1>4, <1>6, Types DEF Work, TypeOK, Objs

LEMMA SweepType ==
  ASSUME TypeOK, Places, Collect \/ (\E o \in Objs : SweepNext(o)) \/ SweepDone
  PROVE  TypeOK'
<1>1. CASE Collect
  <2>1. todo' \subseteq Objs
    BY <1>1 DEF Collect, Mapped, Places
  <2>2. openOds' \in [Ids -> 0 .. MaxObjs]
    BY <1>1, ConstantsType DEF Collect, TypeOK
  <2> QED
    BY <1>1, <2>1, <2>2 DEF Collect, TypeOK, Objs
<1>2. ASSUME NEW o \in Objs, SweepNext(o)
      PROVE  TypeOK'
  <2>1. procs' \in [Procs -> Proc]
    BY <1>2, Types, ProcsDiffer, StartSaveType DEF SweepNext
  <2> QED
    BY <1>2, <2>1 DEF SweepNext, TypeOK, Objs
<1>3. CASE SweepDone
  BY <1>3, IdleType DEF SweepDone, TypeOK, Objs
<1> QED
  BY <1>1, <1>2, <1>3

\* The rows with status 1 or 2, as a reload or a start reads them.
LEMMA OpenRowsType ==
  ASSUME TypeOK, NEW X \in SUBSET OpenRows
  PROVE  LET S == {<<i, rows[i]>> : i \in X} IN
         /\ S \subseteq (1 .. MaxRows) \X OpenRow /\ OnePerRow(S)
         /\ \A s \in S : s[1] \in X /\ s[2] = rows[s[1]]
         /\ \A i \in X : <<i, rows[i]>> \in S
<1> DEFINE S == {<<i, rows[i]>> : i \in X}
<1>1. \A i \in X : i \in 1 .. MaxRows /\ rows[i] \in OpenRow
  <2> TAKE i \in X
  <2>1. i \in DOMAIN rows /\ rows[i] \in Row /\ rows[i].status \in {1, 2}
    BY Types DEF OpenRows
  <2>2. i \in 1 .. MaxRows
    BY <2>1, Types, ConstantsType DEF Ids
  <2> QED
    BY <2>1, <2>2 DEF Row, OpenRow
<1>2. \A s \in S : s[1] \in X /\ s[2] = rows[s[1]] /\ s = <<s[1], s[2]>>
  OBVIOUS
<1>3. S \subseteq (1 .. MaxRows) \X OpenRow
  BY <1>1
<1>4. OnePerRow(S)
  BY <1>2 DEF OnePerRow
<1> QED
  BY <1>2, <1>3, <1>4

LEMMA ReadType ==
  ASSUME TypeOK, ReadOpenODs
  PROVE  TypeOK'
<1>1. \A i \in OpenRows : i \in DOMAIN rows /\ rows[i] \in Row
  BY Types DEF OpenRows
<1>2. snap' \subseteq (DOMAIN rows) \X Row
  BY <1>1 DEF ReadOpenODs
<1> QED
  BY <1>2 DEF ReadOpenODs, TypeOK, Objs

\* What a reload adds: objects of the rows that were missing in the map.
Missing == {s \in snap : openOds[s[1]] = 0}
LEMMA MissingType ==
  ASSUME TypeOK, RowsKnown
  PROVE  Missing \subseteq (1 .. MaxRows) \X OpenRow /\ OnePerRow(Missing)
<1>1. \A s \in snap : s[1] \in 1 .. MaxRows /\ s[2] \in OpenRow /\ s = <<s[1], s[2]>>
  BY Types, ConstantsType DEF RowsKnown, SnapKnown, RowOf, TypeOK, Ids
<1> QED
  BY <1>1 DEF Missing, OnePerRow, RowsKnown, SnapKnown

LEMMA MergeLoads ==
  ASSUME TypeOK, RowsKnown, MergeOpenODs
  PROVE  /\ Len(objs) + Cardinality(Missing) <= MaxObjs /\ Load(Missing, objs, openOds)
         /\ snap' = {} /\ UNCHANGED <<rows, lockOds, procs, todo, sent, up, crashes>>
BY DEF MergeOpenODs, Missing

LEMMA MergeType ==
  ASSUME TypeOK, RowsKnown, MergeOpenODs
  PROVE  TypeOK'
<1>1. /\ objs' \in Seq(InOutOrder) /\ Len(objs') = Len(objs) + Cardinality(Missing)
      /\ Cardinality(Missing) \in Nat /\ openOds' \in [Ids -> 0 .. MaxObjs]
      /\ Len(objs') <= MaxObjs
  <2>1. objs \in Seq(InOutOrder) /\ openOds \in [Ids -> 0 .. MaxObjs]
    BY DEF TypeOK
  <2>2. /\ objs' \in Seq(InOutOrder) /\ Len(objs') = Len(objs) + Cardinality(Missing)
        /\ Cardinality(Missing) \in Nat /\ openOds' \in [Ids -> 0 .. MaxObjs]
    BY <2>1, MissingType, MergeLoads, LoadAll
  <2> QED
    BY <2>2, MergeLoads
<1>2. Objs \subseteq Objs'
  BY <1>1, Types DEF Objs
<1> QED
  BY <1>1, <1>2, MergeLoads DEF TypeOK

LEMMA CrashType ==
  ASSUME TypeOK, Crash
  PROVE  TypeOK'
<1>1. crashes' \in 0 .. MaxCrash
  BY ConstantsType DEF Crash, TypeOK
<1>2. openOds' \in [Ids -> 0 .. MaxObjs] /\ lockOds' \in [Orders -> Mutexes \cup {0}]
  BY ConstantsType DEF Crash
<1>3. procs' \in [Procs -> Proc]
  BY IdleType DEF Crash
<1>4. objs' \in Seq(InOutOrder) /\ Len(objs') <= MaxObjs
  BY ConstantsType DEF Crash
<1>5. todo' \subseteq Objs' /\ snap' \subseteq (DOMAIN rows') \X Row /\ up' \in BOOLEAN
  BY DEF Crash
<1> QED
  BY <1>1, <1>2, <1>3, <1>4, <1>5 DEF Crash, TypeOK

\* The orders a start goes on with: those open ones whose entry is in the database.
Kept == {i \in OpenRows : rows[i].filled # -1}
KeptRows == {<<i, rows[i]>> : i \in Kept}

LEMMA RestartLoads ==
  ASSUME TypeOK, Places, Restart
  PROVE  /\ ~ up /\ Empty /\ up' /\ Cardinality(Kept) <= MaxObjs
         /\ Load(KeptRows, <<>>, openOds)
         /\ rows' = [i \in DOMAIN rows |-> IF i \in OpenRows \ Kept
                                           THEN [rows[i] EXCEPT !.status = 0] ELSE rows[i]]
         /\ sent' = sent \cup ({rows[i].key : i \in Kept} \X Requests)
         /\ UNCHANGED <<lockOds, procs, todo, snap, crashes>>
BY DEF Restart, Kept, KeptRows, Places, Empty

LEMMA KeptRowsType ==
  ASSUME TypeOK
  PROVE  /\ KeptRows \subseteq (1 .. MaxRows) \X OpenRow /\ OnePerRow(KeptRows)
         /\ \A s \in KeptRows : s[1] \in Kept /\ s[2] = rows[s[1]]
         /\ \A i \in Kept : <<i, rows[i]>> \in KeptRows
         /\ IsFiniteSet(KeptRows) /\ Cardinality(KeptRows) = Cardinality(Kept)
<1>1. Kept \subseteq OpenRows
  BY DEF Kept
<1>2. /\ KeptRows \subseteq (1 .. MaxRows) \X OpenRow /\ OnePerRow(KeptRows)
      /\ \A s \in KeptRows : s[1] \in Kept /\ s[2] = rows[s[1]]
      /\ \A i \in Kept : <<i, rows[i]>> \in KeptRows
  BY <1>1, OpenRowsType DEF KeptRows
<1>3. IsFiniteSet(KeptRows)
  BY <1>2, RowsFinite
<1>4. Cardinality(KeptRows) = Cardinality(Kept)
  <2> DEFINE f == [s \in KeptRows |-> s[1]]
  <2>1. f \in Bijection(KeptRows, Kept)
    <3>1. f \in [KeptRows -> Kept]
      BY <1>2
    <3>2. IsInjective(f)
      BY <1>2 DEF IsInjective, OnePerRow
    <3>3. \A i \in Kept : \E s \in KeptRows : f[s] = i
      BY <1>2
    <3> QED
      BY <3>1, <3>2, <3>3 DEF Bijection, Injection, Surjection
  <2> QED
    BY <1>3, <2>1, FS_Bijection DEF ExistsBijection
<1> QED
  BY <1>2, <1>3, <1>4

LEMMA RestartType ==
  ASSUME TypeOK, Places, Restart
  PROVE  TypeOK' /\ DOMAIN rows' = DOMAIN rows
<1>1. <<>> \in Seq(InOutOrder) /\ Len(<<>>) = 0
  OBVIOUS
<1>2. 0 + Cardinality(KeptRows) <= MaxObjs
  BY RestartLoads, KeptRowsType, FS_CardinalityType
<1>3. /\ objs' \in Seq(InOutOrder) /\ Len(objs') = 0 + Cardinality(KeptRows)
      /\ openOds' \in [Ids -> 0 .. MaxObjs]
  BY <1>1, <1>2, RestartLoads, KeptRowsType, LoadAll DEF TypeOK
<1>4. \A i \in DOMAIN rows : [rows[i] EXCEPT !.status = 0] \in Row
  BY Types DEF Row
<1>5. rows' \in Seq(Row) /\ Len(rows') = Len(rows) /\ DOMAIN rows' = DOMAIN rows
  <2>1. rows' \in [1 .. Len(rows) -> Row]
    BY <1>4, RestartLoads, Types
  <2> QED
    BY <2>1, Types, SeqOfFunction
<1>6. {rows[i].key : i \in Kept} \subseteq Orders
  BY Types DEF Kept, OpenRows, Row
<1>7. sent' \subseteq Orders \X Requests
  BY <1>6, RestartLoads DEF TypeOK
<1>8. todo' \subseteq Objs' /\ snap' \subseteq (DOMAIN rows') \X Row
  BY RestartLoads DEF Empty
<1> QED
  BY <1>2, <1>3, <1>5, <1>7, <1>8, RestartLoads DEF TypeOK

----------------------------------------------------------------------------
(* What every step but a crash and a start keeps *)

OneMoves(p) == \A q \in Procs \ {p} : procs'[q] = procs[q]
MemGoesOn ==
  /\ Objs \subseteq Objs'
  /\ \A o \in Objs : /\ objs'[o].key = objs[o].key
                     /\ objs[o].id # 0 => objs'[o].id # 0
                     /\ objs[o].exit => objs'[o].exit
RowsGoOn ==
  /\ DOMAIN rows \subseteq DOMAIN rows'
  /\ \A i \in DOMAIN rows : /\ rows'[i].key = rows[i].key
                            /\ rows[i].status # 0 => rows'[i].status # 0
                            /\ rows[i].filled # -1 => rows'[i].filled # -1
NowRowOf(i, k) == i \in DOMAIN rows' /\ rows'[i].key = k /\ rows'[i].status # 0
NowStored(k) == \E i \in DOMAIN rows' : NowRowOf(i, k) /\ rows'[i].filled # -1

LEMMA RowsStay ==
  ASSUME RowsGoOn
  PROVE  /\ \A i, k : RowOf(i, k) => NowRowOf(i, k)
         /\ \A k : Stored(k) => NowStored(k)
BY DEF RowsGoOn, RowOf, NowRowOf, Stored, NowStored

LEMMA SameMem ==
  ASSUME objs' = objs
  PROVE  MemGoesOn
BY DEF MemGoesOn, Objs

LEMMA SameRows ==
  ASSUME rows' = rows
  PROVE  RowsGoOn
BY DEF RowsGoOn

LEMMA Running_p ==
  ASSUME TypeOK, Places, NEW p \in Procs, Live(p)
  PROVE  /\ procs[p].od \in Objs /\ procs[p] \in Proc /\ Od(p) = objs[procs[p].od]
         /\ Od(p) \in InOutOrder /\ procs[p].od # 0
         /\ Od(p).id \in Ids /\ Od(p).key \in Orders /\ Od(p).status \in 1 .. 3
BY Types DEF Places, Od, InOutOrder

\* What is known of the rows stays known if what the step writes is known.
LEMMA RowsKnownStays ==
  ASSUME TypeOK, Places, RowsKnown, MemGoesOn, RowsGoOn, NEW p \in Procs, OneMoves(p),
         \A o \in Objs' : \/ o \in Objs /\ objs'[o].id \in {0, objs[o].id}
                          \/ NowRowOf(objs'[o].id, objs'[o].key),
         SnapKnown', ProcKnown(p)'
  PROVE  RowsKnown'
<1>1. ASSUME NEW o \in Objs'
      PROVE  ObjKnown(o)'
  <2>1. CASE o \in Objs /\ objs'[o].id \in {0, objs[o].id}
    <3>1. objs'[o].id # 0 => NowRowOf(objs'[o].id, objs'[o].key)
      BY <2>1, RowsStay DEF RowsKnown, ObjKnown, MemGoesOn
    <3> QED
      BY <3>1 DEF ObjKnown, RowOf, NowRowOf
  <2>2. CASE NowRowOf(objs'[o].id, objs'[o].key)
    BY <2>2 DEF ObjKnown, RowOf, NowRowOf
  <2> QED
    BY <1>1, <2>1, <2>2
<1>2. ASSUME NEW q \in Procs, q # p
      PROVE  ProcKnown(q)'
  <2>1. procs'[q] = procs[q]
    BY <1>2 DEF OneMoves
  <2>2. CASE Live(q)
    <3>1. Od(q)' = objs'[procs[q].od] /\ Od(q) = objs[procs[q].od] /\ procs[q].od \in Objs
      BY <2>1, <2>2 DEF Od, Places
    <3>2. Od(q)'.key = Od(q).key /\ (Od(q).id # 0 => Od(q)'.id # 0)
      BY <3>1 DEF MemGoesOn
    <3>3. ProcKnown(q)
      BY DEF RowsKnown
    <3>4. RowOf(procs[q].id, Od(q).key) => RowOf(procs[q].id, Od(q).key)'
      BY <2>1, <3>2, RowsStay DEF RowOf, NowRowOf
    <3> QED
      BY <2>1, <3>2, <3>3, <3>4 DEF ProcKnown, PastMain, At
  <2>3. CASE ~ Live(q)
    BY <2>1, <2>3 DEF Live, ProcKnown, PastMain, At
  <2> QED
    BY <2>2, <2>3
<1> QED
  BY <1>1, <1>2 DEF RowsKnown

LEMMA SnapStays ==
  ASSUME SnapKnown, RowsGoOn, snap' \subseteq snap
  PROVE  SnapKnown'
<1>1. OnePerRow(snap')
  BY DEF SnapKnown, OnePerRow
<1>2. \A s \in snap' : s[2] \in OpenRow /\ NowRowOf(s[1], s[2].key)
  BY RowsStay DEF SnapKnown
<1> QED
  BY <1>1, <1>2 DEF SnapKnown, OnePerRow, RowOf, NowRowOf, OpenRow

\* A step that leaves the ids of the orders alone, by a goroutine that executes nothing then.
LEMMA QuietStep ==
  ASSUME TypeOK, Places, RowsKnown, MemGoesOn, RowsGoOn, snap' \subseteq snap,
         NEW p \in Procs, OneMoves(p), Objs' = Objs, \A o \in Objs : objs'[o].id = objs[o].id,
         procs'[p].pc \notin Parts \cup {"exec"}
  PROVE  RowsKnown'
<1>1. SnapKnown'
  BY SnapStays DEF RowsKnown
<1>2. ProcKnown(p)'
  BY DEF ProcKnown, PastMain, At, Parts
<1> QED
  BY <1>1, <1>2, RowsKnownStays

LEMMA PlacesStay ==
  ASSUME TypeOK, Places, up, up' = up, MemGoesOn, NEW p \in Procs, OneMoves(p),
         procs'[p] = Idle \/ (procs'[p].pc # "idle" /\ procs'[p].od \in Objs'),
         \A i \in Ids : openOds'[i] \in {0, openOds[i]} \cup Objs'
  PROVE  Places'
<1>1. ASSUME NEW q \in Procs
      PROVE  /\ procs'[q].pc # "idle" => procs'[q].od \in Objs'
             /\ procs'[q].pc = "idle" => procs'[q] = Idle
  BY DEF OneMoves, Places, Live, MemGoesOn, Idle
<1>2. \A i \in Ids : openOds'[i] # 0 => openOds'[i] \in Objs'
  BY DEF Places, MemGoesOn
<1> QED
  BY <1>1, <1>2 DEF Places, Live

LEMMA SentStays ==
  ASSUME TypeOK, RowsGoOn, sent' = sent, SentHasRow, SubmittedIsStored
  PROVE  /\ SubmittedIsStored'
         /\ \A k \in Orders, r \in Requests : <<k, r>> \in sent' => \E i \in DOMAIN rows' : rows'[i].key = k
<1>1. SubmittedIsStored'
  BY DEF SubmittedIsStored, RowsGoOn
<1>2. ASSUME NEW k \in Orders, NEW r \in Requests, <<k, r>> \in sent'
      PROVE  \E i \in DOMAIN rows' : rows'[i].key = k
  BY <1>2 DEF SentHasRow, RowsGoOn
<1> QED
  BY <1>1, <1>2

LEMMA NewStaysOwn ==
  ASSUME TypeOK, Places, NewIsOwn, NEW p \in Procs \ {"strategy"}, OneMoves(p), MemGoesOn,
         sent' = sent, todo' \subseteq todo \cup Mapped,
         Mapped' \cap Objs \subseteq Mapped \cup {procs[p].od},
         \A o \in Objs : objs'[o].id # objs[o].id => procs[p].od = o,
         procs'[p].od \in {0, procs[p].od} \cup todo \cup
           {o \in Objs : \E r \in Requests : <<objs[o].key, r>> \in sent}
  PROVE  NewIsOwn'
<1> DEFINE o == procs["strategy"].od
<1>1. ASSUME At("strategy", "save")', ~ Od("strategy")'.exit
      PROVE  /\ Od("strategy")'.id = 0 /\ procs'["strategy"].od \notin (todo \cup Mapped)'
             /\ \A q \in Procs \ {"strategy"} : procs'[q].od # procs'["strategy"].od
             /\ \A r \in Requests : <<Od("strategy")'.key, r>> \notin sent'
  <2>1. procs'["strategy"] = procs["strategy"]
    BY ProcsDiffer DEF OneMoves
  <2>2. o \in Objs /\ o # 0 /\ Live("strategy") /\ At("strategy", "save")
    BY <1>1, <2>1, Running_p, ProcsDiffer DEF At, Live
  <2>3. Od("strategy")' = objs'[o] /\ Od("strategy") = objs[o]
    BY <2>1 DEF Od
  <2>4. objs'[o].key = objs[o].key /\ ~ objs[o].exit
    BY <1>1, <2>2, <2>3 DEF MemGoesOn
  <2>5. /\ objs[o].id = 0 /\ o \notin todo \cup Mapped
        /\ \A q \in Procs \ {"strategy"} : procs[q].od # o
        /\ \A r \in Requests : <<objs[o].key, r>> \notin sent
    BY <2>2, <2>3, <2>4 DEF NewIsOwn
  <2>6. objs'[o].id = 0
    BY <2>2, <2>5
  <2>7. o \notin (todo \cup Mapped)'
    BY <2>2, <2>5
  <2>8. \A q \in Procs \ {"strategy"} : procs'[q].od # o
    BY <2>2, <2>5 DEF OneMoves
  <2> QED
    BY <2>1, <2>3, <2>4, <2>5, <2>6, <2>7, <2>8
<1> QED
  BY <1>1 DEF NewIsOwn

\* While the strategy stands still, what it has saved stays saved.
LEMMA SavedStays ==
  ASSUME TypeOK, Places, EntryIsSaved, SentHasRow, MemGoesOn, RowsGoOn,
         procs'["strategy"] = procs["strategy"]
  PROVE  /\ EntryIsSaved'
         /\ (Saving /\ ~ AtMain("strategy") /\ ~ procs["strategy"].err)' =>
              \E i \in DOMAIN rows' : rows'[i].key = Od("strategy")'.key
<1> DEFINE o == procs["strategy"].od
<1>1. CASE ~ Saving
  BY <1>1 DEF Saving, EntryIsSaved
<1>2. CASE Saving
  <2>1. o \in Objs
    BY <1>2, Running_p, ProcsDiffer DEF Saving, Live, Parts
  <2>2. Od("strategy")' = objs'[o] /\ Od("strategy") = objs[o]
    BY DEF Od
  <2>3. objs'[o].key = objs[o].key /\ (objs[o].exit => objs'[o].exit)
    BY <2>1 DEF MemGoesOn
  <2>4. EntryIsSaved'
    <3>1. Stored(objs[o].key) => Stored(objs[o].key)'
      BY <2>3, RowsStay DEF Stored, NowStored, RowOf, NowRowOf
    <3>2. Saving' = Saving /\ PastEnter' = PastEnter
      BY DEF Saving, PastEnter, At
    <3> QED
      BY <2>2, <2>3, <3>1, <3>2, RowsStay DEF EntryIsSaved, Stored, NowStored, RowOf, NowRowOf
  <2>5. AtMain("strategy")' = AtMain("strategy") /\ Saving' = Saving
    BY DEF AtMain, Saving, At
  <2> QED
    BY <2>2, <2>3, <2>4, <2>5 DEF SentHasRow, RowsGoOn
<1> QED
  BY <1>1, <1>2

LEMMA OthersKeep ==
  ASSUME IInv, MemGoesOn, RowsGoOn, sent' = sent, procs'["strategy"] = procs["strategy"]
  PROVE  EntryIsSaved' /\ SentHasRow' /\ SubmittedIsStored'
<1>1. SubmittedIsStored' /\ EntryIsSaved'
  BY SentStays, SavedStays DEF IInv
<1>2. SentHasRow'
  BY SentStays, SavedStays DEF IInv, SentHasRow
<1> QED
  BY <1>1, <1>2

----------------------------------------------------------------------------
(* Every step keeps the invariant: Save *)

LEMMA SaveMapKeeps ==
  ASSUME IInv, up, NEW p \in Procs, SaveMap(p)
  PROVE  IInv'
<1>0. TypeOK /\ Places /\ RowsKnown /\ NewIsOwn /\ Live(p)
  BY DEF IInv, SaveMap, At, Live
<1>1. /\ objs' = objs /\ rows' = rows /\ snap' = snap /\ todo' = todo /\ sent' = sent /\ up' = up
      /\ OneMoves(p)
      /\ openOds' = [openOds EXCEPT ![Od(p).id] = IF Open(Od(p)) THEN procs[p].od ELSE 0]
  BY DEF SaveMap, OneMoves, TypeOK, IInv
<1>2. /\ procs'[p].pc = "main" /\ procs'[p].od = procs[p].od
      /\ procs'[p].add = (Od(p).id = 0)
  <2>1. procs'[p] = [procs[p] EXCEPT !.pc = "main", !.old = Od(p).id, !.add = Od(p).id = 0]
    BY <1>0 DEF SaveMap, TypeOK
  <2> QED
    BY <1>0, <2>1, Running_p DEF Proc
<1>3. MemGoesOn /\ RowsGoOn
  BY <1>1, SameMem, SameRows
<1>4. procs[p].od \in Objs /\ Od(p).id \in Ids
  BY <1>0, Running_p
<1>5. Places'
  <2>1. \A i \in Ids : openOds'[i] \in {0, openOds[i]} \cup Objs'
    BY <1>0, <1>1, <1>4 DEF TypeOK, Objs
  <2> QED
    BY <1>0, <1>1, <1>2, <1>3, <1>4, <2>1, PlacesStay DEF Objs
<1>6. RowsKnown'
  <2>1. Od(p)' = Od(p)
    BY <1>1, <1>2 DEF Od
  <2>2. ProcKnown(p)'
    BY <1>2, <2>1 DEF ProcKnown, PastMain, At
  <2>3. SnapKnown'
    BY <1>0, <1>1, <1>3, SnapStays DEF RowsKnown
  <2> QED
    BY <1>0, <1>1, <1>3, <2>2, <2>3, RowsKnownStays DEF Objs
<1>7. CASE p = "strategy"
  <2>1. ~ At("strategy", "save")' /\ ~ PastEnter' /\ AtMain("strategy")'
    BY <1>2, <1>7 DEF At, PastEnter, AtMain
  <2>2. Od("strategy")' = Od("strategy")
    BY <1>1, <1>2, <1>7 DEF Od
  <2>3. EntryIsSaved'
    BY <1>0, <1>2, <1>7, <2>1, <2>2 DEF EntryIsSaved, NewIsOwn, SaveMap, At
  <2>4. SentHasRow' /\ SubmittedIsStored'
    BY <1>1, <1>3, <2>1, SentStays DEF SentHasRow, IInv
  <2> QED
    BY <1>0, <1>5, <1>6, <2>1, <2>3, <2>4, SaveMapType DEF IInv, NewIsOwn
<1>8. CASE p # "strategy"
  <2>1. procs'["strategy"] = procs["strategy"]
    BY <1>1, <1>8, ProcsDiffer DEF OneMoves
  <2>2. Mapped' \subseteq Mapped \cup {procs[p].od}
    BY <1>0, <1>1, <1>4 DEF Mapped, TypeOK
  <2>3. NewIsOwn'
    BY <1>0, <1>1, <1>2, <1>3, <1>8, <2>2, NewStaysOwn
  <2> QED
    BY <1>0, <1>1, <1>3, <1>5, <1>6, <2>1, <2>3, SaveMapType, OthersKeep DEF IInv
<1> QED
  BY <1>7, <1>8

LEMMA CaptureKeeps ==
  ASSUME IInv, up, NEW p \in Procs, Capture(p)
  PROVE  IInv'
<1>0. TypeOK /\ Places /\ RowsKnown /\ NewIsOwn /\ Live(p) /\ procs[p].pc \in Parts
  BY DEF IInv, Capture, Live, Parts
<1>1. /\ objs' = objs /\ rows' = rows /\ snap' = snap /\ todo' = todo /\ sent' = sent /\ up' = up
      /\ OneMoves(p) /\ openOds' = openOds
  BY DEF Capture, OneMoves, TypeOK, IInv, Goto
<1>2. /\ procs'[p].od = procs[p].od /\ procs'[p].add = procs[p].add /\ procs'[p].err = procs[p].err
      /\ \/ /\ Needed(p, procs[p].pc) /\ procs'[p].pc = "exec" /\ procs'[p].part = procs[p].pc
            /\ procs'[p].id = Od(p).id /\ procs'[p].status = Od(p).status
         \/ ~ Needed(p, procs[p].pc) /\ procs'[p].pc = Following[procs[p].pc]
  <2>1. \/ /\ Needed(p, procs[p].pc)
           /\ procs'[p] = [procs[p] EXCEPT !.pc = "exec", !.part = procs[p].pc, !.id = Od(p).id,
                             !.status = Od(p).status, !.filled = Od(p).filled]
        \/ ~ Needed(p, procs[p].pc) /\ procs'[p] = [procs[p] EXCEPT !.pc = Following[procs[p].pc]]
    BY <1>0 DEF Capture, TypeOK, Goto
  <2> QED
    BY <1>0, <2>1, Running_p DEF Proc
<1>3. MemGoesOn /\ RowsGoOn /\ Od(p)' = Od(p)
  BY <1>1, <1>2, SameMem, SameRows DEF Od
<1>4. procs[p].od \in Objs /\ Od(p).id \in Ids /\ Od(p).status \in 1 .. 3
  BY <1>0, Running_p
<1>5. procs'[p].pc # "idle" /\ (procs'[p].pc = "main" => FALSE) /\ procs'[p].pc # "save"
  BY <1>0, <1>2 DEF Following, Parts
<1>6. Places'
  BY <1>0, <1>1, <1>2, <1>3, <1>4, <1>5, PlacesStay DEF Objs, TypeOK
<1>7. RowsKnown'
  <2>1. SnapKnown'
    BY <1>0, <1>1, <1>3, SnapStays DEF RowsKnown
  <2>2. ProcKnown(p) /\ ObjKnown(procs[p].od)
    BY <1>0, <1>4 DEF RowsKnown
  <2>3. ~ procs[p].add \/ procs[p].pc # "main" => Od(p).id # 0 /\ RowOf(Od(p).id, Od(p).key)
    BY <1>0, <2>2 DEF ProcKnown, PastMain, ObjKnown, Parts, Od
  <2>4. RowOf(Od(p).id, Od(p).key) => RowOf(Od(p).id, Od(p).key)'
    BY <1>1, <1>3 DEF RowOf
  <2>7. ProcKnown(p)'
    <3>1. CASE procs'[p].pc = "exec" /\ procs'[p].part = procs[p].pc /\ procs'[p].id = Od(p).id
                 /\ procs'[p].status = Od(p).status
      BY <1>2, <1>3, <1>4, <2>3, <2>4, <3>1 DEF ProcKnown, PastMain, At
    <3>2. CASE ~ Needed(p, procs[p].pc) /\ procs'[p].pc = Following[procs[p].pc]
      <4>1. procs[p].pc = "main" => ~ procs[p].add
        BY <3>2 DEF Needed
      <4>2. procs'[p].pc # "exec"
        BY <1>0, <3>2 DEF Following, Parts
      <4> QED
        BY <1>3, <2>3, <4>1, <4>2 DEF ProcKnown, PastMain, At
    <3> QED
      BY <1>2, <3>1, <3>2
  <2> QED
    BY <1>0, <1>1, <1>3, <2>1, <2>7, RowsKnownStays DEF Objs
<1>8. CASE p = "strategy"
  <2>1. ~ At("strategy", "save")'
    BY <1>5, <1>8 DEF At
  <2>2. Saving /\ (PastEnter' => PastEnter \/ procs[p].pc = "enter" \/ procs[p].pc = "exit")
    BY <1>0, <1>2, <1>8 DEF Saving, PastEnter, At, Following, Parts
  <2>3. EntryIsSaved'
    <3>1. SUFFICES ASSUME ~ Od("strategy").exit, ~ procs["strategy"].err
          PROVE  procs["strategy"].add /\ (PastEnter' => Stored(Od("strategy").key)')
      BY <1>2, <1>3, <1>8 DEF EntryIsSaved
    <3>2. procs["strategy"].add /\ (PastEnter => Stored(Od("strategy").key))
      BY <2>2, <3>1 DEF IInv, EntryIsSaved
    <3>3. PastEnter' => PastEnter
      BY <1>0, <1>2, <1>8, <3>2 DEF PastEnter, At, Following, Parts, Needed
    <3> QED
      BY <1>1, <1>3, <1>8, <3>2, <3>3 DEF Stored, RowOf
  <2>4. (Saving /\ ~ AtMain("strategy") /\ ~ procs["strategy"].err)' =>
          \E i \in DOMAIN rows : rows[i].key = Od("strategy").key
    <3>1. CASE procs[p].pc = "main" /\ procs[p].add
      BY <1>2, <1>8, <3>1 DEF Needed, AtMain, At
    <3>2. CASE procs[p].pc # "main" \/ ~ procs[p].add
      BY <1>0, <1>4, <1>8, <3>2 DEF RowsKnown, ProcKnown, PastMain, ObjKnown, RowOf, Od, Parts
    <3> QED
      BY <3>1, <3>2
  <2>5. SentHasRow' /\ SubmittedIsStored'
    BY <1>1, <1>3, <1>8, <2>4, SentStays DEF SentHasRow, IInv
  <2> QED
    BY <1>0, <1>6, <1>7, <2>1, <2>3, <2>5, CaptureType DEF IInv, NewIsOwn
<1>9. CASE p # "strategy"
  <2>1. procs'["strategy"] = procs["strategy"]
    BY <1>1, <1>9, ProcsDiffer DEF OneMoves
  <2>2. Mapped' = Mapped
    BY <1>1 DEF Mapped
  <2>3. NewIsOwn'
    BY <1>0, <1>1, <1>2, <1>3, <1>9, <2>2, NewStaysOwn
  <2> QED
    BY <1>0, <1>1, <1>3, <1>6, <1>7, <2>1, <2>3, CaptureType, OthersKeep DEF IInv
<1> QED
  BY <1>8, <1>9

\* What a statement does to the goroutine, the object and the rows.
LEMMA ExecMoves ==
  ASSUME TypeOK, Places, NEW p \in Procs, Exec(p)
  PROVE  /\ Live(p) /\ At(p, "exec") /\ OneMoves(p)
         /\ procs'[p].od = procs[p].od /\ procs'[p].add = procs[p].add /\ procs'[p].err = procs[p].err
         /\ procs[p].part \in Parts /\ procs'[p].pc = Following[procs[p].part]
         /\ procs'[p].pc \in {"enter", "exit", "remap"} /\ procs'[p].part = "main"
         /\ snap' = snap /\ todo' = todo /\ sent' = sent /\ up' = up /\ openOds' = openOds
<1>0. Live(p) /\ At(p, "exec") /\ procs[p] \in Proc
  BY Types DEF Exec, At, Live
<1>1. procs[p].part \in Parts
  BY <1>0 DEF Proc
<1>2. procs'[p] = [procs[p] EXCEPT !.pc = Following[procs[p].part], !.part = "main",
                     !.id = 0, !.status = 0, !.filled = 0]
  BY DEF Exec, TypeOK
<1>3. procs'[p].od = procs[p].od
  BY <1>0, <1>2 DEF Proc
<1>4. procs'[p].add = procs[p].add
  BY <1>0, <1>2 DEF Proc
<1>5. procs'[p].err = procs[p].err
  BY <1>0, <1>2 DEF Proc
<1>6. procs'[p].pc = Following[procs[p].part]
  BY <1>0, <1>2 DEF Proc
<1>7. procs'[p].part = "main"
  BY <1>0, <1>2 DEF Proc
<1>8. procs'[p].pc \in {"enter", "exit", "remap"}
  BY <1>1, <1>6 DEF Following, Parts
<1>9. OneMoves(p)
  BY DEF OneMoves, Exec, TypeOK
<1> QED
  BY <1>0, <1>1, <1>3, <1>4, <1>5, <1>6, <1>7, <1>8, <1>9 DEF Exec

LEMMA ExecObjects ==
  ASSUME TypeOK, Places, NEW p \in Procs, Exec(p)
  PROVE  /\ Objs' = Objs
         /\ \A o \in Objs : objs'[o].key = objs[o].key /\ objs'[o].exit = objs[o].exit
         /\ \A o \in Objs : objs'[o].status = objs[o].status
         /\ \A o \in Objs \ {procs[p].od} : objs'[o].id = objs[o].id
         /\ IF procs[p].part = "main" /\ procs[p].add
            THEN objs'[procs[p].od].id = Len(rows') ELSE objs'[procs[p].od].id = objs[procs[p].od].id
<1> DEFINE o == procs[p].od
           i == procs[p]
<1>0. o \in Objs /\ objs[o] \in InOutOrder /\ Od(p) = objs[o]
  BY ExecMoves, Running_p, SMTT(40)
<1>1. PICK od : objs' = [objs EXCEPT ![o] = od] /\
        \/ i.part = "main" /\ i.add /\ od = [objs[o] EXCEPT !.id = Len(rows'), !.dirtyMain = FALSE]
        \/ i.part = "main" /\ ~ i.add /\ od = [objs[o] EXCEPT !.dirtyMain = FALSE]
        \/ i.part = "enter" /\ od = [objs[o] EXCEPT !.enterID = Od(p).enterID \/ i.add, !.dirtyEnter = FALSE]
        \/ i.part = "exit" /\ od = [objs[o] EXCEPT !.exitID = TRUE, !.dirtyExit = FALSE]
  BY DEF Exec, ExecMain, ExecEnter, ExecExit
<1>2. od.key = objs[o].key
  BY <1>0, <1>1 DEF InOutOrder
<1>3. od.exit = objs[o].exit
  BY <1>0, <1>1 DEF InOutOrder
<1>4. od.status = objs[o].status
  BY <1>0, <1>1 DEF InOutOrder
<1>5. IF i.part = "main" /\ i.add THEN od.id = Len(rows') ELSE od.id = objs[o].id
  BY <1>0, <1>1 DEF InOutOrder
<1>6. Objs' = Objs /\ objs'[o] = od /\ \A x \in Objs \ {o} : objs'[x] = objs[x]
  BY <1>0, <1>1, Types DEF Objs, TypeOK
<1> QED
  BY <1>0, <1>2, <1>3, <1>4, <1>5, <1>6

LEMMA ExecRows ==
  ASSUME TypeOK, Places, RowsKnown, NEW p \in Procs, Exec(p)
  PROVE  /\ RowsGoOn
         /\ procs[p].part = "main" /\ procs[p].add =>
              /\ Len(rows') = Len(rows) + 1 /\ Len(rows') # 0
              /\ NowRowOf(Len(rows'), Od(p).key)
              /\ rows'[Len(rows')].status = procs[p].status
              /\ \A i \in DOMAIN rows' : (i \in DOMAIN rows /\ rows'[i] = rows[i]) \/ i = Len(rows')
         /\ ~ (procs[p].part = "main" /\ procs[p].add) =>
              /\ RowOf(procs[p].id, Od(p).key) /\ DOMAIN rows' = DOMAIN rows
              /\ \A i \in DOMAIN rows \ {procs[p].id} : rows'[i] = rows[i]
              /\ rows'[procs[p].id].status =
                   IF procs[p].part = "main" THEN procs[p].status ELSE rows[procs[p].id].status
         /\ procs[p].part = "enter" /\ procs[p].add => rows'[procs[p].id].filled # -1
<1> DEFINE i == procs[p]
<1>0. /\ Live(p) /\ i \in Proc /\ i.part \in Parts /\ Od(p) \in InOutOrder /\ At(p, "exec")
      /\ i.status \in 0 .. 3 /\ i.filled \in 0 .. 1 /\ Od(p).key \in Orders
  BY ExecMoves, Running_p DEF Proc, InOutOrder
<1>1. ProcKnown(p)
  BY DEF RowsKnown
<1>2. CASE i.part = "main" /\ i.add
  <2> DEFINE new == [key |-> Od(p).key, status |-> i.status, filled |-> -1, exit |-> FALSE]
  <2>1. rows' = Append(rows, new)
    BY <1>2 DEF Exec, ExecMain, ExecEnter, ExecExit
  <2>2. new.key = Od(p).key /\ new.status = i.status /\ i.status # 0
    BY <1>0, <1>1, <1>2 DEF ProcKnown
  <2> HIDE DEF new
  <2>3. /\ Len(rows') = Len(rows) + 1 /\ DOMAIN rows' = 1 .. Len(rows) + 1
        /\ rows'[Len(rows')] = new /\ \A j \in DOMAIN rows : rows'[j] = rows[j]
    BY <2>1, Types DEF TypeOK
  <2>4. DOMAIN rows \subseteq DOMAIN rows' /\ Len(rows') # 0 /\ Len(rows') \in DOMAIN rows'
        /\ \A j \in DOMAIN rows' : j \in DOMAIN rows \/ j = Len(rows')
    BY <2>3, Types
  <2>5. RowsGoOn /\ NowRowOf(Len(rows'), Od(p).key)
    BY <2>2, <2>3, <2>4 DEF RowsGoOn, NowRowOf
  <2> QED
    BY <1>2, <2>2, <2>3, <2>4, <2>5
<1>3. CASE ~ (i.part = "main" /\ i.add)
  <2>1. RowOf(i.id, Od(p).key)
    BY <1>0, <1>1, <1>3 DEF ProcKnown, PastMain, Parts
  <2>2. rows[i.id] \in Row /\ i.id \in DOMAIN rows
    BY <2>1, Types DEF RowOf
  <2>3. \/ i.part = "main" /\ rows' = [rows EXCEPT ![i.id] = [@ EXCEPT !.status = i.status]]
        \/ i.part = "enter" /\ rows' = [rows EXCEPT ![i.id] = [@ EXCEPT !.filled = i.filled]]
        \/ i.part = "enter" /\ ~ i.add /\ rows' = rows
        \/ i.part = "exit" /\ rows' = [rows EXCEPT ![i.id] = [@ EXCEPT !.exit = TRUE]]
    BY <1>3 DEF Exec, ExecMain, ExecEnter, ExecExit
  <2>4. PICK new : /\ rows' = [rows EXCEPT ![i.id] = new]
                   /\ \/ i.part = "main" /\ new = [rows[i.id] EXCEPT !.status = i.status]
                      \/ i.part = "enter" /\ new = [rows[i.id] EXCEPT !.filled = i.filled]
                      \/ i.part = "enter" /\ ~ i.add /\ new = rows[i.id]
                      \/ i.part = "exit" /\ new = [rows[i.id] EXCEPT !.exit = TRUE]
    BY <2>2, <2>3, Types DEF TypeOK
  <2>5. i.part = "main" => i.status # 0
    BY <1>0, <1>1 DEF ProcKnown
  <2>6. new.key = rows[i.id].key
    BY <2>2, <2>4 DEF Row
  <2>7. new.status = IF i.part = "main" THEN i.status ELSE rows[i.id].status
    BY <2>2, <2>4 DEF Row
  <2>8. /\ rows[i.id].filled # -1 => new.filled # -1
        /\ i.part = "enter" /\ i.add => new.filled # -1
    BY <1>0, <2>2, <2>4 DEF Row
  <2>9. /\ DOMAIN rows' = DOMAIN rows /\ rows'[i.id] = new
        /\ \A j \in DOMAIN rows \ {i.id} : rows'[j] = rows[j]
    BY <2>2, <2>4, Types DEF TypeOK
  <2>10. RowsGoOn
    BY <2>1, <2>5, <2>6, <2>7, <2>8, <2>9 DEF RowsGoOn, RowOf
  <2> QED
    BY <1>3, <2>1, <2>7, <2>8, <2>9, <2>10
<1> QED
  BY <1>2, <1>3

LEMMA ExecKeeps ==
  ASSUME IInv, up, NEW p \in Procs, Exec(p)
  PROVE  IInv'
<1> DEFINE o == procs[p].od
           adds == procs[p].part = "main" /\ procs[p].add
<1>0. TypeOK /\ Places /\ RowsKnown /\ NewIsOwn /\ Live(p)
  BY ExecMoves DEF IInv
<1>1. /\ o \in Objs /\ Od(p) = objs[o] /\ procs'[p].od = o /\ Objs' = Objs
      /\ Od(p)' = objs'[o] /\ Od(p)'.key = Od(p).key /\ Od(p)'.exit = Od(p).exit
  BY <1>0, ExecMoves, ExecObjects, Running_p, ZenonT(40) DEF Od
<1>2. RowsGoOn /\ OneMoves(p)
  BY <1>0, ExecRows, ExecMoves
<1>3. adds => objs'[o].id # 0 /\ NowRowOf(objs'[o].id, objs'[o].key)
  BY <1>0, <1>1, ExecObjects, ExecRows
<1>4. ~ adds => objs'[o].id = objs[o].id
  BY <1>0, ExecObjects
<1>5. MemGoesOn
  BY <1>0, <1>3, <1>4, ExecObjects DEF MemGoesOn
<1>6. Places'
  BY <1>0, <1>1, <1>2, <1>5, ExecMoves, PlacesStay DEF TypeOK
<1>7. ProcKnown(p)'
  <2>1. ~ adds => Od(p).id # 0
    BY <1>0, ExecMoves DEF RowsKnown, ProcKnown, PastMain, At, Parts
  <2>2. Od(p)'.id # 0
    BY <1>1, <1>3, <1>4, <2>1
  <2> QED
    BY <1>0, <2>2, ExecMoves DEF ProcKnown, PastMain, At
<1>8. RowsKnown'
  <2>1. SnapKnown'
    BY <1>0, <1>2, ExecMoves, SnapStays DEF RowsKnown
  <2>2. ASSUME NEW x \in Objs'
        PROVE  (x \in Objs /\ objs'[x].id \in {0, objs[x].id}) \/ NowRowOf(objs'[x].id, objs'[x].key)
    BY <1>0, <1>1, <1>3, <1>4, ExecObjects
  <2> QED
    BY <1>0, <1>2, <1>5, <1>7, <2>1, <2>2, RowsKnownStays
<1>9. CASE p = "strategy"
  <2>1. ~ At("strategy", "save")' /\ ~ At("strategy", "save")
    BY <1>0, <1>9, ExecMoves DEF At
  <2>2. EntryIsSaved'
    <3>1. SUFFICES ASSUME ~ Od("strategy").exit, ~ procs["strategy"].err, PastEnter'
          PROVE  NowStored(Od("strategy").key)
      <4>1. Saving
        BY <1>0, <1>9, ExecMoves DEF Saving, At
      <4>2. ~ Od("strategy").exit /\ ~ procs["strategy"].err => procs["strategy"].add
        BY <4>1 DEF IInv, EntryIsSaved
      <4> QED
        BY <1>0, <1>1, <1>9, <4>2, ExecMoves DEF EntryIsSaved, Stored, NowStored, RowOf, NowRowOf
    <3>2. Saving /\ procs["strategy"].add /\ (PastEnter => Stored(Od("strategy").key))
      <4>1. Saving
        BY <1>0, <1>9, ExecMoves DEF Saving, At
      <4> QED
        BY <3>1, <4>1 DEF IInv, EntryIsSaved
    <3>3. CASE procs[p].part = "exit"
      <4>1. PastEnter
        BY <1>0, <1>9, <3>3, ExecMoves DEF PastEnter
      <4> QED
        BY <1>2, <3>2, <4>1, RowsStay
    <3>4. CASE procs[p].part = "enter"
      <4>1. RowOf(procs[p].id, Od(p).key) /\ rows'[procs[p].id].filled # -1
        BY <1>0, <1>9, <3>2, <3>4, ExecRows
      <4>2. NowRowOf(procs[p].id, Od(p).key)
        BY <1>2, <4>1, RowsStay
      <4> QED
        BY <1>9, <4>1, <4>2 DEF NowStored, NowRowOf
    <3>5. CASE procs[p].part = "main"
      <4>1. procs'[p].pc = "enter"
        <5>1. procs'[p].pc = Following["main"]
          BY <1>0, <3>5, ExecMoves
        <5> QED
          BY <5>1 DEF Following
      <4> QED
        BY <1>9, <3>1, <4>1 DEF PastEnter, At
    <3> QED
      BY <1>0, <3>3, <3>4, <3>5, ExecMoves DEF Parts
  <2>3. \E i \in DOMAIN rows' : rows'[i].key = Od("strategy")'.key
    <3>1. adds => \E i \in DOMAIN rows' : rows'[i].key = Od(p).key
      BY <1>0, ExecRows DEF NowRowOf
    <3>2. ~ adds => RowOf(procs[p].id, Od(p).key)
      BY <1>0, ExecRows
    <3> QED
      BY <1>1, <1>2, <1>9, <3>1, <3>2, RowsStay DEF NowRowOf
  <2>4. SentHasRow' /\ SubmittedIsStored'
    BY <1>0, <1>2, <2>3, SentStays, ExecMoves DEF SentHasRow, IInv
  <2> QED
    BY <1>0, <1>6, <1>8, <2>1, <2>2, <2>4, ExecType DEF IInv, NewIsOwn
<1>10. CASE p # "strategy"
  <2>1. procs'["strategy"] = procs["strategy"]
    BY <1>2, <1>10, ProcsDiffer DEF OneMoves
  <2>2. Mapped' = Mapped
    BY <1>0, ExecMoves, ZenonT(40) DEF Mapped
  <2>3. \A x \in Objs : objs'[x].id # objs[x].id => procs[p].od = x
    BY <1>0, ExecObjects
  <2>4. NewIsOwn'
    BY <1>0, <1>1, <1>2, <1>5, <1>10, <2>2, <2>3, ExecMoves, NewStaysOwn
  <2> QED
    BY <1>0, <1>2, <1>5, <1>6, <1>8, <2>1, <2>4, ExecType, ExecMoves, OthersKeep DEF IInv
<1> QED
  BY <1>9, <1>10

LEMMA ExecFailsKeeps ==
  ASSUME IInv, up, NEW p \in Procs, ExecFails(p)
  PROVE  IInv'
<1>0. TypeOK /\ Places /\ RowsKnown /\ NewIsOwn /\ Live(p)
  BY DEF IInv, ExecFails, At, Live
<1>1. /\ objs' = objs /\ rows' = rows /\ snap' = snap /\ todo' = todo /\ sent' = sent /\ up' = up
      /\ OneMoves(p) /\ openOds' = openOds
  BY DEF ExecFails, OneMoves, TypeOK, IInv
<1>2. procs'[p].od = procs[p].od /\ procs'[p].pc = "remap" /\ procs'[p].err
  <2>1. procs'[p] = [procs[p] EXCEPT !.pc = "remap", !.part = "main", !.id = 0, !.status = 0,
                       !.filled = 0, !.err = TRUE]
    BY <1>0 DEF ExecFails, TypeOK
  <2>2. procs'[p].od = procs[p].od
    BY <1>0, <2>1, Running_p DEF Proc
  <2>3. procs'[p].pc = "remap"
    BY <1>0, <2>1, Running_p DEF Proc
  <2>4. procs'[p].err
    BY <1>0, <2>1, Running_p DEF Proc
  <2> QED
    BY <2>2, <2>3, <2>4
<1>3. MemGoesOn /\ RowsGoOn
  BY <1>1, SameMem, SameRows
<1>4. procs[p].od \in Objs
  BY <1>0, Running_p
<1>5. Places'
  BY <1>0, <1>1, <1>2, <1>3, <1>4, PlacesStay DEF Objs, TypeOK
<1>6. RowsKnown'
  BY <1>0, <1>1, <1>2, <1>3, QuietStep DEF Objs, Parts
<1>7. CASE p = "strategy"
  <2>1. NewIsOwn' /\ EntryIsSaved'
    BY <1>2, <1>7 DEF NewIsOwn, EntryIsSaved, At
  <2>2. SentHasRow' /\ SubmittedIsStored'
    BY <1>0, <1>1, <1>2, <1>3, <1>7, SentStays DEF SentHasRow, IInv
  <2> QED
    BY <1>0, <1>5, <1>6, <2>1, <2>2, ExecFailsType DEF IInv
<1>8. CASE p # "strategy"
  <2>1. procs'["strategy"] = procs["strategy"] /\ Mapped' = Mapped
    BY <1>1, <1>8, ProcsDiffer DEF OneMoves, Mapped
  <2>2. NewIsOwn'
    BY <1>0, <1>1, <1>2, <1>3, <1>8, <2>1, NewStaysOwn
  <2> QED
    BY <1>0, <1>1, <1>3, <1>5, <1>6, <2>1, <2>2, ExecFailsType, OthersKeep DEF IInv
<1> QED
  BY <1>7, <1>8

LEMMA RemapKeeps ==
  ASSUME IInv, up, NEW p \in Procs, Remap(p)
  PROVE  IInv'
<1>0. TypeOK /\ Places /\ RowsKnown /\ NewIsOwn /\ Live(p)
  BY DEF IInv, Remap, At, Live
<1>1. /\ objs' = objs /\ rows' = rows /\ snap' = snap /\ todo' = todo /\ sent' = sent /\ up' = up
      /\ OneMoves(p)
  BY DEF Remap, OneMoves, TypeOK, IInv, Goto
<1>2. /\ procs'[p].od = procs[p].od /\ procs'[p].pc = "after" /\ procs'[p].err = procs[p].err
      /\ procs'[p].add = procs[p].add
  <2>1. procs'[p] = [procs[p] EXCEPT !.pc = "after"]
    BY <1>0 DEF Remap, TypeOK, Goto
  <2> QED
    BY <1>0, <2>1, Running_p DEF Proc
<1>3. MemGoesOn /\ RowsGoOn /\ Od(p)' = Od(p)
  BY <1>1, <1>2, SameMem, SameRows DEF Od
<1>4. procs[p].od \in Objs /\ Od(p).id \in Ids
  BY <1>0, Running_p
<1>5. \A i \in Ids : openOds'[i] \in {0, openOds[i], procs[p].od}
  BY <1>0, <1>4 DEF Remap, Moved, TypeOK
<1>6. Places'
  BY <1>0, <1>1, <1>2, <1>3, <1>4, <1>5, PlacesStay DEF Objs
<1>7. RowsKnown'
  BY <1>0, <1>1, <1>2, <1>3, QuietStep DEF Objs, Parts
<1>8. CASE p = "strategy"
  <2>1. Saving /\ PastEnter /\ ~ At("strategy", "save")' /\ ~ AtMain("strategy")
    BY <1>2, <1>8 DEF Remap, Saving, PastEnter, At, AtMain
  <2>2. NewIsOwn' /\ EntryIsSaved'
    BY <1>1, <1>2, <1>3, <1>8, <2>1 DEF NewIsOwn, EntryIsSaved, IInv, Stored, RowOf
  <2>3. SentHasRow' /\ SubmittedIsStored'
    BY <1>0, <1>1, <1>2, <1>3, <1>8, <2>1, SentStays DEF SentHasRow, IInv
  <2> QED
    BY <1>0, <1>6, <1>7, <2>2, <2>3, RemapType DEF IInv
<1>9. CASE p # "strategy"
  <2>1. procs'["strategy"] = procs["strategy"] /\ Mapped' \subseteq Mapped \cup {procs[p].od}
    BY <1>1, <1>5, <1>9, ProcsDiffer DEF OneMoves, Mapped
  <2>2. NewIsOwn'
    BY <1>0, <1>1, <1>2, <1>3, <1>9, <2>1, NewStaysOwn
  <2> QED
    BY <1>0, <1>1, <1>3, <1>6, <1>7, <2>1, <2>2, RemapType, OthersKeep DEF IInv
<1> QED
  BY <1>8, <1>9

----------------------------------------------------------------------------
(* Every step keeps the invariant: the strategy and the handlers *)

LEMMA EnterOrderKeeps ==
  ASSUME IInv, up, NEW k \in Orders, EnterOrder(k)
  PROVE  IInv'
<1> DEFINE p == "strategy"
           o == Len(objs')
<1>0. /\ TypeOK /\ Places /\ RowsKnown /\ p \in Procs /\ procs[p] = Idle /\ k \in Fresh
      /\ rows' = rows /\ snap' = snap /\ todo' = todo /\ sent' = sent /\ up' = up /\ openOds' = openOds
  BY ProcsDiffer DEF IInv, EnterOrder, Places, At, Live
<1>1. /\ Len(objs') = Len(objs) + 1 /\ Objs' = 1 .. o /\ Objs = 1 .. Len(objs)
      /\ \A x \in Objs : objs'[x] = objs[x]
      /\ objs'[o].id = 0 /\ objs'[o].key = k /\ ~ objs'[o].exit
  <2> DEFINE od == [key |-> k, id |-> 0, status |-> 1, filled |-> 0, exit |-> FALSE,
                    enterID |-> FALSE, exitID |-> FALSE,
                    dirtyMain |-> TRUE, dirtyEnter |-> TRUE, dirtyExit |-> FALSE]
  <2>1. objs' = Append(objs, od)
    BY DEF EnterOrder
  <2>2. od.id = 0 /\ od.key = k /\ ~ od.exit
    OBVIOUS
  <2> HIDE DEF od
  <2> QED
    BY <1>0, <2>1, <2>2, Types DEF TypeOK, Objs
<1>2. o \in Objs' /\ o \notin Objs /\ Objs \subseteq Objs' /\ o # 0 /\ \A x \in Objs' : x \in Objs \/ x = o
  BY <1>0, <1>1, Types
<1>3. MemGoesOn /\ RowsGoOn
  BY <1>0, <1>1, <1>2, SameRows DEF MemGoesOn
<1>4. OneMoves(p) /\ procs'[p].pc = "save" /\ procs'[p].od = o
  <2>1. procs'[p] = [Idle EXCEPT !.pc = "save", !.od = o]
    BY <1>0 DEF EnterOrder, StartSave, TypeOK
  <2>2. procs'[p].pc = "save" /\ procs'[p].od = o
    BY <2>1 DEF Idle
  <2>3. OneMoves(p)
    BY <1>0 DEF EnterOrder, StartSave, OneMoves, TypeOK
  <2> QED
    BY <2>2, <2>3
<1>5. Places'
  BY <1>0, <1>2, <1>3, <1>4, PlacesStay DEF TypeOK
<1>6. RowsKnown'
  <2>1. SnapKnown'
    BY <1>0, <1>3, SnapStays DEF RowsKnown
  <2>2. ProcKnown(p)'
    BY <1>4 DEF ProcKnown, PastMain, At
  <2>3. ASSUME NEW x \in Objs'
        PROVE  (x \in Objs /\ objs'[x].id \in {0, objs[x].id}) \/ NowRowOf(objs'[x].id, objs'[x].key)
               \/ (x = o /\ objs'[x].id = 0)
    BY <1>1, <1>2
  <2>4. ASSUME NEW x \in Objs'
        PROVE  ObjKnown(x)'
    <3>1. CASE x \in Objs
      <4>1. ObjKnown(x) /\ objs'[x] = objs[x]
        BY <1>0, <1>1, <3>1 DEF RowsKnown
      <4> QED
        BY <1>0, <4>1 DEF ObjKnown, RowOf
    <3>2. CASE x = o
      BY <1>1, <3>2 DEF ObjKnown
    <3> QED
      BY <1>2, <3>1, <3>2
  <2>5. ASSUME NEW q \in Procs
        PROVE  ProcKnown(q)'
    <3>1. CASE q = p
      BY <2>2, <3>1
    <3>2. CASE q # p
      <4>1. procs'[q] = procs[q] /\ ProcKnown(q)
        BY <1>0, <1>4, <3>2 DEF OneMoves, RowsKnown
      <4>2. Live(q) => Od(q)' = Od(q)
        BY <1>0, <1>1, <4>1 DEF Od, Places
      <4> QED
        BY <1>0, <4>1, <4>2 DEF ProcKnown, PastMain, At, Live, RowOf
    <3> QED
      BY <3>1, <3>2
  <2> QED
    BY <2>1, <2>4, <2>5 DEF RowsKnown
<1>7. Od(p)' = objs'[o]
  BY <1>4 DEF Od
<1>8. NewIsOwn'
  <2>1. o \notin (todo \cup Mapped)'
    BY <1>0, <1>2 DEF TypeOK, Mapped, Places
  <2>2. \A q \in Procs \ {p} : procs'[q].od # o
    BY <1>0, <1>2, <1>4 DEF OneMoves, Places, Live, Idle
  <2>3. \A r \in Requests : <<k, r>> \notin sent
    BY <1>0 DEF Fresh, IInv, SentHasRow
  <2> QED
    BY <1>0, <1>1, <1>4, <1>7, <2>1, <2>2, <2>3 DEF NewIsOwn
<1>9. EntryIsSaved' /\ SentHasRow' /\ SubmittedIsStored'
  <2>1. ~ Saving'
    BY <1>4 DEF Saving, Parts
  <2> QED
    BY <1>0, <1>3, <2>1, SentStays DEF EntryIsSaved, SentHasRow, IInv
<1> QED
  BY <1>0, <1>5, <1>6, <1>8, <1>9, EnterOrderType DEF IInv

LEMMA ExitOrderKeeps ==
  ASSUME IInv, up, NEW o \in Objs, ExitOrder(o)
  PROVE  IInv'
<1> DEFINE p == "strategy"
<1>0. /\ TypeOK /\ Places /\ RowsKnown /\ p \in Procs /\ procs[p] = Idle /\ objs[o] \in InOutOrder
      /\ rows' = rows /\ snap' = snap /\ todo' = todo /\ sent' = sent /\ up' = up /\ openOds' = openOds
  BY ProcsDiffer, Types DEF IInv, ExitOrder, Places, At, Live
<1>1. /\ Objs' = Objs /\ \A x \in Objs : objs'[x].key = objs[x].key /\ objs'[x].id = objs[x].id
      /\ \A x \in Objs : objs[x].exit => objs'[x].exit
      /\ objs'[o].exit
  <2> DEFINE od == [objs[o] EXCEPT !.exit = TRUE, !.dirtyMain = TRUE, !.dirtyExit = TRUE]
  <2>1. objs' = [objs EXCEPT ![o] = od]
    BY DEF ExitOrder
  <2>2. od.key = objs[o].key
    BY <1>0 DEF InOutOrder
  <2>3. od.id = objs[o].id
    BY <1>0 DEF InOutOrder
  <2>4. od.exit
    BY <1>0 DEF InOutOrder
  <2> HIDE DEF od
  <2> QED
    BY <1>0, <2>1, <2>2, <2>3, <2>4, Types DEF TypeOK, Objs
<1>2. MemGoesOn /\ RowsGoOn
  BY <1>0, <1>1, SameRows DEF MemGoesOn
<1>3. OneMoves(p) /\ procs'[p].pc = "save" /\ procs'[p].od = o
  <2>1. procs'[p] = [Idle EXCEPT !.pc = "save", !.od = o]
    BY <1>0 DEF ExitOrder, StartSave, TypeOK
  <2>2. procs'[p].pc = "save" /\ procs'[p].od = o
    BY <2>1 DEF Idle
  <2>3. OneMoves(p)
    BY <1>0 DEF ExitOrder, StartSave, OneMoves, TypeOK
  <2> QED
    BY <2>2, <2>3
<1>4. Places'
  BY <1>0, <1>1, <1>2, <1>3, PlacesStay DEF TypeOK
<1>5. RowsKnown'
  BY <1>0, <1>1, <1>2, <1>3, QuietStep DEF Parts
<1>6. Od(p)' = objs'[o] /\ ~ Saving'
  BY <1>3 DEF Od, Saving, Parts
<1>7. NewIsOwn' /\ EntryIsSaved'
  BY <1>1, <1>6 DEF NewIsOwn, EntryIsSaved
<1>8. SentHasRow' /\ SubmittedIsStored'
  BY <1>0, <1>2, <1>6, SentStays DEF SentHasRow, IInv
<1> QED
  BY <1>0, <1>4, <1>5, <1>7, <1>8, ExitOrderType DEF IInv

LEMMA PostOrderKeeps ==
  ASSUME IInv, up, PostOrder
  PROVE  IInv'
<1> DEFINE p == "strategy"
<1>0. /\ TypeOK /\ Places /\ RowsKnown /\ p \in Procs /\ Live(p) /\ At(p, "after")
      /\ objs' = objs /\ rows' = rows /\ snap' = snap /\ todo' = todo /\ up' = up /\ openOds' = openOds
      /\ OneMoves(p) /\ procs'[p] = Idle
  BY ProcsDiffer DEF IInv, PostOrder, At, Live, TypeOK, OneMoves
<1>1. MemGoesOn /\ RowsGoOn
  BY <1>0, SameMem, SameRows
<1>2. Places'
  BY <1>0, <1>1, PlacesStay DEF TypeOK
<1>3. RowsKnown'
  BY <1>0, <1>1, QuietStep DEF Objs, Idle, Parts
<1>4. ~ Saving' /\ ~ At(p, "save")'
  BY <1>0 DEF Saving, At, Idle, Parts
<1>5. Saving /\ PastEnter /\ ~ AtMain(p)
  BY <1>0 DEF Saving, PastEnter, AtMain, At
<1>6. ASSUME sent' # sent
      PROVE  /\ ~ procs[p].err /\ sent' = sent \cup {Request(Od(p))}
             /\ \E i \in DOMAIN rows : rows[i].key = Od(p).key
             /\ ~ Od(p).exit => Stored(Od(p).key)
  <2>1. ~ procs[p].err /\ sent' = sent \cup {Request(Od(p))}
    BY <1>6 DEF PostOrder, Posted
  <2> QED
    BY <1>5, <2>1 DEF IInv, EntryIsSaved, SentHasRow
<1>7. SubmittedIsStored'
  <2>1. ASSUME NEW k \in Orders, <<k, "enter">> \in sent', <<k, "enter">> \notin sent
        PROVE  Stored(k)
    <3>1. sent' # sent /\ Request(Od(p)) = <<k, "enter">>
      BY <1>6, <2>1
    <3>2. ~ Od(p).exit /\ Od(p).key = k
      BY <3>1 DEF Request
    <3> QED
      BY <1>6, <3>1, <3>2
  <2> QED
    BY <1>0, <2>1 DEF IInv, SubmittedIsStored, Stored, RowOf
<1>8. SentHasRow'
  <2>1. ASSUME NEW k \in Orders, NEW r \in Requests, <<k, r>> \in sent', <<k, r>> \notin sent
        PROVE  \E i \in DOMAIN rows : rows[i].key = k
    <3>1. sent' # sent /\ Request(Od(p)) = <<k, r>>
      BY <1>6, <2>1
    <3>2. Od(p).key = k
      BY <3>1 DEF Request
    <3> QED
      BY <1>6, <3>1, <3>2
  <2> QED
    BY <1>0, <1>4, <2>1 DEF IInv, SentHasRow
<1> QED
  BY <1>0, <1>2, <1>3, <1>4, <1>7, <1>8, PostOrderType DEF IInv, NewIsOwn, EntryIsSaved

\* A handler's step that leaves the order's id and key alone and nothing to the rows.
LEMMA HandlerKeeps ==
  ASSUME IInv, TypeOK', up, NEW p \in Handlers, OneMoves(p), Objs' = Objs,
         \A o \in Objs : /\ objs'[o].key = objs[o].key /\ objs'[o].id = objs[o].id
                         /\ objs[o].exit => objs'[o].exit,
         UNCHANGED <<rows, openOds, todo, snap, sent, up>>,
         procs'[p] = Idle \/ (procs'[p].pc \in {"wait", "work", "save", "after"} /\ procs'[p].od \in Objs),
         procs'[p].od \in {0, procs[p].od} \cup {o \in Objs : \E r \in Requests : <<objs[o].key, r>> \in sent}
  PROVE  IInv'
<1>0. TypeOK /\ Places /\ RowsKnown /\ NewIsOwn /\ p \in Procs /\ p # "strategy"
  BY ProcsDiffer DEF IInv
<1>1. MemGoesOn /\ RowsGoOn
  BY SameRows DEF MemGoesOn
<1>2. procs'[p].pc \notin Parts \cup {"exec"}
  BY DEF Idle, Parts
<1>3. Places'
  BY <1>0, <1>1, PlacesStay DEF TypeOK
<1>4. RowsKnown'
  BY <1>0, <1>1, <1>2, QuietStep
<1>5. procs'["strategy"] = procs["strategy"] /\ Mapped' = Mapped
  BY <1>0, ProcsDiffer DEF OneMoves, Mapped
<1>6. NewIsOwn'
  BY <1>0, <1>1, <1>5, NewStaysOwn
<1> QED
  BY <1>0, <1>1, <1>3, <1>4, <1>5, <1>6, OthersKeep DEF IInv

LEMMA HandleKeeps ==
  ASSUME IInv, up, NEW p \in Handlers, Handle(p)
  PROVE  IInv'
<1>0. TypeOK /\ Places /\ p \in Procs /\ procs[p] \in Proc
  BY ProcsDiffer, Types DEF IInv
<1>1. ASSUME NEW o \in Objs, LookUp(p, o)
      PROVE  IInv'
  <2>1. PICK m : procs' = [procs EXCEPT ![p] = [@ EXCEPT !.pc = "wait", !.od = o, !.mutex = m]]
    BY <1>1 DEF LookUp
  <2>2. procs'[p] = [procs[p] EXCEPT !.pc = "wait", !.od = o, !.mutex = m] /\ OneMoves(p)
    BY <1>0, <2>1 DEF TypeOK, OneMoves
  <2>3. procs'[p].pc = "wait"
    BY <1>0, <2>2 DEF Proc
  <2>4. procs'[p].od = o
    BY <1>0, <2>2 DEF Proc
  <2>5. UNCHANGED <<objs, rows, openOds, todo, snap, sent, up>> /\ \E r \in Requests : <<objs[o].key, r>> \in sent
    BY <1>1 DEF LookUp
  <2> QED
    BY <1>0, <1>1, <2>2, <2>3, <2>4, <2>5, LookUpType, HandlerKeeps DEF Objs
<1>2. CASE Acquire(p)
  <2>1. procs'[p] = [procs[p] EXCEPT !.pc = "work"] /\ OneMoves(p) /\ Live(p)
    BY <1>0, <1>2 DEF Acquire, Goto, TypeOK, OneMoves, At, Live
  <2>2. procs'[p].pc = "work" /\ procs'[p].od = procs[p].od /\ procs[p].od \in Objs
    BY <1>0, <2>1, Running_p DEF Proc
  <2> QED
    BY <1>0, <1>2, <2>1, <2>2, AcquireType, HandlerKeeps DEF Acquire, Objs
<1>3. CASE Work(p)
  <2>1. PICK new \in Changes(Od(p)) : /\ objs' = [objs EXCEPT ![procs[p].od] = new]
                                      /\ Goto(p, IF IsDirty(new) THEN "save" ELSE "after")
    BY <1>3 DEF Work
  <2>2. /\ Live(p) /\ procs[p].od \in Objs /\ Od(p) = objs[procs[p].od] /\ Od(p) \in InOutOrder
    BY <1>0, <1>3, Running_p DEF Work, At, Live
  <2>3. new.key = Od(p).key /\ new.id = Od(p).id /\ (Od(p).exit => new.exit)
    BY <2>2, ChangesType
  <2>4. /\ Objs' = Objs
        /\ \A o \in Objs : /\ objs'[o].key = objs[o].key /\ objs'[o].id = objs[o].id
                           /\ objs[o].exit => objs'[o].exit
    BY <1>0, <2>1, <2>2, <2>3, Types DEF TypeOK, Objs
  <2>5. \E pc \in {"save", "after"} : procs' = [procs EXCEPT ![p].pc = pc]
    BY <2>1 DEF Goto
  <2>6. OneMoves(p) /\ procs'[p].pc \in {"save", "after"} /\ procs'[p].od = procs[p].od
    BY <1>0, <2>5 DEF TypeOK, OneMoves, Proc
  <2> QED
    BY <1>0, <1>3, <2>2, <2>4, <2>6, WorkType, HandlerKeeps DEF Work
<1>4. CASE Unlock(p)
  <2>1. procs'[p] = Idle /\ OneMoves(p)
    BY <1>0, <1>4 DEF Unlock, TypeOK, OneMoves
  <2> QED
    <3>1. UNCHANGED <<objs, rows, openOds, todo, snap, sent, up>> /\ TypeOK'
      BY <1>0, <1>4, AcquireType DEF Unlock
    <3>2. procs'[p].od = 0
      BY <2>1 DEF Idle
    <3> QED
      BY <2>1, <3>1, <3>2, HandlerKeeps DEF Objs
<1> QED
  BY <1>1, <1>2, <1>3, <1>4 DEF Handle

----------------------------------------------------------------------------
(* Every step keeps the invariant: the sweep, the reload, a crash and a start *)

LEMMA SweepKeeps ==
  ASSUME IInv, up, Collect \/ (\E o \in Objs : SweepNext(o)) \/ SweepDone
  PROVE  IInv'
<1> DEFINE p == "sweep"
<1>0. /\ TypeOK /\ Places /\ RowsKnown /\ NewIsOwn /\ p \in Procs \ {"strategy"} /\ TypeOK'
      /\ objs' = objs /\ rows' = rows /\ snap' = snap /\ sent' = sent /\ up' = up
  BY ProcsDiffer, SweepType DEF IInv, Collect, SweepNext, SweepDone
<1>1. /\ todo' \subseteq todo \cup Mapped /\ OneMoves(p)
      /\ Mapped' \subseteq Mapped /\ \A i \in Ids : openOds'[i] \in {0, openOds[i]}
      /\ \/ procs'[p] = procs[p] \/ procs'[p] = Idle
         \/ procs'[p].pc = "save" /\ procs'[p].od \in todo
  <2>1. CASE Collect
    BY <1>0, <2>1 DEF Collect, OneMoves, Mapped
  <2>2. ASSUME NEW o \in Objs, SweepNext(o)
        PROVE  /\ todo' \subseteq todo /\ OneMoves(p) /\ openOds' = openOds
               /\ procs'[p].pc = "save" /\ procs'[p].od \in todo
    <3>1. procs'[p] = [procs[p] EXCEPT !.pc = "save", !.od = o] /\ procs[p] \in Proc
      BY <1>0, <2>2, Types DEF SweepNext, StartSave, TypeOK
    <3>2. procs'[p].pc = "save" /\ procs'[p].od = o
      BY <3>1 DEF Proc
    <3> QED
      BY <1>0, <2>2, <3>2 DEF SweepNext, StartSave, TypeOK, OneMoves
  <2>3. CASE SweepDone
    BY <1>0, <2>3 DEF SweepDone, OneMoves, Mapped, TypeOK
  <2>4. CASE \E o \in Objs : SweepNext(o)
    BY <1>0, <2>2, <2>4 DEF Mapped, TypeOK
  <2> QED
    BY <2>1, <2>3, <2>4
<1>2. MemGoesOn /\ RowsGoOn /\ Objs' = Objs
  BY <1>0, SameMem, SameRows DEF Objs
<1>3. todo \subseteq Objs
  BY <1>0 DEF TypeOK
<1>4. Places'
  <2>1. procs'[p] = Idle \/ (procs'[p].pc # "idle" /\ procs'[p].od \in Objs')
    BY <1>0, <1>1, <1>2, <1>3 DEF Places, Live
  <2> QED
    BY <1>0, <1>1, <1>2, <2>1, PlacesStay
<1>5. RowsKnown'
  <2>1. SnapKnown'
    BY <1>0, <1>2, SnapStays DEF RowsKnown
  <2>2. ProcKnown(p)'
    <3>1. CASE procs'[p] = procs[p]
      <4>1. ProcKnown(p) /\ Od(p)' = Od(p)
        BY <1>0, <3>1 DEF RowsKnown, Od
      <4> QED
        BY <1>0, <3>1, <4>1 DEF ProcKnown, PastMain, At, RowOf
    <3>2. CASE procs'[p].pc \in {"save", "idle"}
      BY <3>2 DEF ProcKnown, PastMain, At
    <3> QED
      BY <1>1, <3>1, <3>2 DEF Idle
  <2> QED
    BY <1>0, <1>1, <1>2, <2>1, <2>2, RowsKnownStays
<1>6. NewIsOwn'
  <2>1. procs'[p].od \in {0, procs[p].od} \cup todo
    BY <1>1 DEF Idle
  <2> QED
    BY <1>0, <1>1, <1>2, <2>1, NewStaysOwn
<1>7. procs'["strategy"] = procs["strategy"]
  BY <1>0, <1>1, ProcsDiffer DEF OneMoves
<1> QED
  BY <1>0, <1>2, <1>4, <1>5, <1>6, <1>7, OthersKeep DEF IInv

LEMMA ReadKeeps ==
  ASSUME IInv, up, ReadOpenODs
  PROVE  IInv'
<1> DEFINE p == "sweep"
<1>0. /\ TypeOK /\ Places /\ RowsKnown /\ NewIsOwn /\ p \in Procs \ {"strategy"} /\ TypeOK'
      /\ UNCHANGED <<objs, rows, openOds, lockOds, procs, todo, sent, up, crashes>>
      /\ snap' = {<<i, rows[i]>> : i \in OpenRows}
  BY ProcsDiffer, ReadType DEF IInv, ReadOpenODs
<1>1. MemGoesOn /\ RowsGoOn /\ Objs' = Objs /\ OneMoves(p)
  BY <1>0, SameMem, SameRows DEF Objs, OneMoves
<1>2. Places'
  BY <1>0 DEF Places, Live, Objs
<1>3. SnapKnown'
  <2>1. /\ snap' \subseteq (1 .. MaxRows) \X OpenRow /\ OnePerRow(snap')
        /\ \A s \in snap' : s[1] \in OpenRows /\ s[2] = rows[s[1]]
    BY <1>0, OpenRowsType
  <2>2. \A s \in snap' : s[2] \in OpenRow /\ NowRowOf(s[1], s[2].key)
    BY <1>0, <2>1 DEF OpenRows, NowRowOf
  <2> QED
    BY <2>1, <2>2 DEF SnapKnown, OnePerRow, RowOf, NowRowOf, OpenRow
<1>4. ProcKnown(p)'
  <2>1. ProcKnown(p)
    BY <1>0 DEF RowsKnown
  <2> QED
    BY <1>0, <2>1 DEF ProcKnown, PastMain, At, RowOf, Od
<1>5. RowsKnown'
  BY <1>0, <1>1, <1>3, <1>4, RowsKnownStays
<1>6. NewIsOwn'
  BY <1>0 DEF NewIsOwn, At, Od, Mapped
<1> QED
  BY <1>0, <1>1, <1>2, <1>5, <1>6, OthersKeep DEF IInv

LEMMA MergeKeeps ==
  ASSUME IInv, up, MergeOpenODs
  PROVE  IInv'
<1> DEFINE p == "sweep"
<1>0. /\ TypeOK /\ Places /\ RowsKnown /\ NewIsOwn /\ p \in Procs \ {"strategy"} /\ TypeOK'
      /\ snap' = {} /\ UNCHANGED <<rows, lockOds, procs, todo, sent, up, crashes>>
  BY ProcsDiffer, MergeType, MergeLoads DEF IInv
<1>1. /\ Len(objs) \in Nat /\ Objs = 1 .. Len(objs) /\ Objs' = 1 .. Len(objs')
      /\ Len(objs') = Len(objs) + Cardinality(Missing) /\ Cardinality(Missing) \in Nat
      /\ \A o \in 1 .. Len(objs) : objs'[o] = objs[o]
      /\ \A o \in Len(objs) + 1 .. Len(objs') : \E s \in Missing : objs'[o] = Loaded(s[1], s[2])
      /\ \A s \in Missing : openOds'[s[1]] \in Len(objs) + 1 .. Len(objs')
      /\ \A i \in Ids : (\A s \in Missing : s[1] # i) => openOds'[i] = openOds[i]
  <2>1. objs \in Seq(InOutOrder) /\ openOds \in [Ids -> 0 .. MaxObjs]
    BY <1>0 DEF TypeOK
  <2>0. Adds(Missing, objs, openOds)
    BY <1>0, <2>1, MissingType, MergeLoads, LoadAdds
  <2>2. /\ objs' \in Seq(InOutOrder) /\ Len(objs') = Len(objs) + Cardinality(Missing)
        /\ Cardinality(Missing) \in Nat
        /\ \A o \in 1 .. Len(objs) : objs'[o] = objs[o]
        /\ \A o \in Len(objs) + 1 .. Len(objs') : \E s \in Missing : objs'[o] = Loaded(s[1], s[2])
        /\ \A s \in Missing : openOds'[s[1]] \in Len(objs) + 1 .. Len(objs')
        /\ \A i \in Ids : (\A s \in Missing : s[1] # i) => openOds'[i] = openOds[i]
    BY <2>0 DEF Adds
  <2> QED
    BY <1>0, <2>2, Types DEF Objs
<1>2. Objs \subseteq Objs' /\ \A o \in Objs' : o \in Objs \/ o \in Len(objs) + 1 .. Len(objs')
  BY <1>1
<1>3. MemGoesOn /\ RowsGoOn /\ OneMoves(p)
  BY <1>0, <1>1, <1>2, SameRows DEF MemGoesOn, OneMoves
<1>4. \A i \in Ids : openOds'[i] = openOds[i] \/ openOds'[i] \in Objs' \ Objs
  <2> TAKE i \in Ids
  <2>1. CASE \A s \in Missing : s[1] # i
    BY <1>1, <2>1
  <2>2. CASE \E s \in Missing : s[1] = i
    BY <1>1, <2>2
  <2> QED
    BY <2>1, <2>2
<1>5. Places'
  <2>1. procs'[p] = Idle \/ (procs'[p].pc # "idle" /\ procs'[p].od \in Objs')
    BY <1>0, <1>2 DEF Places, Live
  <2> QED
    BY <1>0, <1>3, <1>4, <2>1, PlacesStay
<1>6. ASSUME NEW o \in Len(objs) + 1 .. Len(objs')
      PROVE  NowRowOf(objs'[o].id, objs'[o].key)
  <2>1. PICK s \in Missing : objs'[o] = Loaded(s[1], s[2])
    BY <1>1
  <2>2. s[1] \in 1 .. MaxRows /\ s[2] \in OpenRow
    BY <1>0, MissingType
  <2>3. objs'[o].id = s[1] /\ objs'[o].key = s[2].key
    BY <2>1, <2>2, LoadedType
  <2>4. RowOf(s[1], s[2].key)
    BY <1>0 DEF RowsKnown, SnapKnown, Missing
  <2> QED
    BY <1>0, <2>3, <2>4 DEF RowOf, NowRowOf
<1>7. RowsKnown'
  <2>1. SnapKnown'
    BY <1>0, <1>3, SnapStays DEF RowsKnown
  <2>2. ProcKnown(p)'
    <3>1. ProcKnown(p)
      BY <1>0 DEF RowsKnown
    <3>2. Live(p) => Od(p)' = Od(p)
      BY <1>0, <1>1 DEF Od, Places
    <3> QED
      BY <1>0, <3>1, <3>2 DEF ProcKnown, PastMain, At, RowOf, Live
  <2>3. ASSUME NEW o \in Objs'
        PROVE  (o \in Objs /\ objs'[o].id \in {0, objs[o].id}) \/ NowRowOf(objs'[o].id, objs'[o].key)
    BY <1>1, <1>2, <1>6
  <2> QED
    BY <1>0, <1>3, <2>1, <2>2, <2>3, RowsKnownStays
<1>8. NewIsOwn'
  <2>1. Mapped' \cap Objs \subseteq Mapped
    BY <1>4 DEF Mapped
  <2>2. \A o \in Objs : objs'[o].id = objs[o].id
    BY <1>1
  <2> QED
    BY <1>0, <1>3, <2>1, <2>2, NewStaysOwn
<1> QED
  BY <1>0, <1>3, <1>5, <1>7, <1>8, OthersKeep DEF IInv

LEMMA CrashKeeps ==
  ASSUME IInv, Crash
  PROVE  IInv'
<1>0. TypeOK /\ TypeOK' /\ rows' = rows /\ sent' = sent
  BY CrashType DEF IInv, Crash
<1>1. objs' = <<>> /\ snap' = {} /\ todo' = {} /\ openOds' = [i \in Ids |-> 0]
      /\ procs' = [p \in Procs |-> Idle] /\ Objs' = {}
  BY DEF Crash, Objs
<1>2. \A p \in Procs : procs'[p] = Idle
  BY <1>1
<1>3. Places'
  BY <1>1, <1>2 DEF Places, Empty, Live, Idle
<1>4. RowsKnown'
  BY <1>1, <1>2 DEF RowsKnown, ProcKnown, PastMain, At, SnapKnown, OnePerRow, Idle
<1>5. ~ Saving' /\ ~ At("strategy", "save")'
  BY <1>2, ProcsDiffer DEF Saving, At, Idle, Parts
<1>6. SubmittedIsStored' /\ SentHasRow'
  BY <1>0, <1>5 DEF IInv, SubmittedIsStored, SentHasRow
<1> QED
  BY <1>0, <1>3, <1>4, <1>5, <1>6 DEF IInv, NewIsOwn, EntryIsSaved

LEMMA RestartKeeps ==
  ASSUME IInv, Restart
  PROVE  IInv'
<1>0. /\ TypeOK /\ Places /\ TypeOK' /\ DOMAIN rows' = DOMAIN rows /\ Empty /\ up'
      /\ UNCHANGED <<lockOds, procs, todo, snap, crashes>>
      /\ sent' = sent \cup ({rows[i].key : i \in Kept} \X Requests)
  BY RestartType, RestartLoads DEF IInv
<1>1. ASSUME NEW i \in DOMAIN rows
      PROVE  /\ rows'[i].key = rows[i].key /\ rows'[i].filled = rows[i].filled
             /\ rows[i].filled # -1 => rows'[i] = rows[i]
             /\ i \in Kept => rows'[i] = rows[i]
  <2>1. rows[i] \in Row
    BY <1>0, Types
  <2>2. rows'[i] = IF i \in OpenRows \ Kept THEN [rows[i] EXCEPT !.status = 0] ELSE rows[i]
    BY <1>0, RestartLoads DEF IInv
  <2> QED
    BY <2>1, <2>2 DEF Row, Kept
<1>2. /\ Objs' = 1 .. Len(objs') /\ openOds' \in [Ids -> 0 .. MaxObjs]
      /\ \A o \in Objs' : \E s \in KeptRows : objs'[o] = Loaded(s[1], s[2])
      /\ \A i \in Ids : openOds'[i] # 0 => openOds'[i] \in Objs'
  <2>1. <<>> \in Seq(InOutOrder) /\ Len(<<>>) = 0
    OBVIOUS
  <2>2. 0 + Cardinality(KeptRows) <= MaxObjs
    BY <1>0, RestartLoads, KeptRowsType, FS_CardinalityType
  <2>0. Adds(KeptRows, <<>>, openOds)
    BY <1>0, <2>1, <2>2, RestartLoads, KeptRowsType, LoadAdds DEF TypeOK
  <2>3. /\ objs' \in Seq(InOutOrder)
        /\ \A o \in Len(<<>>) + 1 .. Len(objs') : \E s \in KeptRows : objs'[o] = Loaded(s[1], s[2])
        /\ openOds' \in [Ids -> 0 .. MaxObjs]
        /\ \A s \in KeptRows : openOds'[s[1]] \in Len(<<>>) + 1 .. Len(objs')
        /\ \A i \in Ids : (\A s \in KeptRows : s[1] # i) => openOds'[i] = openOds[i]
    BY <2>0 DEF Adds
  <2>4. \A i \in Ids : openOds[i] = 0
    BY <1>0 DEF Empty
  <2>5. Objs' = 1 .. Len(objs') /\ Len(<<>>) + 1 = 1
    BY <2>1, <2>3 DEF Objs
  <2>6. \A i \in Ids : openOds'[i] # 0 => openOds'[i] \in Objs'
    <3> TAKE i \in Ids
    <3>1. CASE \A s \in KeptRows : s[1] # i
      BY <2>3, <2>4, <3>1
    <3>2. CASE \E s \in KeptRows : s[1] = i
      BY <2>3, <2>5, <3>2
    <3> QED
      BY <3>1, <3>2
  <2> QED
    BY <2>3, <2>5, <2>6
<1>3. \A p \in Procs : procs'[p] = Idle
  BY <1>0 DEF Empty
<1>4. Places'
  BY <1>0, <1>2, <1>3 DEF Places, Live, Idle
<1>5. ASSUME NEW i \in Kept
      PROVE  NowRowOf(i, rows[i].key) /\ i \in DOMAIN rows /\ rows'[i].filled # -1
  BY <1>0, <1>1 DEF Kept, OpenRows, NowRowOf
<1>6. RowsKnown'
  <2>1. ASSUME NEW o \in Objs'
        PROVE  NowRowOf(objs'[o].id, objs'[o].key)
    <3>1. PICK s \in KeptRows : objs'[o] = Loaded(s[1], s[2])
      BY <1>2
    <3>2. s[1] \in 1 .. MaxRows /\ s[2] \in OpenRow /\ s[1] \in Kept /\ s[2] = rows[s[1]]
      BY <1>0, KeptRowsType
    <3>3. objs'[o].id = s[1] /\ objs'[o].key = s[2].key
      BY <3>1, <3>2, LoadedType
    <3> QED
      BY <1>5, <3>2, <3>3
  <2>2. \A o \in Objs' : ObjKnown(o)'
    BY <2>1 DEF ObjKnown, RowOf, NowRowOf
  <2> QED
    BY <1>0, <1>3, <2>2 DEF RowsKnown, ProcKnown, PastMain, At, SnapKnown, OnePerRow, Idle, Empty
<1>7. ~ Saving' /\ ~ At("strategy", "save")'
  BY <1>3, ProcsDiffer DEF Saving, At, Idle, Parts
<1>8. ASSUME NEW k \in Orders, NEW r \in Requests, <<k, r>> \in sent', <<k, r>> \notin sent
      PROVE  NowStored(k)
  <2>1. PICK i \in Kept : rows[i].key = k
    BY <1>0, <1>8
  <2> QED
    BY <1>5, <2>1 DEF NowStored, NowRowOf
<1>9. SubmittedIsStored'
  <2>1. \A k \in Orders : Stored(k) => NowStored(k)
    BY <1>0, <1>1 DEF Stored, NowStored, RowOf, NowRowOf
  <2>2. \A k \in Orders : <<k, "enter">> \in sent => Stored(k)
    BY DEF IInv, SubmittedIsStored, Stored, RowOf
  <2> QED
    BY <1>8, <2>1, <2>2 DEF SubmittedIsStored, NowStored, NowRowOf, Requests
<1>10. SentHasRow'
  <2>1. ASSUME NEW k \in Orders, NEW r \in Requests, <<k, r>> \in sent'
        PROVE  \E i \in DOMAIN rows' : rows'[i].key = k
    <3>1. CASE <<k, r>> \in sent
      BY <1>0, <1>1, <3>1 DEF IInv, SentHasRow
    <3>2. CASE <<k, r>> \notin sent
      BY <1>8, <2>1, <3>2 DEF NowStored, NowRowOf
    <3> QED
      BY <3>1, <3>2
  <2> QED
    BY <1>7, <2>1 DEF SentHasRow
<1> QED
  BY <1>0, <1>4, <1>6, <1>7, <1>9, <1>10 DEF IInv, NewIsOwn, EntryIsSaved
----------------------------------------------------------------------------
LEMMA InitInv == Init => IInv
<1> SUFFICES ASSUME Init
             PROVE  IInv
  OBVIOUS
<1>1. TypeOK
  BY ConstantsType, IdleType DEF Init, TypeOK, Objs
<1>2. (\A p \in Procs : procs[p] = Idle) /\ Objs = {} /\ snap = {}
  BY DEF Init, Objs
<1>3. Places
  BY <1>2 DEF Places, Live, Idle, Init, Empty
<1>4. RowsKnown
  BY <1>2 DEF RowsKnown, ProcKnown, PastMain, At, SnapKnown, OnePerRow, Idle
<1>5. ~ Saving /\ ~ At("strategy", "save")
  BY <1>2, ProcsDiffer DEF Saving, At, Idle, Parts
<1> QED
  BY <1>1, <1>3, <1>4, <1>5 DEF IInv, NewIsOwn, EntryIsSaved, SentHasRow, SubmittedIsStored, Init

LEMMA NextInv == IInv /\ [Next]_vars => IInv'
<1> SUFFICES ASSUME IInv, [Next]_vars
             PROVE  IInv'
  OBVIOUS
<1>1. ASSUME up, NEW p \in Procs, Save(p)
      PROVE  IInv'
  BY <1>1, SaveMapKeeps, CaptureKeeps, ExecKeeps, ExecFailsKeeps, RemapKeeps DEF Save
<1>2. ASSUME up, NEW k \in Orders, EnterOrder(k)
      PROVE  IInv'
  BY <1>2, EnterOrderKeeps
<1>3. ASSUME up, NEW o \in Objs, ExitOrder(o) \/ SweepNext(o)
      PROVE  IInv'
  BY <1>3, ExitOrderKeeps, SweepKeeps
<1>4. ASSUME up, NEW p \in Handlers, Handle(p)
      PROVE  IInv'
  BY <1>4, HandleKeeps
<1>5. CASE up /\ (PostOrder \/ Collect \/ SweepDone \/ ReadOpenODs \/ MergeOpenODs \/ Crash)
  BY <1>5, PostOrderKeeps, SweepKeeps, ReadKeeps, MergeKeeps, CrashKeeps
<1>6. CASE Restart
  BY <1>6, RestartKeeps
<1>7. CASE UNCHANGED vars
  <2>1. UNCHANGED <<objs, rows, openOds, lockOds, procs, todo, snap, sent, up, crashes>>
    BY <1>7 DEF vars
  <2>2. TypeOK' /\ Places'
    BY <2>1 DEF IInv, TypeOK, Places, Objs, Live, Empty
  <2>3. RowsKnown'
    <3>1. SnapKnown'
      BY <2>1 DEF IInv, RowsKnown, SnapKnown, OnePerRow, OpenRow, RowOf
    <3>2. \A o \in Objs' : ObjKnown(o)'
      BY <2>1 DEF IInv, RowsKnown, ObjKnown, RowOf, Objs
    <3>3. \A p \in Procs : ProcKnown(p)'
      BY <2>1 DEF IInv, RowsKnown, ProcKnown, PastMain, At, RowOf, Od
    <3> QED
      BY <3>1, <3>2, <3>3 DEF RowsKnown
  <2>4. NewIsOwn' /\ EntryIsSaved' /\ SentHasRow' /\ SubmittedIsStored'
    BY <2>1 DEF IInv, NewIsOwn, EntryIsSaved, SentHasRow, SubmittedIsStored, At, Od, Mapped,
                Saving, PastEnter, AtMain, Stored, RowOf
  <2> QED
    BY <2>2, <2>3, <2>4 DEF IInv
<1> QED
  BY <1>1, <1>2, <1>3, <1>4, <1>5, <1>6, <1>7 DEF Next, Running

(* The inductive invariant, for any orders and handlers and whatever runs    *)
(* beside them: exits, sweeps, reloads, failing statements and crashes.      *)
THEOREM InvariantHolds == Spec => []IInv
BY InitInv, NextInv, PTL DEF Spec

(* The state of the order store keeps its types: the bounds of memory and of *)
(* the database hold, and a mutex is always left for a lock (Lock).          *)
THEOREM TypeCorrect == Spec => []TypeOK
BY InvariantHolds, PTL DEF IInv

(* An order handed to the live manager has its order row and its entry row,  *)
(* whatever statement failed and wherever the process crashed (enterOrder).  *)
THEOREM SubmittedStored == Spec => []SubmittedIsStored
BY InvariantHolds, PTL DEF IInv
-----------------------------------------------------------------------------
(* The locks, where no sweep and no reload runs: those two give an order a   *)
(* second object or a second row, and then its key stands for two locks and  *)
(* two states.                                                               *)

OneObject ==
  /\ \A o, x \in Objs : objs[o].key = objs[x].key => o = x
  /\ \A i, j \in DOMAIN rows : rows[i].key = rows[j].key => i = j
  /\ \A o \in Objs, i \in DOMAIN rows : objs[o].id = 0 => rows[i].key # objs[o].key

Quiet == snap = {} /\ todo = {} /\ procs["sweep"] = Idle

\* Only the strategy adds the row of an order.
Adder(p) == procs[p].add /\ AtMain(p) => p = "strategy" /\ Od(p).id = 0

\* A handler has the mutex of the table while its order is open.
LockKnown(p) ==
  Live(p) => /\ procs[p].mutex # 0 /\ ~ procs[p].add /\ Od(p).id # 0
             /\ Open(Od(p)) => procs[p].mutex = lockOds[Od(p).key]

Apart == \A p, q \in Handlers : p # q /\ Holds(p) /\ Holds(q) => procs[p].mutex # procs[q].mutex

LInv ==
  /\ OneObject /\ Quiet /\ Apart
  /\ \A p \in Procs : Adder(p)
  /\ \A p \in Handlers : LockKnown(p)
----------------------------------------------------------------------------
(* What a step of one goroutine leaves to the others *)

LEMMA ObjectsStay ==
  ASSUME OneObject, Objs' = Objs, DOMAIN rows' = DOMAIN rows,
         \A o \in Objs : objs'[o].key = objs[o].key /\ objs'[o].id = objs[o].id,
         \A i \in DOMAIN rows : rows'[i].key = rows[i].key
  PROVE  OneObject'
BY DEF OneObject

LEMMA OthersLock ==
  ASSUME IInv, LInv, NEW p \in Procs, OneMoves(p), MemGoesOn,
         \A o \in Objs : Open(objs'[o]) => Open(objs[o]),
         \A q \in Handlers \ {p} : Live(q) /\ Open(Od(q)) => lockOds'[Od(q).key] = lockOds[Od(q).key]
  PROVE  \A q \in Handlers \ {p} : LockKnown(q)'
<1> SUFFICES ASSUME NEW q \in Handlers \ {p}, Live(q)'
             PROVE  LockKnown(q)'
  BY DEF LockKnown
<1>1. q \in Procs /\ procs'[q] = procs[q] /\ Live(q)
  BY ProcsDiffer DEF OneMoves, Live
<1>2. /\ procs[q].od \in Objs /\ Od(q) = objs[procs[q].od] /\ Od(q)' = objs'[procs[q].od]
  BY <1>1 DEF IInv, Places, Od
<1>3. Od(q)'.key = Od(q).key /\ (Od(q).id # 0 => Od(q)'.id # 0) /\ (Open(Od(q)') => Open(Od(q)))
  BY <1>2 DEF MemGoesOn
<1>4. procs[q].mutex # 0 /\ ~ procs[q].add /\ Od(q).id # 0
      /\ (Open(Od(q)) => procs[q].mutex = lockOds[Od(q).key])
  BY <1>1 DEF LInv, LockKnown
<1>5. Open(Od(q))' = Open(Od(q)')
  BY DEF Open
<1> QED
  BY <1>1, <1>3, <1>4, <1>5 DEF LockKnown

LEMMA OthersAdd ==
  ASSUME IInv, LInv, NEW p \in Procs, OneMoves(p),
         p # "strategy" => \A o \in Objs : objs'[o].id = objs[o].id
  PROVE  \A q \in Procs \ {p} : Adder(q)'
<1> SUFFICES ASSUME NEW q \in Procs \ {p}, procs'[q].add, AtMain(q)'
             PROVE  q = "strategy" /\ Od(q)'.id = 0
  BY DEF Adder
<1>1. procs'[q] = procs[q] /\ AtMain(q)
  BY DEF OneMoves, AtMain, At
<1>2. q = "strategy" /\ Od(q).id = 0
  BY <1>1 DEF LInv, Adder
<1>3. procs[q].od \in Objs /\ Od(q) = objs[procs[q].od] /\ Od(q)' = objs'[procs[q].od]
  BY <1>1 DEF IInv, Places, Od, AtMain, At, Live
<1> QED
  BY <1>2, <1>3

LEMMA HoldersApart ==
  ASSUME LInv, NEW p \in Procs, OneMoves(p),
         p \in Handlers /\ Holds(p)' => Holds(p) /\ procs'[p].mutex = procs[p].mutex
  PROVE  Apart'
<1> SUFFICES ASSUME NEW a \in Handlers, NEW b \in Handlers, a # b, Holds(a)', Holds(b)'
             PROVE  procs'[a].mutex # procs'[b].mutex
  BY DEF Apart
<1>1. ASSUME NEW x \in Handlers, Holds(x)'
      PROVE  Holds(x) /\ procs'[x].mutex = procs[x].mutex
  BY <1>1, ProcsDiffer DEF OneMoves, Holds
<1> QED
  BY <1>1 DEF LInv, Apart

\* A step of a goroutine that is neither a crash nor a start.
LEMMA LockStep ==
  ASSUME IInv, LInv, NEW p \in Procs \ {"sweep"}, OneMoves(p), MemGoesOn,
         \A o \in Objs : Open(objs'[o]) => Open(objs[o]),
         p # "strategy" => \A o \in Objs : objs'[o].id = objs[o].id,
         \A q \in Handlers \ {p} : Live(q) /\ Open(Od(q)) => lockOds'[Od(q).key] = lockOds[Od(q).key],
         snap' = snap, todo' = todo, OneObject', Apart', Adder(p)', p \in Handlers => LockKnown(p)'
  PROVE  LInv'
<1>1. Quiet'
  BY ProcsDiffer DEF LInv, Quiet, OneMoves
<1>2. \A q \in Procs : Adder(q)'
  BY OthersAdd
<1>3. \A q \in Handlers : LockKnown(q)'
  BY OthersLock
<1> QED
  BY <1>1, <1>2, <1>3 DEF LInv

----------------------------------------------------------------------------
(* Save *)

LEMMA SaverNotSweep ==
  ASSUME IInv, LInv, NEW p \in Procs, Live(p)
  PROVE  p \in Procs \ {"sweep"}
BY DEF LInv, Quiet, Live, Idle

\* A step of Save that moves only the goroutine.
LEMMA SaverMoves ==
  ASSUME IInv, LInv, NEW p \in Procs, Live(p), ~ At(p, "wait"), OneMoves(p),
         objs' = objs, rows' = rows, snap' = snap, todo' = todo,
         procs'[p].pc \notin {"idle", "wait"}, procs'[p].od = procs[p].od,
         procs'[p].mutex = procs[p].mutex,
         procs'[p].add => (procs[p].add \/ Od(p).id = 0),
         procs'[p].add /\ AtMain(p)' => (AtMain(p) \/ Od(p).id = 0),
         \A k \in Orders : lockOds'[k] = lockOds[k] \/ (~ Open(Od(p)) /\ k = Od(p).key)
  PROVE  LInv'
<1>1. /\ TypeOK /\ Places /\ p \in Procs \ {"sweep"} /\ procs[p].od \in Objs
      /\ Od(p) = objs[procs[p].od] /\ Od(p)' = Od(p)
  BY SaverNotSweep, Running_p DEF IInv, Od
<1>2. MemGoesOn
  BY SameMem
<1>3. OneObject'
  BY ObjectsStay DEF LInv, Objs
<1>4. Holds(p)' => Holds(p) 
  BY DEF Holds, Live, At
<1>5. Apart'
  BY <1>4, HoldersApart
<1>6. ASSUME NEW q \in Handlers \ {p}, Live(q), Open(Od(q))
      PROVE  lockOds'[Od(q).key] = lockOds[Od(q).key]
  <2>1. procs[q].od \in Objs /\ Od(q) = objs[procs[q].od] /\ Od(q).key \in Orders
    BY <1>1, <1>6, Running_p, ProcsDiffer
  <2>2. Od(q).key = Od(p).key => Od(q) = Od(p)
    BY <1>1, <2>1 DEF LInv, OneObject
  <2> QED
    BY <1>6, <2>1, <2>2
<1>7. Adder(p)'
  <2>1. SUFFICES ASSUME procs'[p].add, AtMain(p)'
        PROVE  p = "strategy" /\ Od(p).id = 0
    BY <1>1 DEF Adder
  <2>2. CASE procs[p].add /\ AtMain(p)
    BY <2>2 DEF LInv, Adder
  <2>3. CASE Od(p).id = 0
    BY <1>1, <2>3 DEF LInv, LockKnown, Procs
  <2> QED
    BY <2>1, <2>2, <2>3
<1>8. ASSUME p \in Handlers
      PROVE  LockKnown(p)'
  <2>1. procs[p].mutex # 0 /\ ~ procs[p].add /\ Od(p).id # 0
        /\ (Open(Od(p)) => procs[p].mutex = lockOds[Od(p).key])
    BY <1>8 DEF LInv, LockKnown
  <2>2. Open(Od(p)) => lockOds'[Od(p).key] = lockOds[Od(p).key]
    BY <1>1, Running_p
  <2>3. Open(Od(p))' = Open(Od(p))
    BY <1>1 DEF Open
  <2> QED
    BY <1>1, <2>1, <2>2, <2>3 DEF LockKnown
<1> QED
  BY <1>1, <1>2, <1>3, <1>5, <1>6, <1>7, <1>8, LockStep

LEMMA SaveMapLocks ==
  ASSUME IInv, LInv, up, NEW p \in Procs, SaveMap(p)
  PROVE  LInv'
<1>0. TypeOK /\ Places /\ Live(p) /\ ~ At(p, "wait") /\ procs[p] \in Proc
  BY Types DEF IInv, SaveMap, At, Live
<1>1. /\ objs' = objs /\ rows' = rows /\ snap' = snap /\ todo' = todo /\ OneMoves(p)
      /\ procs'[p] = [procs[p] EXCEPT !.pc = "main", !.old = Od(p).id, !.add = Od(p).id = 0]
      /\ lockOds' = IF Open(Od(p)) THEN lockOds ELSE [lockOds EXCEPT ![Od(p).key] = 0]
  BY <1>0 DEF SaveMap, OneMoves, TypeOK
<1>2. procs'[p].pc = "main" /\ procs'[p].od = procs[p].od
  BY <1>0, <1>1 DEF Proc
<1>3. procs'[p].mutex = procs[p].mutex
  BY <1>0, <1>1 DEF Proc
<1>4. procs'[p].add = (Od(p).id = 0)
  BY <1>0, <1>1 DEF Proc
<1>5. \A k \in Orders : lockOds'[k] = lockOds[k] \/ (~ Open(Od(p)) /\ k = Od(p).key)
  BY <1>0, <1>1 DEF TypeOK
<1> QED
  BY <1>0, <1>1, <1>2, <1>3, <1>4, <1>5, SaverMoves

LEMMA CaptureLocks ==
  ASSUME IInv, LInv, up, NEW p \in Procs, Capture(p)
  PROVE  LInv'
<1>0. TypeOK /\ Places /\ Live(p) /\ ~ At(p, "wait") /\ procs[p].pc \in Parts /\ procs[p] \in Proc
  BY Types DEF IInv, Capture, At, Live, Parts
<1>1. /\ objs' = objs /\ rows' = rows /\ snap' = snap /\ todo' = todo /\ OneMoves(p) /\ lockOds' = lockOds
      /\ \/ procs'[p] = [procs[p] EXCEPT !.pc = "exec", !.part = procs[p].pc, !.id = Od(p).id,
                           !.status = Od(p).status, !.filled = Od(p).filled]
         \/ procs'[p] = [procs[p] EXCEPT !.pc = Following[procs[p].pc]]
  BY <1>0 DEF Capture, TypeOK, Goto, OneMoves
<1>2. procs'[p].od = procs[p].od /\ procs'[p].mutex = procs[p].mutex
  BY <1>0, <1>1 DEF Proc
<1>3. procs'[p].add = procs[p].add
  BY <1>0, <1>1 DEF Proc
<1>4. \/ procs'[p].pc = "exec" /\ procs'[p].part = procs[p].pc
      \/ procs'[p].pc = Following[procs[p].pc]
  BY <1>0, <1>1 DEF Proc
<1>5. procs'[p].pc \notin {"idle", "wait", "main"}
  BY <1>0, <1>4 DEF Following, Parts
<1>6. AtMain(p)' => AtMain(p)
  BY <1>0, <1>4, <1>5 DEF AtMain, At, Following, Parts
<1> QED
  BY <1>0, <1>1, <1>2, <1>3, <1>5, <1>6, SaverMoves

LEMMA ExecFailsLocks ==
  ASSUME IInv, LInv, up, NEW p \in Procs, ExecFails(p)
  PROVE  LInv'
<1>0. TypeOK /\ Places /\ Live(p) /\ ~ At(p, "wait") /\ procs[p] \in Proc
  BY Types DEF IInv, ExecFails, At, Live
<1>1. /\ objs' = objs /\ rows' = rows /\ snap' = snap /\ todo' = todo /\ OneMoves(p) /\ lockOds' = lockOds
      /\ procs'[p] = [procs[p] EXCEPT !.pc = "remap", !.part = "main", !.id = 0, !.status = 0,
                        !.filled = 0, !.err = TRUE]
  BY <1>0 DEF ExecFails, OneMoves, TypeOK
<1>2. procs'[p].od = procs[p].od
  BY <1>0, <1>1 DEF Proc
<1>3. procs'[p].mutex = procs[p].mutex
  BY <1>0, <1>1 DEF Proc
<1>4. procs'[p].add = procs[p].add
  BY <1>0, <1>1 DEF Proc
<1>5. procs'[p].pc = "remap"
  BY <1>0, <1>1 DEF Proc
<1>6. ~ AtMain(p)'
  BY <1>5 DEF AtMain, At
<1> QED
  BY <1>0, <1>1, <1>2, <1>3, <1>4, <1>5, <1>6, SaverMoves

LEMMA RemapLocks ==
  ASSUME IInv, LInv, up, NEW p \in Procs, Remap(p)
  PROVE  LInv'
<1>0. TypeOK /\ Places /\ Live(p) /\ ~ At(p, "wait") /\ procs[p] \in Proc
  BY Types DEF IInv, Remap, At, Live
<1>1. /\ objs' = objs /\ rows' = rows /\ snap' = snap /\ todo' = todo /\ OneMoves(p) /\ lockOds' = lockOds
      /\ procs'[p] = [procs[p] EXCEPT !.pc = "after"]
  BY <1>0 DEF Remap, Goto, OneMoves, TypeOK
<1>2. procs'[p].od = procs[p].od /\ procs'[p].mutex = procs[p].mutex
      /\ procs'[p].add = procs[p].add /\ procs'[p].pc = "after"
  BY <1>0, <1>1 DEF Proc
<1>3. ~ AtMain(p)'
  BY <1>2 DEF AtMain, At
<1> QED
  BY <1>0, <1>1, <1>2, <1>3, SaverMoves

LEMMA ExecMutex ==
  ASSUME TypeOK, NEW p \in Procs, Exec(p)
  PROVE  procs'[p].mutex = procs[p].mutex
<1>1. procs'[p] = [procs[p] EXCEPT !.pc = Following[procs[p].part], !.part = "main",
                     !.id = 0, !.status = 0, !.filled = 0]
  BY DEF Exec, TypeOK
<1> QED
  BY <1>1, Types DEF Proc

LEMMA ExecLocks ==
  ASSUME IInv, LInv, up, NEW p \in Procs, Exec(p)
  PROVE  LInv'
<1> DEFINE o == procs[p].od
           adds == procs[p].part = "main" /\ procs[p].add
<1>0. /\ TypeOK /\ Places /\ RowsKnown /\ Live(p) /\ At(p, "exec") /\ p \in Procs \ {"sweep"}
      /\ lockOds' = lockOds /\ snap' = snap /\ todo' = todo /\ OneMoves(p)
  BY ExecMoves, SaverNotSweep DEF IInv, Exec
<1>1. /\ o \in Objs /\ Od(p) = objs[o] /\ procs'[p].od = o /\ Objs' = Objs /\ Od(p)' = objs'[o]
  BY <1>0, ExecMoves, ExecObjects, Running_p DEF Od
<1>2. \A x \in Objs : objs'[x].key = objs[x].key /\ objs'[x].status = objs[x].status
  BY <1>0, ExecObjects
<1>3. adds => /\ p = "strategy" /\ objs[o].id = 0 /\ objs'[o].id # 0
              /\ \A i \in DOMAIN rows' : (i \in DOMAIN rows /\ rows'[i] = rows[i]) \/ i = Len(rows')
              /\ rows'[Len(rows')].key = objs[o].key
  BY <1>0, <1>1, ExecObjects, ExecRows DEF LInv, Adder, AtMain, At, NowRowOf
<1>4. ~ adds => \A x \in Objs : objs'[x].id = objs[x].id
  BY <1>0, <1>1, ExecObjects
<1>5. MemGoesOn
  BY <1>0, <1>1, <1>3, <1>4, ExecObjects DEF MemGoesOn
<1>6. \A x \in Objs : Open(objs'[x]) => Open(objs[x])
  BY <1>2 DEF Open
<1>7. OneObject'
  <2>1. CASE ~ adds
    <3>1. DOMAIN rows' = DOMAIN rows /\ \A i \in DOMAIN rows : rows'[i].key = rows[i].key
      BY <1>0, <2>1, ExecRows DEF RowsGoOn
    <3> QED
      BY <1>1, <1>2, <1>4, <2>1, <3>1, ObjectsStay DEF LInv
  <2>2. CASE adds
    <3>1. OneObject /\ \A i \in DOMAIN rows : rows[i].key # objs[o].key
      BY <1>1, <1>3, <2>2 DEF LInv, OneObject
    <3>2. \A x \in Objs \ {o} : objs'[x].id = objs[x].id
      BY <1>0, ExecObjects
    <3>3. \A x, y \in Objs' : objs'[x].key = objs'[y].key => x = y
      BY <1>1, <1>2, <3>1 DEF OneObject
    <3>4. \A i, j \in DOMAIN rows' : rows'[i].key = rows'[j].key => i = j
      BY <1>3, <2>2, <3>1 DEF OneObject
    <3>5. \A x \in Objs', i \in DOMAIN rows' : objs'[x].id = 0 => rows'[i].key # objs'[x].key
      BY <1>1, <1>2, <1>3, <2>2, <3>1, <3>2 DEF OneObject
    <3> QED
      BY <3>3, <3>4, <3>5 DEF OneObject
  <2> QED
    BY <2>1, <2>2
<1>8. procs'[p].mutex = procs[p].mutex /\ procs'[p].add = procs[p].add
  BY <1>0, ExecMutex, ExecMoves
<1>9. Apart'
  <2>1. p \in Handlers /\ Holds(p)' => Holds(p)
    BY <1>0 DEF Holds, At
  <2> QED
    BY <1>0, <1>8, <2>1, HoldersApart
<1>10. Adder(p)'
  <2>1. ~ AtMain(p)'
    BY <1>0, ExecMoves DEF AtMain, At
  <2> QED
    BY <2>1 DEF Adder
<1>11. ASSUME p \in Handlers
       PROVE  LockKnown(p)'
  <2>1. procs[p].mutex # 0 /\ ~ procs[p].add /\ Od(p).id # 0
        /\ (Open(Od(p)) => procs[p].mutex = lockOds[Od(p).key])
    BY <1>0, <1>11 DEF LInv, LockKnown
  <2>2. Od(p)'.id # 0 /\ Od(p)'.key = Od(p).key /\ (Open(Od(p)') => Open(Od(p)))
    BY <1>1, <1>2, <1>4, <1>6, <2>1
  <2>3. Open(Od(p))' = Open(Od(p)')
    BY DEF Open
  <2> QED
    BY <1>0, <1>8, <2>1, <2>2, <2>3 DEF LockKnown
<1>12. p # "strategy" => \A x \in Objs : objs'[x].id = objs[x].id
  BY <1>3, <1>4
<1> QED
  BY <1>0, <1>5, <1>6, <1>7, <1>9, <1>10, <1>11, <1>12, LockStep

----------------------------------------------------------------------------
(* The strategy and the handlers *)

LEMMA StrategyLocks ==
  ASSUME IInv, LInv, OneMoves("strategy"), MemGoesOn, OneObject',
         \A o \in Objs : objs'[o].status = objs[o].status,
         lockOds' = lockOds, snap' = snap, todo' = todo, ~ AtMain("strategy")'
  PROVE  LInv'
<1>1. "strategy" \in Procs \ {"sweep"} /\ "strategy" \notin Handlers
  BY ProcsDiffer
<1>2. Apart' 
  BY <1>1, HoldersApart
<1>3. Adder("strategy")'
  BY DEF Adder
<1>4. \A o \in Objs : Open(objs'[o]) => Open(objs[o])
  BY DEF Open
<1> QED
  BY <1>1, <1>2, <1>3, <1>4, LockStep

LEMMA EnterOrderLocks ==
  ASSUME IInv, LInv, up, NEW k \in Orders, EnterOrder(k)
  PROVE  LInv'
<1> DEFINE p == "strategy"
           o == Len(objs')
<1>0. /\ TypeOK /\ Places /\ p \in Procs /\ procs[p] = Idle /\ k \in Fresh
      /\ rows' = rows /\ snap' = snap /\ todo' = todo /\ lockOds' = lockOds
  BY ProcsDiffer DEF IInv, EnterOrder, Places, At, Live
<1>1. /\ Len(objs') = Len(objs) + 1 /\ Objs' = 1 .. o /\ Objs = 1 .. Len(objs)
      /\ \A x \in Objs : objs'[x] = objs[x]
      /\ objs'[o].key = k
  <2> DEFINE od == [key |-> k, id |-> 0, status |-> 1, filled |-> 0, exit |-> FALSE,
                    enterID |-> FALSE, exitID |-> FALSE,
                    dirtyMain |-> TRUE, dirtyEnter |-> TRUE, dirtyExit |-> FALSE]
  <2>1. objs' = Append(objs, od)
    BY DEF EnterOrder
  <2>2. od.key = k
    OBVIOUS
  <2> HIDE DEF od
  <2> QED
    BY <1>0, <2>1, <2>2, Types DEF TypeOK, Objs
<1>2. o \in Objs' /\ o \notin Objs /\ Objs \subseteq Objs' /\ \A x \in Objs' : x \in Objs \/ x = o
  BY <1>0, <1>1, Types
<1>3. MemGoesOn
  BY <1>1, <1>2 DEF MemGoesOn
<1>4. OneMoves(p) /\ procs'[p].pc = "save"
  <2>1. procs'[p] = [Idle EXCEPT !.pc = "save", !.od = o]
    BY <1>0 DEF EnterOrder, StartSave, TypeOK
  <2>2. procs'[p].pc = "save"
    BY <2>1 DEF Idle
  <2>3. OneMoves(p)
    BY <1>0 DEF EnterOrder, StartSave, OneMoves, TypeOK
  <2> QED
    BY <2>2, <2>3
<1>5. OneObject'
  <2>1. OneObject /\ (\A x \in Objs : objs[x].key # k) /\ \A i \in DOMAIN rows : rows[i].key # k
    BY <1>0 DEF LInv, Fresh
  <2>2. \A x, y \in Objs' : objs'[x].key = objs'[y].key => x = y
    BY <1>1, <1>2, <2>1 DEF OneObject
  <2>3. \A x \in Objs', i \in DOMAIN rows' : objs'[x].id = 0 => rows'[i].key # objs'[x].key
    BY <1>0, <1>1, <1>2, <2>1 DEF OneObject
  <2> QED
    BY <1>0, <2>1, <2>2, <2>3 DEF OneObject
<1>6. ~ AtMain(p)'
  BY <1>4 DEF AtMain, At
<1> QED
  BY <1>0, <1>1, <1>3, <1>4, <1>5, <1>6, StrategyLocks

LEMMA ExitOrderLocks ==
  ASSUME IInv, LInv, up, NEW o \in Objs, ExitOrder(o)
  PROVE  LInv'
<1> DEFINE p == "strategy"
<1>0. /\ TypeOK /\ Places /\ p \in Procs /\ procs[p] = Idle /\ objs[o] \in InOutOrder
      /\ rows' = rows /\ snap' = snap /\ todo' = todo /\ lockOds' = lockOds
  BY ProcsDiffer, Types DEF IInv, ExitOrder, Places, At, Live
<1>1. /\ Objs' = Objs
      /\ \A x \in Objs : /\ objs'[x].key = objs[x].key /\ objs'[x].id = objs[x].id
                         /\ objs'[x].status = objs[x].status /\ (objs[x].exit => objs'[x].exit)
  <2> DEFINE od == [objs[o] EXCEPT !.exit = TRUE, !.dirtyMain = TRUE, !.dirtyExit = TRUE]
  <2>1. objs' = [objs EXCEPT ![o] = od]
    BY DEF ExitOrder
  <2>2. od.key = objs[o].key
    BY <1>0 DEF InOutOrder
  <2>3. od.id = objs[o].id
    BY <1>0 DEF InOutOrder
  <2>4. od.status = objs[o].status
    BY <1>0 DEF InOutOrder
  <2>5. od.exit
    BY <1>0 DEF InOutOrder
  <2> HIDE DEF od
  <2> QED
    BY <1>0, <2>1, <2>2, <2>3, <2>4, <2>5, Types DEF TypeOK, Objs
<1>2. MemGoesOn /\ OneObject'
  BY <1>0, <1>1, ObjectsStay DEF MemGoesOn, LInv
<1>3. OneMoves(p) /\ procs'[p].pc = "save"
  <2>1. procs'[p] = [Idle EXCEPT !.pc = "save", !.od = o]
    BY <1>0 DEF ExitOrder, StartSave, TypeOK
  <2>2. procs'[p].pc = "save"
    BY <2>1 DEF Idle
  <2>3. OneMoves(p)
    BY <1>0 DEF ExitOrder, StartSave, OneMoves, TypeOK
  <2> QED
    BY <2>2, <2>3
<1>4. ~ AtMain(p)'
  BY <1>3 DEF AtMain, At
<1> QED
  BY <1>0, <1>1, <1>2, <1>3, <1>4, StrategyLocks

LEMMA PostOrderLocks ==
  ASSUME IInv, LInv, up, PostOrder
  PROVE  LInv'
<1>1. /\ objs' = objs /\ rows' = rows /\ snap' = snap /\ todo' = todo /\ lockOds' = lockOds
      /\ OneMoves("strategy") /\ procs'["strategy"] = Idle
  BY ProcsDiffer DEF IInv, PostOrder, TypeOK, OneMoves
<1>2. MemGoesOn /\ OneObject'
  BY <1>1, SameMem, ObjectsStay DEF LInv, Objs
<1>3. ~ AtMain("strategy")'
  BY <1>1 DEF AtMain, At, Idle
<1> QED
  BY <1>1, <1>2, <1>3, StrategyLocks

\* A handler's step outside Save.
LEMMA HandlerLocks ==
  ASSUME IInv, LInv, NEW p \in Handlers, OneMoves(p), Objs' = Objs,
         \A o \in Objs : /\ objs'[o].key = objs[o].key /\ objs'[o].id = objs[o].id
                         /\ (objs[o].exit => objs'[o].exit)
                         /\ Open(objs'[o]) => Open(objs[o]),
         rows' = rows, snap' = snap, todo' = todo,
         \A q \in Handlers \ {p} : Live(q) /\ Open(Od(q)) => lockOds'[Od(q).key] = lockOds[Od(q).key],
         procs'[p].pc \in {"idle", "wait", "work", "save", "after"}, LockKnown(p)', Apart'
  PROVE  LInv'
<1>1. p \in Procs \ {"sweep"} /\ p # "strategy"
  BY ProcsDiffer
<1>2. MemGoesOn /\ OneObject'
  BY ObjectsStay DEF MemGoesOn, LInv
<1>3. ~ AtMain(p)'
  BY DEF AtMain, At
<1>4. Adder(p)'
  BY <1>3 DEF Adder
<1> QED
  BY <1>1, <1>2, <1>4, LockStep

LEMMA LookUpLocks ==
  ASSUME IInv, LInv, up, NEW p \in Handlers, NEW o \in Objs, LookUp(p, o)
  PROVE  LInv'
<1> DEFINE k == objs[o].key
           m == IF lockOds[k] # 0 THEN lockOds[k] ELSE NewMutex
<1>0. /\ TypeOK /\ Places /\ p \in Procs /\ procs[p] = Idle /\ objs[o] \in InOutOrder /\ k \in Orders
      /\ objs' = objs /\ rows' = rows /\ snap' = snap /\ todo' = todo
  BY ProcsDiffer, Types DEF IInv, LookUp, Places, At, Live, InOutOrder
<1>1. lockOds' = [lockOds EXCEPT ![k] = m] /\ m # 0
  BY <1>0, NewMutexType, ConstantsType DEF LookUp
<1>2. procs'[p] = [Idle EXCEPT !.pc = "wait", !.od = o, !.mutex = m] /\ OneMoves(p)
  BY <1>0 DEF LookUp, TypeOK, OneMoves
<1> HIDE DEF m
<1>3. /\ procs'[p].pc = "wait" /\ procs'[p].od = o /\ procs'[p].mutex = m /\ ~ procs'[p].add
  BY <1>2 DEF Idle
<1>4. objs[o].id # 0
  <2>1. \E i \in DOMAIN rows : rows[i].key = k
    BY <1>0 DEF LookUp, IInv, SentHasRow
  <2> QED
    BY <2>1 DEF LInv, OneObject
<1>5. LockKnown(p)'
  <2>1. Od(p)' = objs[o]
    BY <1>0, <1>3 DEF Od
  <2>2. lockOds'[k] = m
    BY <1>0, <1>1 DEF TypeOK
  <2> QED
    BY <1>1, <1>3, <1>4, <2>1, <2>2 DEF LockKnown
<1>6. ASSUME NEW q \in Handlers \ {p}, Live(q), Open(Od(q))
      PROVE  lockOds'[Od(q).key] = lockOds[Od(q).key]
  <2>1. procs[q].mutex = lockOds[Od(q).key] /\ procs[q].mutex # 0 /\ Od(q).key \in Orders
    BY <1>0, <1>6, Running_p, ProcsDiffer DEF LInv, LockKnown
  <2> QED
    BY <1>0, <1>1, <2>1 DEF TypeOK, m
<1>7. Apart'
  <2>1. ~ Holds(p)'
    BY <1>3 DEF Holds
  <2> QED
    BY <1>0, <1>2, <2>1, HoldersApart
<1> QED
  BY <1>0, <1>2, <1>3, <1>5, <1>6, <1>7, HandlerLocks DEF Objs

LEMMA AcquireLocks ==
  ASSUME IInv, LInv, up, NEW p \in Handlers, Acquire(p)
  PROVE  LInv'
<1>0. /\ TypeOK /\ Places /\ p \in Procs /\ Live(p) /\ procs[p] \in Proc /\ procs[p].od \in Objs
      /\ objs' = objs /\ rows' = rows /\ snap' = snap /\ todo' = todo /\ lockOds' = lockOds
  BY ProcsDiffer, Types DEF IInv, Acquire, Places, At, Live
<1>1. procs'[p] = [procs[p] EXCEPT !.pc = "work"] /\ OneMoves(p)
  BY <1>0 DEF Acquire, Goto, TypeOK, OneMoves
<1>2. /\ procs'[p].pc = "work" /\ procs'[p].od = procs[p].od
      /\ procs'[p].mutex = procs[p].mutex /\ procs'[p].add = procs[p].add
  BY <1>0, <1>1 DEF Proc
<1>3. LockKnown(p)'
  <2>1. Od(p)' = Od(p)
    BY <1>0, <1>2 DEF Od
  <2>2. Open(Od(p))' = Open(Od(p))
    BY <2>1 DEF Open
  <2> QED
    BY <1>0, <1>2, <2>1, <2>2 DEF LockKnown, LInv
<1>4. Apart'
  <2>1. SUFFICES ASSUME NEW a \in Handlers, NEW b \in Handlers, a # b, Holds(a)', Holds(b)'
        PROVE  procs'[a].mutex # procs'[b].mutex
    BY DEF Apart
  <2>2. ASSUME NEW x \in Handlers \ {p}, Holds(x)'
        PROVE  Holds(x) /\ procs'[x].mutex = procs[x].mutex /\ procs[x].mutex # procs[p].mutex
    BY <1>1, <2>2, ProcsDiffer DEF OneMoves, Holds, Acquire, Held
  <2> QED
    BY <1>2, <2>1, <2>2 DEF LInv, Apart
<1> QED
  BY <1>0, <1>1, <1>2, <1>3, <1>4, HandlerLocks DEF Objs

LEMMA WorkLocks ==
  ASSUME IInv, LInv, up, NEW p \in Handlers, Work(p)
  PROVE  LInv'
<1>0. /\ TypeOK /\ Places /\ p \in Procs /\ Live(p) /\ procs[p] \in Proc /\ procs[p].od \in Objs
      /\ Od(p) = objs[procs[p].od] /\ Od(p) \in InOutOrder /\ Holds(p)
      /\ rows' = rows /\ snap' = snap /\ todo' = todo /\ lockOds' = lockOds
  <2>1. Live(p) /\ p \in Procs /\ TypeOK /\ Places
    BY ProcsDiffer DEF IInv, Work, At, Live
  <2> QED
    BY <2>1, Types, Running_p DEF Work, At, Holds
<1>1. PICK new \in Changes(Od(p)) : /\ objs' = [objs EXCEPT ![procs[p].od] = new]
                                    /\ Goto(p, IF IsDirty(new) THEN "save" ELSE "after")
  BY DEF Work
<1>2. /\ new.key = Od(p).key /\ new.id = Od(p).id /\ (Od(p).exit => new.exit)
      /\ Open(new) => Open(Od(p))
  BY <1>0, ChangesType DEF Open
<1>3. /\ Objs' = Objs /\ objs'[procs[p].od] = new
      /\ \A o \in Objs : /\ objs'[o].key = objs[o].key /\ objs'[o].id = objs[o].id
                         /\ (objs[o].exit => objs'[o].exit)
                         /\ Open(objs'[o]) => Open(objs[o])
  BY <1>0, <1>1, <1>2, Types DEF TypeOK, Objs
<1>4. \E pc \in {"save", "after"} : procs' = [procs EXCEPT ![p].pc = pc]
  BY <1>1 DEF Goto
<1>5. /\ OneMoves(p) /\ procs'[p].pc \in {"save", "after"} /\ procs'[p].od = procs[p].od
      /\ procs'[p].mutex = procs[p].mutex /\ procs'[p].add = procs[p].add
  BY <1>0, <1>4 DEF TypeOK, OneMoves, Proc
<1>6. LockKnown(p)'
  <2>1. Od(p)' = new
    BY <1>3, <1>5 DEF Od
  <2>2. Open(Od(p))' = Open(new)
    BY <2>1 DEF Open
  <2> QED
    BY <1>0, <1>2, <1>5, <2>1, <2>2 DEF LockKnown, LInv
<1>7. Apart'
  BY <1>0, <1>5, HoldersApart
<1> QED
  BY <1>0, <1>3, <1>5, <1>6, <1>7, HandlerLocks

LEMMA UnlockLocks ==
  ASSUME IInv, LInv, up, NEW p \in Handlers, Unlock(p)
  PROVE  LInv'
<1>1. /\ objs' = objs /\ rows' = rows /\ snap' = snap /\ todo' = todo /\ lockOds' = lockOds
      /\ p \in Procs /\ OneMoves(p) /\ procs'[p] = Idle
  BY ProcsDiffer DEF IInv, Unlock, TypeOK, OneMoves
<1>2. LockKnown(p)' /\ ~ Holds(p)' /\ procs'[p].pc = "idle"
  BY <1>1 DEF LockKnown, Live, Holds, Idle
<1>3. Apart'
  BY <1>1, <1>2, HoldersApart
<1> QED
  BY <1>1, <1>2, <1>3, HandlerLocks DEF Objs

----------------------------------------------------------------------------
(* A crash and a start *)

LEMMA StillLocks ==
  ASSUME ~ Live("sweep")', procs'["sweep"] = Idle, snap' = {}, todo' = {}, OneObject',
         \A p \in Procs : procs'[p] = Idle
  PROVE  LInv'
<1>1. \A p \in Procs : ~ Live(p)' /\ ~ AtMain(p)' /\ ~ Holds(p)'
  BY DEF Live, AtMain, At, Holds, Idle
<1>2. Quiet' /\ Apart'
  BY <1>1, ProcsDiffer DEF Quiet, Apart
<1> QED
  BY <1>1, <1>2, ProcsDiffer DEF LInv, Adder, LockKnown

LEMMA CrashLocks ==
  ASSUME IInv, LInv, Crash
  PROVE  LInv'
<1>1. /\ Objs' = {} /\ snap' = {} /\ todo' = {} /\ rows' = rows
      /\ \A p \in Procs : procs'[p] = Idle
  BY DEF Crash, Objs
<1>2. OneObject'
  BY <1>1 DEF LInv, OneObject
<1> QED
  BY <1>1, <1>2, StillLocks, ProcsDiffer DEF Live, Idle

LEMMA RestartObjects ==
  ASSUME IInv, Restart
  PROVE  /\ \A i \in DOMAIN rows : rows'[i].key = rows[i].key
         /\ \A o \in Objs' : \E i \in Kept : /\ i # 0 /\ i \in DOMAIN rows /\ objs'[o].id = i
                                            /\ objs'[o].key = rows[i].key /\ openOds'[i] = o
<1>0. /\ TypeOK /\ Places /\ DOMAIN rows' = DOMAIN rows /\ Empty
      /\ UNCHANGED <<procs, todo, snap>> /\ Load(KeptRows, <<>>, openOds)
  BY RestartType, RestartLoads DEF IInv
<1>1. \A i \in DOMAIN rows : rows'[i].key = rows[i].key
  <2>1. rows' = [i \in DOMAIN rows |-> IF i \in OpenRows \ Kept
                                       THEN [rows[i] EXCEPT !.status = 0] ELSE rows[i]]
    BY <1>0, RestartLoads
  <2> QED
    BY <1>0, <2>1, Types DEF Row
<1>2. /\ Objs' = 1 .. Len(objs')
      /\ \A o \in Objs' : \E s \in KeptRows : objs'[o] = Loaded(s[1], s[2]) /\ openOds'[s[1]] = o
  <2>1. <<>> \in Seq(InOutOrder) /\ Len(<<>>) = 0
    OBVIOUS
  <2>2. Len(<<>>) + Cardinality(KeptRows) <= MaxObjs
    BY <1>0, <2>1, RestartLoads, KeptRowsType, FS_CardinalityType
  <2>3. Adds(KeptRows, <<>>, openOds)
    BY <1>0, <2>1, <2>2, KeptRowsType, LoadAdds DEF TypeOK
  <2>4. /\ objs' \in Seq(InOutOrder)
        /\ \A o \in Len(<<>>) + 1 .. Len(objs') :
             \E s \in KeptRows : objs'[o] = Loaded(s[1], s[2]) /\ openOds'[s[1]] = o
    BY <2>3 DEF Adds
  <2>5. Objs' = 1 .. Len(objs') /\ Len(<<>>) + 1 = 1
    BY <2>1, <2>4 DEF Objs
  <2> QED
    BY <2>4, <2>5
<1>3. ASSUME NEW o \in Objs'
      PROVE  \E i \in Kept : /\ i # 0 /\ i \in DOMAIN rows /\ objs'[o].id = i
                              /\ objs'[o].key = rows[i].key /\ openOds'[i] = o
  <2>1. PICK s \in KeptRows : objs'[o] = Loaded(s[1], s[2]) /\ openOds'[s[1]] = o
    BY <1>2
  <2>2. s[1] \in 1 .. MaxRows /\ s[2] \in OpenRow /\ s[1] \in Kept /\ s[2] = rows[s[1]]
    BY <1>0, KeptRowsType
  <2>3. objs'[o].id = s[1] /\ objs'[o].key = s[2].key
    BY <2>1, <2>2, LoadedType
  <2> QED
    BY <2>1, <2>2, <2>3, ConstantsType DEF Kept, OpenRows
<1> QED
  BY <1>1, <1>3

LEMMA RestartLocks ==
  ASSUME IInv, LInv, Restart
  PROVE  LInv'
<1>0. /\ TypeOK /\ Places /\ DOMAIN rows' = DOMAIN rows /\ Empty /\ UNCHANGED <<procs, todo, snap>>
  BY RestartType, RestartLoads DEF IInv
<1>1. OneObject'
  <2>1. \A o \in Objs' : \E i \in DOMAIN rows :
          objs'[o].id = i /\ i # 0 /\ objs'[o].key = rows[i].key /\ openOds'[i] = o
    BY RestartObjects
  <2>2. \A i \in DOMAIN rows : rows'[i].key = rows[i].key
    BY RestartObjects
  <2> QED
    BY <1>0, <2>1, <2>2 DEF LInv, OneObject
<1>2. \A p \in Procs : procs'[p] = Idle
  BY <1>0 DEF Empty
<1> QED
  BY <1>0, <1>1, <1>2, StillLocks, ProcsDiffer DEF Empty, Live, Idle
----------------------------------------------------------------------------
LEMMA NoOthers ==
  ASSUME LInv, Unlocked \subseteq {"exit"}
  PROVE  ~ (Collect \/ (\E o \in Objs : SweepNext(o)) \/ SweepDone \/ ReadOpenODs \/ MergeOpenODs)
BY DEF LInv, Quiet, Idle, At, Collect, SweepNext, SweepDone, ReadOpenODs, MergeOpenODs

LEMMA InitLocks == Init => LInv
<1> SUFFICES ASSUME Init
             PROVE  LInv
  OBVIOUS
<1>1. (\A p \in Procs : procs[p] = Idle) /\ Objs = {} /\ DOMAIN rows = {} /\ snap = {} /\ todo = {}
  BY DEF Init, Objs
<1>2. \A p \in Procs : ~ Live(p) /\ ~ AtMain(p) /\ ~ Holds(p)
  BY <1>1 DEF Live, AtMain, At, Holds, Idle
<1> QED
  BY <1>1, <1>2, ProcsDiffer DEF LInv, OneObject, Quiet, Apart, Adder, LockKnown

LEMMA NextLocks ==
  ASSUME Unlocked \subseteq {"exit"}
  PROVE  IInv /\ LInv /\ [Next]_vars => LInv'
<1> SUFFICES ASSUME IInv, LInv, [Next]_vars
             PROVE  LInv'
  OBVIOUS
<1>1. ASSUME up, NEW p \in Procs, Save(p)
      PROVE  LInv'
  BY <1>1, SaveMapLocks, CaptureLocks, ExecLocks, ExecFailsLocks, RemapLocks DEF Save
<1>2. ASSUME up, NEW k \in Orders, EnterOrder(k)
      PROVE  LInv'
  BY <1>2, EnterOrderLocks
<1>3. ASSUME up, NEW o \in Objs, ExitOrder(o) \/ SweepNext(o)
      PROVE  LInv'
  BY <1>3, ExitOrderLocks, NoOthers
<1>4. ASSUME up, NEW p \in Handlers, Handle(p)
      PROVE  LInv'
  BY <1>4, LookUpLocks, AcquireLocks, WorkLocks, UnlockLocks DEF Handle
<1>5. CASE up /\ (PostOrder \/ Collect \/ SweepDone \/ ReadOpenODs \/ MergeOpenODs \/ Crash)
  BY <1>5, PostOrderLocks, CrashLocks, NoOthers
<1>6. CASE Restart
  BY <1>6, RestartLocks
<1>7. CASE UNCHANGED vars
  <2>1. UNCHANGED <<objs, rows, lockOds, procs, todo, snap>>
    BY <1>7 DEF vars
  <2> QED
    BY <2>1 DEF LInv, OneObject, Quiet, Apart, Adder, LockKnown, Objs, Holds, AtMain, At, Live, Od, Open
<1> QED
  BY <1>1, <1>2, <1>3, <1>4, <1>5, <1>6, <1>7 DEF Next, Running

LEMMA OneHolder ==
  ASSUME IInv, LInv
  PROVE  SharedOnlyClosed
<1> SUFFICES ASSUME NEW p \in DOMAIN procs, NEW q \in DOMAIN procs,
                    Holds(p), Holds(q), Shared(p, q), Open(Od(p))
             PROVE  FALSE
  BY DEF SharedOnlyClosed
<1>1. p \in Handlers /\ q \in Handlers /\ p # q /\ Live(p) /\ Live(q) /\ Od(p).key = Od(q).key
  BY DEF Holds, Shared, Live
<1>2. Od(p) = Od(q)
  BY <1>1, ProcsDiffer DEF IInv, Places, LInv, OneObject, Od
<1>3. procs[p].mutex = lockOds[Od(p).key] /\ procs[q].mutex = lockOds[Od(p).key]
  BY <1>1, <1>2 DEF LInv, LockKnown
<1> QED
  BY <1>1, <1>3 DEF LInv, Apart

(* Two handlers hold the lock of an order at once only when it is fully      *)
(* exited, though Save drops the lock from the table while it is held        *)
(* (removeDumpOrder, LockOrder): no two handlers change an open order.        *)
THEOREM SharedClosed ==
  ASSUME Unlocked \subseteq {"exit"}
  PROVE  Spec => []SharedOnlyClosed
<1>1. Init => IInv /\ LInv
  BY InitInv, InitLocks
<1>2. IInv /\ LInv /\ [Next]_vars => (IInv /\ LInv)'
  BY NextInv, NextLocks
<1>3. IInv /\ LInv => SharedOnlyClosed
  BY OneHolder
<1> QED
  BY <1>1, <1>2, <1>3, PTL DEF Spec

----------------------------------------------------------------------------
(* Where the strategy asks for no exit either: what the database has closed *)

\* What a statement has captured is still the state of the order.
Captured(p) ==
  At(p, "exec") =>
    /\ procs[p].status = 3 => Od(p).status = 3
    /\ procs[p].id # 0 => procs[p].id = Od(p).id
    /\ p \in Handlers /\ procs[p].part = "main" => procs[p].status = Od(p).status

OnlyAdds ==
  /\ At("strategy", "save") => Od("strategy").id = 0
  /\ AtMain("strategy") => procs["strategy"].add

ClosedInMemory ==
  \A o \in Objs : objs[o].id # 0 /\ rows[objs[o].id].status = 3 => objs[o].status = 3

CInv == ClosedInMemory /\ OnlyAdds /\ \A p \in Procs : Captured(p)

\* Orders never reopen, and an id once given stays.
MemStays ==
  /\ Objs \subseteq Objs'
  /\ \A o \in Objs : /\ objs[o].status = 3 => objs'[o].status = 3
                     /\ objs[o].id # 0 => objs'[o].id = objs[o].id

LEMMA OthersCaptured ==
  ASSUME IInv, CInv, NEW p \in Procs, OneMoves(p), MemStays,
         \A q \in Handlers \ {p} : At(q, "exec") => Od(q)'.status = Od(q).status
  PROVE  \A q \in Procs \ {p} : Captured(q)'
<1> SUFFICES ASSUME NEW q \in Procs \ {p}, At(q, "exec")'
             PROVE  Captured(q)'
  BY DEF Captured
<1>1. procs'[q] = procs[q] /\ At(q, "exec") /\ Live(q)
  BY DEF OneMoves, At, Live
<1>2. /\ procs[q].od \in Objs /\ Od(q) = objs[procs[q].od] /\ Od(q)' = objs'[procs[q].od]
  BY <1>1 DEF IInv, Places, Od
<1>3. ObjKnown(procs[q].od) /\ Captured(q)
  BY <1>2 DEF IInv, RowsKnown, CInv
<1>4. (Od(q).status = 3 => Od(q)'.status = 3) /\ (Od(q).id # 0 => Od(q)'.id = Od(q).id)
  BY <1>2 DEF MemStays
<1> QED
  BY <1>1, <1>3, <1>4 DEF Captured

LEMMA StillOnlyAdds ==
  ASSUME IInv, LInv, CInv, NEW p \in Procs \ {"strategy"}, OneMoves(p),
         \A o \in Objs : objs'[o].id = objs[o].id
  PROVE  OnlyAdds'
<1>1. procs'["strategy"] = procs["strategy"]
  BY ProcsDiffer DEF OneMoves
<1>2. Live("strategy") => Od("strategy")'.id = Od("strategy").id
  BY <1>1, ProcsDiffer DEF IInv, Places, Od
<1> QED
  BY <1>1, <1>2 DEF CInv, OnlyAdds, At, AtMain, Live

\* A step that leaves the orders and the rows alone.
LEMMA MoveCloses ==
  ASSUME IInv, LInv, CInv, NEW p \in Procs, OneMoves(p), objs' = objs, rows' = rows,
         Captured(p)', p = "strategy" => OnlyAdds'
  PROVE  CInv'
<1>1. MemStays
  BY DEF MemStays, Objs
<1>2. \A q \in Handlers \ {p} : At(q, "exec") => Od(q)'.status = Od(q).status
  BY ProcsDiffer DEF OneMoves, Od
<1>3. \A q \in Procs : Captured(q)'
  BY <1>1, <1>2, OthersCaptured
<1>4. OnlyAdds'
  BY StillOnlyAdds
<1>5. ClosedInMemory'
  BY DEF CInv, ClosedInMemory, Objs
<1> QED
  BY <1>3, <1>4, <1>5 DEF CInv

LEMMA SaveCloses ==
  ASSUME IInv, LInv, CInv, NEW p \in Procs, SaveMap(p) \/ Capture(p) \/ ExecFails(p) \/ Remap(p)
  PROVE  CInv'
<1>0. TypeOK /\ Places /\ procs[p] \in Proc /\ objs' = objs /\ rows' = rows
  BY Types DEF IInv, SaveMap, Capture, ExecFails, Remap
<1>1. CASE SaveMap(p)
  <2>1. /\ OneMoves(p) /\ At(p, "save")
        /\ procs'[p] = [procs[p] EXCEPT !.pc = "main", !.old = Od(p).id, !.add = Od(p).id = 0]
    BY <1>0, <1>1 DEF SaveMap, OneMoves, TypeOK
  <2>2. procs'[p].pc = "main"
    BY <1>0, <2>1 DEF Proc
  <2>3. procs'[p].add = (Od(p).id = 0)
    BY <1>0, <2>1 DEF Proc
  <2> QED
    BY <1>0, <2>1, <2>2, <2>3, MoveCloses DEF Captured, OnlyAdds, At, CInv
<1>2. CASE Capture(p)
  <2>1. /\ OneMoves(p) /\ procs[p].pc \in Parts
        /\ \/ procs'[p] = [procs[p] EXCEPT !.pc = "exec", !.part = procs[p].pc, !.id = Od(p).id,
                             !.status = Od(p).status, !.filled = Od(p).filled]
           \/ procs'[p] = [procs[p] EXCEPT !.pc = Following[procs[p].pc]]
    BY <1>0, <1>2 DEF Capture, TypeOK, Goto, OneMoves
  <2>2. procs'[p].add = procs[p].add
    BY <1>0, <2>1 DEF Proc
  <2>3. procs'[p].od = procs[p].od
    BY <1>0, <2>1 DEF Proc
  <2>4. \/ /\ procs'[p].pc = "exec" /\ procs'[p].part = procs[p].pc
           /\ procs'[p].id = Od(p).id /\ procs'[p].status = Od(p).status
        \/ procs'[p].pc = Following[procs[p].pc]
    BY <1>0, <2>1 DEF Proc
  <2>5. Od(p)' = Od(p)
    BY <1>0, <2>3 DEF Od
  <2>6. Following[procs[p].pc] \notin {"main", "save", "exec"} /\ "exec" \notin {"main", "save"}
    BY <2>1 DEF Following, Parts
  <2>7. Captured(p)'
    BY <2>4, <2>5, <2>6 DEF Captured, At
  <2>8. ~ At(p, "save")' /\ (AtMain(p)' => AtMain(p))
    BY <2>1, <2>4, <2>6 DEF AtMain, At, Parts
  <2>9. p = "strategy" => OnlyAdds'
    BY <2>2, <2>8 DEF CInv, OnlyAdds
  <2> QED
    BY <1>0, <2>1, <2>7, <2>9, MoveCloses
<1>3. CASE ExecFails(p) \/ Remap(p)
  <2>1. OneMoves(p)
    BY <1>0, <1>3 DEF ExecFails, Remap, Goto, OneMoves, TypeOK
  <2>2. procs'[p].pc \in {"remap", "after"}
    <3>1. CASE ExecFails(p)
      <4>1. procs'[p] = [procs[p] EXCEPT !.pc = "remap", !.part = "main", !.id = 0, !.status = 0,
                        !.filled = 0, !.err = TRUE]
        BY <1>0, <3>1 DEF ExecFails, TypeOK
      <4> QED
        BY <1>0, <4>1 DEF Proc
    <3>2. CASE Remap(p)
      BY <1>0, <3>2 DEF Remap, Goto, TypeOK, Proc
    <3> QED
      BY <1>3, <3>1, <3>2
  <2>3. Captured(p)' /\ (p = "strategy" => OnlyAdds')
    BY <2>2 DEF Captured, OnlyAdds, At, AtMain
  <2> QED
    BY <1>0, <2>1, <2>3, MoveCloses
<1> QED
  BY <1>1, <1>2, <1>3

LEMMA ExecCloses ==
  ASSUME IInv, LInv, CInv, up, NEW p \in Procs, Exec(p)
  PROVE  /\ CInv'
         /\ \A i \in DOMAIN rows : /\ i \in DOMAIN rows' /\ rows'[i].key = rows[i].key
                                   /\ rows[i].status = 3 => rows'[i].status = 3
<1> DEFINE o == procs[p].od
           adds == procs[p].part = "main" /\ procs[p].add
<1>0. /\ TypeOK /\ Places /\ RowsKnown /\ Live(p) /\ At(p, "exec") /\ p \in Procs \ {"sweep"}
      /\ OneMoves(p) /\ procs[p].part \in Parts
  BY ExecMoves, SaverNotSweep DEF IInv
<1>1. /\ o \in Objs /\ Od(p) = objs[o] /\ procs'[p].od = o /\ Objs' = Objs /\ Od(p)' = objs'[o]
      /\ \A x \in Objs : objs'[x].key = objs[x].key /\ objs'[x].status = objs[x].status
  BY <1>0, ExecMoves, ExecObjects, Running_p DEF Od
<1>2. Captured(p) /\ ClosedInMemory /\ ProcKnown(p) /\ \A x \in Objs : ObjKnown(x)
  BY <1>0 DEF CInv, RowsKnown
<1>3. adds => p = "strategy" /\ objs[o].id = 0 /\ objs'[o].id = Len(rows')
  BY <1>0, <1>1, ExecObjects DEF LInv, Adder, AtMain, At
<1>4. \A x \in Objs : x # o \/ ~ adds => objs'[x].id = objs[x].id
  BY <1>0, <1>1, ExecObjects
<1>5. MemStays
  BY <1>1, <1>3, <1>4 DEF MemStays
<1>6. ASSUME NEW i \in DOMAIN rows
      PROVE  /\ i \in DOMAIN rows' /\ rows'[i].key = rows[i].key
             /\ rows[i].status = 3 => rows'[i].status = 3
             /\ rows'[i].status = 3 => rows[i].status = 3 \/ (~ adds /\ i = procs[p].id /\ objs[o].status = 3)
  <2>1. i \in DOMAIN rows' /\ rows'[i].key = rows[i].key
    BY <1>0, ExecRows DEF RowsGoOn
  <2>2. CASE adds
    <3>1. Len(rows') = Len(rows) + 1 /\ ((i \in DOMAIN rows /\ rows'[i] = rows[i]) \/ i = Len(rows'))
      BY <1>0, <2>1, <2>2, ExecRows
    <3>2. rows'[i] = rows[i]
      BY <1>0, <3>1, Types
    <3> QED
      BY <2>1, <3>2
  <2>3. CASE ~ adds /\ i # procs[p].id
    <3>1. rows'[i] = rows[i]
      BY <1>0, <2>3, ExecRows
    <3> QED
      BY <2>1, <3>1
  <2>4. CASE ~ adds /\ i = procs[p].id
    <3>1. rows'[i].status = IF procs[p].part = "main" THEN procs[p].status ELSE rows[i].status
      BY <1>0, <2>4, ExecRows
    <3>2. CASE procs[p].part # "main"
      BY <2>1, <3>1, <3>2
    <3>3. CASE procs[p].part = "main"
      <4>1. p \in Handlers
        BY <1>0, <2>4, <3>3 DEF CInv, OnlyAdds, AtMain, At, Procs
      <4>2. procs[p].status = objs[o].status
        BY <1>0, <1>1, <1>2, <3>3, <4>1 DEF Captured
      <4>3. i # 0
        BY <1>0, Types
      <4>4. objs[o].id = i
        BY <1>0, <1>1, <1>2, <2>4, <4>3 DEF Captured
      <4>5. rows[i].status = 3 => objs[o].status = 3
        BY <1>1, <1>2, <4>3, <4>4 DEF ClosedInMemory
      <4> QED
        BY <2>1, <2>4, <3>1, <3>3, <4>2, <4>5
    <3> QED
      BY <3>2, <3>3
  <2> QED
    BY <2>2, <2>3, <2>4
<1>7. ClosedInMemory'
  <2>1. SUFFICES ASSUME NEW x \in Objs, objs'[x].id # 0, rows'[objs'[x].id].status = 3
        PROVE  objs[x].status = 3
    BY <1>1 DEF ClosedInMemory
  <2>2. CASE adds /\ x = o
    <3>1. rows'[Len(rows')].status = procs[p].status
      BY <1>0, <2>2, ExecRows
    <3> QED
      BY <1>0, <1>1, <1>2, <1>3, <2>1, <2>2, <3>1 DEF Captured
  <2>3. CASE ~ (adds /\ x = o)
    <3>1. objs'[x].id = objs[x].id /\ objs[x].id # 0
      BY <1>4, <2>1, <2>3
    <3>2. RowOf(objs[x].id, objs[x].key)
      BY <1>2, <3>1 DEF ObjKnown
    <3>3. CASE rows[objs[x].id].status = 3
      BY <1>2, <3>1, <3>3 DEF ClosedInMemory
    <3>4. CASE ~ adds /\ objs[x].id = procs[p].id /\ objs[o].status = 3
      <4>1. objs[o].id = objs[x].id
        BY <1>0, <1>1, <1>2, <3>1, <3>4 DEF Captured
      <4>2. objs[o].key = objs[x].key
        BY <1>1, <1>2, <3>1, <3>2, <4>1 DEF ObjKnown, RowOf
      <4> QED
        BY <1>1, <3>4, <4>2 DEF LInv, OneObject
    <3> QED
      BY <1>6, <2>1, <3>1, <3>2, <3>3, <3>4 DEF RowOf
  <2> QED
    BY <2>2, <2>3
<1>8. Captured(p)' /\ (p = "strategy" => OnlyAdds')
  BY <1>0, ExecMoves DEF Captured, OnlyAdds, At, AtMain
<1>9. OnlyAdds'
  BY <1>0, <1>3, <1>4, <1>8, StillOnlyAdds
<1>10. \A q \in Handlers \ {p} : At(q, "exec") => Od(q)'.status = Od(q).status
  BY <1>0, <1>1, ProcsDiffer DEF OneMoves, Od, Places, At, Live
<1>11. \A q \in Procs : Captured(q)'
  BY <1>5, <1>8, <1>10, <1>0, OthersCaptured
<1> QED
  BY <1>6, <1>7, <1>9, <1>11 DEF CInv

LEMMA EnterOrderCloses ==
  ASSUME IInv, LInv, CInv, up, NEW k \in Orders, EnterOrder(k)
  PROVE  CInv'
<1> DEFINE p == "strategy"
           o == Len(objs')
<1>0. /\ TypeOK /\ Places /\ p \in Procs /\ procs[p] = Idle /\ rows' = rows
  BY ProcsDiffer DEF IInv, EnterOrder, Places, At, Live
<1>1. /\ Len(objs') = Len(objs) + 1 /\ Objs' = 1 .. o /\ Objs = 1 .. Len(objs)
      /\ \A x \in Objs : objs'[x] = objs[x]
      /\ objs'[o].id = 0
  <2> DEFINE od == [key |-> k, id |-> 0, status |-> 1, filled |-> 0, exit |-> FALSE,
                    enterID |-> FALSE, exitID |-> FALSE,
                    dirtyMain |-> TRUE, dirtyEnter |-> TRUE, dirtyExit |-> FALSE]
  <2>1. objs' = Append(objs, od)
    BY DEF EnterOrder
  <2>2. od.id = 0
    OBVIOUS
  <2> HIDE DEF od
  <2> QED
    BY <1>0, <2>1, <2>2, Types DEF TypeOK, Objs
<1>2. Objs \subseteq Objs' /\ \A x \in Objs' : x \in Objs \/ x = o
  BY <1>0, <1>1, Types
<1>3. MemStays /\ ClosedInMemory'
  BY <1>0, <1>1, <1>2 DEF MemStays, CInv, ClosedInMemory
<1>4. OneMoves(p) /\ procs'[p].pc = "save" /\ procs'[p].od = o
  <2>1. procs'[p] = [Idle EXCEPT !.pc = "save", !.od = o]
    BY <1>0 DEF EnterOrder, StartSave, TypeOK
  <2>2. procs'[p].pc = "save" /\ procs'[p].od = o
    BY <2>1 DEF Idle
  <2>3. OneMoves(p)
    BY <1>0 DEF EnterOrder, StartSave, OneMoves, TypeOK
  <2> QED
    BY <2>2, <2>3
<1>5. OnlyAdds' /\ Captured(p)'
  BY <1>1, <1>4 DEF OnlyAdds, Captured, AtMain, At, Od
<1>6. \A q \in Handlers \ {p} : At(q, "exec") => Od(q)'.status = Od(q).status
  BY <1>0, <1>1, <1>4, ProcsDiffer DEF OneMoves, Od, Places, At, Live
<1>7. \A q \in Procs : Captured(q)'
  BY <1>0, <1>3, <1>4, <1>5, <1>6, OthersCaptured
<1> QED
  BY <1>3, <1>5, <1>7 DEF CInv

LEMMA PostOrderCloses ==
  ASSUME IInv, LInv, CInv, PostOrder
  PROVE  CInv'
<1>1. /\ objs' = objs /\ rows' = rows /\ OneMoves("strategy") /\ procs'["strategy"] = Idle
      /\ "strategy" \in Procs
  BY ProcsDiffer DEF IInv, PostOrder, TypeOK, OneMoves
<1>2. Captured("strategy")' /\ OnlyAdds'
  BY <1>1 DEF Captured, OnlyAdds, AtMain, At, Idle
<1> QED
  BY <1>1, <1>2, MoveCloses

LEMMA WorkCloses ==
  ASSUME IInv, LInv, CInv, NEW p \in Handlers, Work(p)
  PROVE  CInv'
<1>0. TypeOK /\ Places /\ p \in Procs /\ p # "strategy" /\ Live(p) /\ Holds(p) /\ rows' = rows
  BY ProcsDiffer DEF IInv, Work, At, Live, Holds
<1>1. /\ procs[p] \in Proc /\ procs[p].od \in Objs /\ Od(p) = objs[procs[p].od] /\ Od(p) \in InOutOrder
  BY <1>0, Running_p
<1>2. PICK new \in Changes(Od(p)) : /\ objs' = [objs EXCEPT ![procs[p].od] = new]
                                    /\ Goto(p, IF IsDirty(new) THEN "save" ELSE "after")
  BY DEF Work
<1>3. new.key = Od(p).key /\ new.id = Od(p).id /\ (new = Od(p) \/ Open(Od(p)))
  BY <1>1, ChangesType
<1>4. /\ Objs' = Objs /\ objs'[procs[p].od] = new
      /\ \A x \in Objs \ {procs[p].od} : objs'[x] = objs[x]
  BY <1>0, <1>1, <1>2, Types DEF TypeOK, Objs
<1>5. \A x \in Objs : objs'[x].id = objs[x].id /\ (objs[x].status = 3 => objs'[x].status = 3)
  BY <1>1, <1>3, <1>4 DEF Open
<1>6. \E pc \in {"save", "after"} : procs' = [procs EXCEPT ![p].pc = pc]
  BY <1>2 DEF Goto
<1>7. OneMoves(p) /\ procs'[p].pc \in {"save", "after"}
  BY <1>0, <1>1, <1>6 DEF TypeOK, OneMoves, Proc
<1>8. ASSUME NEW q \in Handlers \ {p}, At(q, "exec")
      PROVE  Od(q)'.status = Od(q).status
  <2>1. q \in Procs /\ Live(q) /\ Holds(q) /\ procs'[q] = procs[q]
    BY <1>7, <1>8, ProcsDiffer DEF OneMoves, At, Live, Holds
  <2>2. procs[q].od \in Objs /\ Od(q) = objs[procs[q].od] /\ Od(q)' = objs'[procs[q].od]
    BY <1>0, <2>1 DEF Places, Od
  <2>3. CASE procs[q].od # procs[p].od
    BY <1>4, <2>2, <2>3
  <2>4. CASE procs[q].od = procs[p].od
    <3>1. p \in DOMAIN procs /\ q \in DOMAIN procs
      BY <1>0, <2>1 DEF TypeOK
    <3>2. Shared(p, q)
      BY <1>0, <1>1, <2>1, <2>2, <2>4 DEF Shared
    <3>3. ~ Open(Od(p))
      BY <1>0, <2>1, <3>1, <3>2, OneHolder DEF SharedOnlyClosed
    <3> QED
      BY <1>1, <1>3, <1>4, <2>2, <2>4, <3>3
  <2> QED
    BY <2>3, <2>4
<1>9. ClosedInMemory'
  BY <1>0, <1>4, <1>5 DEF CInv, ClosedInMemory
<1>10. OnlyAdds'
  BY <1>0, <1>5, <1>7, StillOnlyAdds
<1>11. Captured(p)'
  BY <1>7 DEF Captured, At
<1>12. \A q \in Procs : Captured(q)'
  BY <1>0, <1>4, <1>5, <1>7, <1>8, <1>11, OthersCaptured DEF MemStays
<1> QED
  BY <1>9, <1>10, <1>12 DEF CInv

LEMMA HandleCloses ==
  ASSUME IInv, LInv, CInv, NEW p \in Handlers, Handle(p)
  PROVE  CInv'
<1>0. TypeOK /\ Places /\ p \in Procs /\ procs[p] \in Proc /\ p # "strategy"
  BY ProcsDiffer, Types DEF IInv
<1>1. ASSUME NEW o \in Objs, LookUp(p, o)
      PROVE  CInv'
  <2>1. PICK m : procs' = [procs EXCEPT ![p] = [@ EXCEPT !.pc = "wait", !.od = o, !.mutex = m]]
    BY <1>1 DEF LookUp
  <2>2. procs'[p] = [procs[p] EXCEPT !.pc = "wait", !.od = o, !.mutex = m] /\ OneMoves(p)
    BY <1>0, <2>1 DEF TypeOK, OneMoves
  <2>3. procs'[p].pc = "wait"
    BY <1>0, <2>2 DEF Proc
  <2>4. Captured(p)' /\ objs' = objs /\ rows' = rows
    BY <1>1, <2>3 DEF Captured, At, LookUp
  <2> QED
    BY <1>0, <2>2, <2>4, MoveCloses
<1>2. CASE Acquire(p)
  <2>1. procs'[p].pc = "work" /\ OneMoves(p) /\ objs' = objs /\ rows' = rows
    BY <1>0, <1>2 DEF Acquire, Goto, TypeOK, OneMoves, Proc
  <2>2. Captured(p)'
    BY <2>1 DEF Captured, At
  <2> QED
    BY <1>0, <2>1, <2>2, MoveCloses
<1>3. CASE Unlock(p)
  <2>1. procs'[p] = Idle /\ OneMoves(p) /\ objs' = objs /\ rows' = rows
    BY <1>0, <1>3 DEF Unlock, TypeOK, OneMoves
  <2>2. Captured(p)'
    BY <2>1 DEF Captured, At, Idle
  <2> QED
    BY <1>0, <2>1, <2>2, MoveCloses
<1> QED
  BY <1>1, <1>2, <1>3, WorkCloses DEF Handle

LEMMA StillCloses ==
  ASSUME \A p \in Procs : procs'[p] = Idle, ClosedInMemory'
  PROVE  CInv'
<1>1. \A p \in Procs : Captured(p)'
  BY DEF Captured, At, Idle
<1>2. OnlyAdds'
  BY ProcsDiffer DEF OnlyAdds, At, AtMain, Idle
<1> QED
  BY <1>1, <1>2 DEF CInv

LEMMA CrashCloses ==
  ASSUME Crash
  PROVE  CInv'
<1>1. Objs' = {} /\ \A p \in Procs : procs'[p] = Idle
  BY DEF Crash, Objs
<1> QED
  BY <1>1, StillCloses DEF ClosedInMemory

LEMMA RestartCloses ==
  ASSUME IInv, LInv, CInv, Restart
  PROVE  /\ CInv'
         /\ \A i \in DOMAIN rows : /\ i \in DOMAIN rows' /\ rows'[i].key = rows[i].key
                                   /\ rows[i].status = 3 => rows'[i].status = 3
<1>0. TypeOK /\ Places /\ DOMAIN rows' = DOMAIN rows /\ Empty /\ procs' = procs
  BY RestartType, RestartLoads DEF IInv
<1>1. ASSUME NEW i \in DOMAIN rows
      PROVE  rows'[i].key = rows[i].key /\ (rows'[i].status = 3 <=> rows[i].status = 3)
  <2>1. rows'[i] = IF i \in OpenRows \ Kept THEN [rows[i] EXCEPT !.status = 0] ELSE rows[i]
    BY <1>0, RestartLoads
  <2>2. i \in OpenRows => rows[i].status # 3
    BY DEF OpenRows
  <2> QED
    BY <1>0, <2>1, <2>2, Types DEF Row
<1>2. ClosedInMemory'
  <2>1. SUFFICES ASSUME NEW o \in Objs'
        PROVE  rows'[objs'[o].id].status # 3
    BY DEF ClosedInMemory
  <2>2. \E i \in Kept : objs'[o].id = i
    BY <2>1, RestartObjects
  <2> QED
    BY <1>1, <2>2 DEF Kept, OpenRows
<1>3. \A p \in Procs : procs'[p] = Idle
  BY <1>0 DEF Empty
<1> QED
  BY <1>0, <1>1, <1>2, <1>3, StillCloses
----------------------------------------------------------------------------
LEMMA InitCloses == Init => CInv
<1> SUFFICES ASSUME Init
             PROVE  CInv
  OBVIOUS
<1>1. (\A p \in Procs : procs[p] = Idle) /\ Objs = {}
  BY DEF Init, Objs
<1> QED
  BY <1>1, ProcsDiffer DEF CInv, ClosedInMemory, OnlyAdds, Captured, At, AtMain, Idle

LEMMA NextCloses ==
  ASSUME Unlocked = {}
  PROVE  IInv /\ LInv /\ CInv /\ [Next]_vars =>
           CInv' /\ ClosedRows \subseteq ClosedRows'
<1> SUFFICES ASSUME IInv, LInv, CInv, [Next]_vars
             PROVE  CInv' /\ ClosedRows \subseteq ClosedRows'
  OBVIOUS
<1> DEFINE RowsStayClosed ==
             \A i \in DOMAIN rows : /\ i \in DOMAIN rows' /\ rows'[i].key = rows[i].key
                                    /\ rows[i].status = 3 => rows'[i].status = 3
<1>1. SUFFICES CInv' /\ RowsStayClosed
  BY DEF ClosedRows
<1>2. ASSUME up, NEW p \in Procs, Save(p)
      PROVE  CInv' /\ RowsStayClosed
  <2>1. CASE SaveMap(p) \/ Capture(p) \/ ExecFails(p) \/ Remap(p)
    <3>1. rows' = rows
      BY <2>1 DEF SaveMap, Capture, ExecFails, Remap
    <3> QED
      BY <1>2, <2>1, <3>1, SaveCloses
  <2>2. CASE Exec(p)
    BY <1>2, <2>2, ExecCloses
  <2> QED
    BY <1>2, <2>1, <2>2 DEF Save
<1>3. ASSUME up, NEW k \in Orders, EnterOrder(k)
      PROVE  CInv' /\ RowsStayClosed
  BY <1>3, EnterOrderCloses DEF EnterOrder
<1>4. ASSUME up, NEW o \in Objs, ExitOrder(o) \/ SweepNext(o)
      PROVE  CInv' /\ RowsStayClosed
  BY <1>4, NoOthers DEF ExitOrder
<1>5. ASSUME up, NEW p \in Handlers, Handle(p)
      PROVE  CInv' /\ RowsStayClosed
  <2>1. rows' = rows
    BY <1>5 DEF Handle, LookUp, Acquire, Work, Unlock
  <2> QED
    BY <1>5, <2>1, HandleCloses
<1>6. CASE up /\ (PostOrder \/ Collect \/ SweepDone \/ ReadOpenODs \/ MergeOpenODs \/ Crash)
  <2>1. PostOrder \/ Crash
    BY <1>6, NoOthers
  <2>2. rows' = rows
    BY <2>1 DEF PostOrder, Crash
  <2> QED
    BY <2>1, <2>2, PostOrderCloses, CrashCloses
<1>7. CASE Restart
  BY <1>7, RestartCloses
<1>8. CASE UNCHANGED vars
  <2>1. objs' = objs /\ rows' = rows /\ procs' = procs
    BY <1>8 DEF vars
  <2>2. CInv'
    BY <2>1 DEF CInv, ClosedInMemory, OnlyAdds, Captured, Objs, Od, At, AtMain
  <2> QED
    BY <2>1, <2>2
<1> HIDE DEF RowsStayClosed
<1> QED
  BY <1>2, <1>3, <1>4, <1>5, <1>6, <1>7, <1>8 DEF Next, Running

(* Where neither an exit of the strategy, a sweep nor a reload runs beside    *)
(* the handlers, an order the database holds as fully exited is never written *)
(* back to an open state (saveToDb).                                          *)
THEOREM ClosedStays ==
  ASSUME Unlocked = {}
  PROVE  Spec => ClosedRowStays
<1>1. Init => IInv /\ LInv /\ CInv
  BY InitInv, InitLocks, InitCloses
<1>2. IInv /\ LInv /\ CInv /\ [Next]_vars => (IInv /\ LInv /\ CInv)'
  BY NextInv, NextLocks, NextCloses
<1>3. IInv /\ LInv /\ CInv /\ [Next]_vars =>
        [ClosedRows \subseteq ClosedRows']_vars
  BY NextCloses
<1> QED
  BY <1>1, <1>2, <1>3, PTL DEF Spec, ClosedRowStays

----------------------------------------------------------------------------
(* The map accOpenODs, with the exits of the strategy *)

\* The strategy has added the row of o and has yet to give the map its id.
Moving(o) ==
  /\ procs["strategy"].od = o /\ procs["strategy"].add
  /\ procs["strategy"].pc \in {"enter", "exit", "exec", "remap"}
MapKnown(o) == objs[o].id # 0 /\ Open(objs[o]) => openOds[objs[o].id] = o \/ Moving(o)
OldKnown(p) ==
  procs[p].pc \in Parts \cup {"exec", "remap"} =>
    IF procs[p].add THEN procs[p].old = 0 ELSE procs[p].old = Od(p).id /\ Od(p).id # 0
MInv == (\A o \in Objs : MapKnown(o)) /\ (\A p \in Procs : OldKnown(p))

LEMMA OthersOld ==
  ASSUME IInv, MInv, NEW p \in Procs, OneMoves(p), Objs \subseteq Objs',
         \A o \in Objs : objs[o].id # 0 => objs'[o].id = objs[o].id
  PROVE  \A q \in Procs \ {p} : OldKnown(q)'
<1> SUFFICES ASSUME NEW q \in Procs \ {p}, procs'[q].pc \in Parts \cup {"exec", "remap"}
             PROVE  OldKnown(q)'
  BY DEF OldKnown
<1>1. procs'[q] = procs[q] /\ Live(q)
  BY DEF OneMoves, Live, Parts
<1>2. /\ procs[q].od \in Objs /\ Od(q) = objs[procs[q].od] /\ Od(q)' = objs'[procs[q].od]
  BY <1>1 DEF IInv, Places, Od
<1>3. Od(q).id # 0 => Od(q)'.id = Od(q).id
  BY <1>2
<1>4. IF procs[q].add THEN procs[q].old = 0 ELSE procs[q].old = Od(q).id /\ Od(q).id # 0
  BY <1>1 DEF MInv, OldKnown
<1> QED
  BY <1>1, <1>3, <1>4 DEF OldKnown

LEMMA MapStep ==
  ASSUME IInv, MInv, NEW p \in Procs, OneMoves(p), Objs' = Objs, OldKnown(p)',
         \A o \in Objs : objs[o].id # 0 => objs'[o].id = objs[o].id,
         \A o \in Objs : Open(objs'[o]) => Open(objs[o]),
         \A o \in Objs : objs[o].id # 0 /\ Open(objs'[o]) =>
           openOds'[objs[o].id] \in {openOds[objs[o].id], o},
         \A o \in Objs : objs[o].id = 0 /\ objs'[o].id # 0 => Moving(o)',
         \A o \in Objs : Moving(o) /\ objs'[o].id # 0 /\ Open(objs'[o]) =>
           Moving(o)' \/ openOds'[objs'[o].id] = o
  PROVE  MInv'
<1>1. ASSUME NEW o \in Objs, objs'[o].id # 0, Open(objs'[o])
      PROVE  openOds'[objs'[o].id] = o \/ Moving(o)'
  <2>1. CASE objs[o].id = 0
    BY <1>1, <2>1
  <2>2. CASE objs[o].id # 0
    BY <1>1, <2>2 DEF MInv, MapKnown
  <2> QED
    BY <2>1, <2>2
<1>2. \A o \in Objs' : MapKnown(o)'
  BY <1>1 DEF MapKnown, Open
<1>3. \A q \in Procs : OldKnown(q)'
  BY OthersOld
<1> QED
  BY <1>2, <1>3 DEF MInv

\* A step that leaves the orders and the map alone.
LEMMA MapStays ==
  ASSUME IInv, MInv, NEW p \in Procs, OneMoves(p), Objs' = Objs, OldKnown(p)', openOds' = openOds,
         \A o \in Objs : objs'[o].id = objs[o].id /\ (Open(objs'[o]) => Open(objs[o])),
         p = "strategy" => \A o \in Objs : Moving(o) => Moving(o)'
  PROVE  MInv'
<1>1. \A o \in Objs : Moving(o) => Moving(o)'
  BY ProcsDiffer DEF OneMoves, Moving
<1> QED
  BY <1>1, MapStep

LEMMA SaveMapMaps ==
  ASSUME IInv, LInv, MInv, NEW p \in Procs, SaveMap(p)
  PROVE  MInv'
<1>0. /\ TypeOK /\ Places /\ RowsKnown /\ Live(p) /\ procs[p] \in Proc /\ At(p, "save") /\ objs' = objs
      /\ openOds' = [openOds EXCEPT ![Od(p).id] = IF Open(Od(p)) THEN procs[p].od ELSE 0]
      /\ procs'[p] = [procs[p] EXCEPT !.pc = "main", !.old = Od(p).id, !.add = Od(p).id = 0]
      /\ OneMoves(p)
  BY Types DEF IInv, SaveMap, At, Live, OneMoves, TypeOK
<1>1. procs[p].od \in Objs /\ Od(p) = objs[procs[p].od] /\ Od(p).id \in Ids
  BY <1>0, Running_p
<1>2. procs'[p].old = Od(p).id
  BY <1>0 DEF Proc
<1>3. procs'[p].add = (Od(p).id = 0)
  BY <1>0 DEF Proc
<1>4. procs'[p].od = procs[p].od
  BY <1>0 DEF Proc
<1>5. OldKnown(p)'
  <2>1. Od(p)' = Od(p)
    BY <1>0, <1>4 DEF Od
  <2> QED
    BY <1>2, <1>3, <2>1 DEF OldKnown
<1>6. ASSUME NEW o \in Objs, objs[o].id # 0, Open(objs'[o])
      PROVE  openOds'[objs[o].id] \in {openOds[objs[o].id], o}
  <2>1. CASE objs[o].id = Od(p).id
    <3>1. objs[o].key = Od(p).key
      BY <1>0, <1>1, <1>6, <2>1 DEF RowsKnown, ObjKnown, RowOf
    <3>2. o = procs[p].od
      BY <1>1, <3>1 DEF LInv, OneObject
    <3> QED
      BY <1>0, <1>1, <1>6, <2>1, <3>2 DEF TypeOK
  <2>2. CASE objs[o].id # Od(p).id
    <3>1. objs[o].id \in Ids
      BY <1>0, Types DEF InOutOrder
    <3> QED
      BY <1>0, <1>1, <2>2, <3>1 DEF TypeOK
  <2> QED
    BY <2>1, <2>2
<1>7. \A o \in Objs : Moving(o) => Moving(o)'
  BY <1>0, ProcsDiffer DEF Moving, OneMoves, At
<1> QED
  BY <1>0, <1>5, <1>6, <1>7, MapStep DEF Objs

LEMMA CaptureMaps ==
  ASSUME IInv, MInv, NEW p \in Procs, Capture(p)
  PROVE  MInv'
<1>0. /\ TypeOK /\ Places /\ procs[p] \in Proc /\ procs[p].pc \in Parts /\ objs' = objs
      /\ openOds' = openOds /\ OneMoves(p)
      /\ \/ procs'[p] = [procs[p] EXCEPT !.pc = "exec", !.part = procs[p].pc, !.id = Od(p).id,
                           !.status = Od(p).status, !.filled = Od(p).filled]
         \/ procs'[p] = [procs[p] EXCEPT !.pc = Following[procs[p].pc]]
  BY Types DEF IInv, Capture, Goto, OneMoves, TypeOK
<1>1. procs'[p].add = procs[p].add
  BY <1>0 DEF Proc
<1>2. procs'[p].od = procs[p].od
  BY <1>0 DEF Proc
<1>3. procs'[p].old = procs[p].old
  BY <1>0 DEF Proc
<1>4. procs'[p].pc \in {"exec", "enter", "exit", "remap"}
  <2>1. procs'[p].pc = "exec" \/ procs'[p].pc = Following[procs[p].pc]
    BY <1>0 DEF Proc
  <2> QED
    BY <1>0, <2>1 DEF Following, Parts
<1>5. OldKnown(p)'
  <2>1. Od(p)' = Od(p)
    BY <1>0, <1>2 DEF Od
  <2> QED
    BY <1>0, <1>1, <1>3, <2>1 DEF OldKnown, MInv
<1>6. p = "strategy" => \A o \in Objs : Moving(o) => Moving(o)'
  BY <1>1, <1>2, <1>4 DEF Moving
<1> QED
  BY <1>0, <1>5, <1>6, MapStays DEF Objs

LEMMA ExecMaps ==
  ASSUME IInv, LInv, MInv, NEW p \in Procs, Exec(p)
  PROVE  MInv'
<1> DEFINE o == procs[p].od
<1>0. TypeOK /\ Places /\ At(p, "exec") /\ OneMoves(p) /\ openOds' = openOds /\ Objs' = Objs
  BY ExecMoves, ExecObjects DEF IInv
<1>1. /\ o \in Objs /\ Od(p) = objs[o] /\ Od(p)' = objs'[o] /\ procs'[p].od = o
      /\ procs'[p].add = procs[p].add /\ procs'[p].pc \in {"enter", "exit", "remap"}
  BY <1>0, ExecMoves, Running_p DEF Od
<1>2. procs'[p].old = procs[p].old
  <2>1. procs'[p] = [procs[p] EXCEPT !.pc = Following[procs[p].part], !.part = "main",
                       !.id = 0, !.status = 0, !.filled = 0]
    BY <1>0 DEF Exec, TypeOK
  <2> QED
    BY <1>0, <2>1, Types DEF Proc
<1>3. /\ \A x \in Objs \ {o} : objs'[x].id = objs[x].id
      /\ objs'[o].id # objs[o].id => procs[p].add /\ p = "strategy" /\ objs[o].id = 0
  BY <1>0, <1>1, ExecObjects DEF LInv, Adder, AtMain, At
<1>4. \A x \in Objs : objs'[x].status = objs[x].status
  BY <1>0, ExecObjects
<1>5. \A x \in Objs : Open(objs'[x]) => Open(objs[x])
  BY <1>4 DEF Open
<1>6. OldKnown(p)'
  BY <1>0, <1>1, <1>2, <1>3 DEF OldKnown, MInv, At
<1>7. \A x \in Objs : objs[x].id = 0 /\ objs'[x].id # 0 => Moving(x)'
  BY <1>1, <1>3 DEF Moving
<1>8. \A x \in Objs : Moving(x) => Moving(x)'
  BY <1>0, <1>1, ProcsDiffer DEF Moving, OneMoves
<1> QED
  BY <1>0, <1>3, <1>5, <1>6, <1>7, <1>8, MapStep

LEMMA ExecFailsMaps ==
  ASSUME IInv, MInv, NEW p \in Procs, ExecFails(p)
  PROVE  MInv'
<1>0. /\ TypeOK /\ Places /\ procs[p] \in Proc /\ At(p, "exec") /\ objs' = objs
      /\ openOds' = openOds /\ OneMoves(p)
      /\ procs'[p] = [procs[p] EXCEPT !.pc = "remap", !.part = "main", !.id = 0, !.status = 0,
                        !.filled = 0, !.err = TRUE]
  BY Types DEF IInv, ExecFails, OneMoves, TypeOK
<1>1. procs'[p].add = procs[p].add
  BY <1>0 DEF Proc
<1>2. procs'[p].od = procs[p].od
  BY <1>0 DEF Proc
<1>3. procs'[p].old = procs[p].old
  BY <1>0 DEF Proc
<1>4. procs'[p].pc = "remap"
  BY <1>0 DEF Proc
<1>5. OldKnown(p)'
  <2>1. Od(p)' = Od(p)
    BY <1>0, <1>2 DEF Od
  <2> QED
    BY <1>0, <1>1, <1>3, <2>1 DEF OldKnown, MInv, At
<1>6. p = "strategy" => \A o \in Objs : Moving(o) => Moving(o)'
  BY <1>1, <1>2, <1>4 DEF Moving
<1> QED
  BY <1>0, <1>5, <1>6, MapStays DEF Objs

LEMMA RemapMaps ==
  ASSUME IInv, LInv, MInv, NEW p \in Procs, Remap(p)
  PROVE  MInv'
<1>0. /\ TypeOK /\ Places /\ procs[p] \in Proc /\ At(p, "remap") /\ Live(p) /\ objs' = objs /\ OneMoves(p)
      /\ openOds' = IF Od(p).id # procs[p].old /\ Open(Od(p))
                    THEN Moved(procs[p].old, Od(p).id, procs[p].od) ELSE openOds
      /\ procs'[p] = [procs[p] EXCEPT !.pc = "after"]
  BY Types DEF IInv, Remap, Goto, OneMoves, TypeOK, At, Live
<1>1. procs[p].od \in Objs /\ Od(p) = objs[procs[p].od] /\ Od(p).id \in Ids
  BY <1>0, Running_p
<1>2. procs'[p].pc = "after" /\ procs'[p].od = procs[p].od
  BY <1>0 DEF Proc
<1>3. OldKnown(p)'
  BY <1>2 DEF OldKnown, Parts
<1>4. Od(p).id # procs[p].old => procs[p].add /\ procs[p].old = 0
  BY <1>0 DEF MInv, OldKnown, At
<1>5. ASSUME NEW o \in Objs, objs[o].id # 0
      PROVE  openOds'[objs[o].id] \in {openOds[objs[o].id], o}
  <2>1. CASE objs[o].id = Od(p).id
    <3>1. objs[o].key = Od(p).key
      BY <1>0, <1>1, <1>5, <2>1 DEF IInv, RowsKnown, ObjKnown, RowOf
    <3>2. o = procs[p].od
      BY <1>1, <3>1 DEF LInv, OneObject
    <3> QED
      BY <1>0, <1>1, <1>4, <1>5, <2>1, <3>2, ConstantsType DEF TypeOK, Moved
  <2>2. CASE objs[o].id # Od(p).id
    <3>1. objs[o].id \in Ids
      BY <1>0, Types DEF InOutOrder
    <3> QED
      BY <1>0, <1>1, <1>4, <1>5, <2>2, <3>1, ConstantsType DEF TypeOK, Moved
  <2> QED
    BY <2>1, <2>2
<1>6. ASSUME NEW o \in Objs, Moving(o), objs[o].id # 0, Open(objs[o])
      PROVE  Moving(o)' \/ openOds'[objs[o].id] = o
  <2>1. CASE p # "strategy"
    BY <1>0, <1>6, <2>1, ProcsDiffer DEF Moving, OneMoves
  <2>2. CASE p = "strategy"
    <3>1. procs[p].add /\ procs[p].od = o
      BY <1>6, <2>2 DEF Moving
    <3>2. procs[p].old = 0
      BY <1>0, <3>1 DEF MInv, OldKnown, At
    <3> QED
      BY <1>0, <1>1, <1>6, <3>1, <3>2, ConstantsType DEF TypeOK, Moved
  <2> QED
    BY <2>1, <2>2
<1> QED
  BY <1>0, <1>3, <1>5, <1>6, MapStep DEF Objs

LEMMA EnterOrderMaps ==
  ASSUME IInv, MInv, up, NEW k \in Orders, EnterOrder(k)
  PROVE  MInv'
<1> DEFINE p == "strategy"
           o == Len(objs')
<1>0. /\ TypeOK /\ Places /\ p \in Procs /\ procs[p] = Idle /\ openOds' = openOds
  BY ProcsDiffer DEF IInv, EnterOrder, Places, At, Live
<1>1. /\ Len(objs') = Len(objs) + 1 /\ Objs' = 1 .. o /\ Objs = 1 .. Len(objs)
      /\ \A x \in Objs : objs'[x] = objs[x]
      /\ objs'[o].id = 0
  <2> DEFINE od == [key |-> k, id |-> 0, status |-> 1, filled |-> 0, exit |-> FALSE,
                    enterID |-> FALSE, exitID |-> FALSE,
                    dirtyMain |-> TRUE, dirtyEnter |-> TRUE, dirtyExit |-> FALSE]
  <2>1. objs' = Append(objs, od)
    BY DEF EnterOrder
  <2>2. od.id = 0
    OBVIOUS
  <2> HIDE DEF od
  <2> QED
    BY <1>0, <2>1, <2>2, Types DEF TypeOK, Objs
<1>2. Objs \subseteq Objs' /\ \A x \in Objs' : x \in Objs \/ x = o
  BY <1>0, <1>1, Types
<1>3. OneMoves(p) /\ procs'[p].pc = "save"
  <2>1. procs'[p] = [Idle EXCEPT !.pc = "save", !.od = o]
    BY <1>0 DEF EnterOrder, StartSave, TypeOK
  <2>2. procs'[p].pc = "save"
    BY <2>1 DEF Idle
  <2>3. OneMoves(p)
    BY <1>0 DEF EnterOrder, StartSave, OneMoves, TypeOK
  <2> QED
    BY <2>2, <2>3
<1>4. \A q \in Procs : OldKnown(q)'
  <2>1. OldKnown(p)'
    BY <1>3 DEF OldKnown, Parts
  <2> QED
    BY <1>0, <1>1, <1>2, <1>3, <2>1, OthersOld
<1>5. \A x \in Objs : ~ Moving(x)
  BY <1>0 DEF Moving, Idle
<1>6. \A x \in Objs' : MapKnown(x)'
  BY <1>0, <1>1, <1>2, <1>5 DEF MInv, MapKnown, Open
<1> QED
  BY <1>4, <1>6 DEF MInv

LEMMA ExitOrderMaps ==
  ASSUME IInv, MInv, up, NEW o \in Objs, ExitOrder(o)
  PROVE  MInv'
<1> DEFINE p == "strategy"
<1>0. /\ TypeOK /\ Places /\ p \in Procs /\ procs[p] = Idle /\ objs[o] \in InOutOrder /\ openOds' = openOds
  BY ProcsDiffer, Types DEF IInv, ExitOrder, Places, At, Live
<1>1. /\ Objs' = Objs
      /\ \A x \in Objs : objs'[x].id = objs[x].id /\ objs'[x].status = objs[x].status
  <2> DEFINE od == [objs[o] EXCEPT !.exit = TRUE, !.dirtyMain = TRUE, !.dirtyExit = TRUE]
  <2>1. objs' = [objs EXCEPT ![o] = od]
    BY DEF ExitOrder
  <2>2. od.id = objs[o].id
    BY <1>0 DEF InOutOrder
  <2>3. od.status = objs[o].status
    BY <1>0 DEF InOutOrder
  <2> HIDE DEF od
  <2> QED
    BY <1>0, <2>1, <2>2, <2>3, Types DEF TypeOK, Objs
<1>2. OneMoves(p) /\ procs'[p].pc = "save"
  <2>1. procs'[p] = [Idle EXCEPT !.pc = "save", !.od = o]
    BY <1>0 DEF ExitOrder, StartSave, TypeOK
  <2>2. procs'[p].pc = "save"
    BY <2>1 DEF Idle
  <2>3. OneMoves(p)
    BY <1>0 DEF ExitOrder, StartSave, OneMoves, TypeOK
  <2> QED
    BY <2>2, <2>3
<1>3. OldKnown(p)'
  BY <1>2 DEF OldKnown, Parts
<1>4. \A x \in Objs : ~ Moving(x)
  BY <1>0 DEF Moving, Idle
<1>5. \A x \in Objs : Open(objs'[x]) => Open(objs[x])
  BY <1>1 DEF Open
<1> QED
  BY <1>0, <1>1, <1>2, <1>3, <1>4, <1>5, MapStays

LEMMA PostOrderMaps ==
  ASSUME IInv, MInv, PostOrder
  PROVE  MInv'
<1>1. /\ objs' = objs /\ openOds' = openOds /\ OneMoves("strategy") /\ procs'["strategy"] = Idle
      /\ "strategy" \in Procs /\ At("strategy", "after")
  BY ProcsDiffer DEF IInv, PostOrder, TypeOK, OneMoves
<1>2. OldKnown("strategy")' /\ \A o \in Objs : ~ Moving(o)
  BY <1>1 DEF OldKnown, Moving, At, Idle, Parts
<1> QED
  BY <1>1, <1>2, MapStays DEF Objs

LEMMA HandleMaps ==
  ASSUME IInv, MInv, NEW p \in Handlers, Handle(p)
  PROVE  MInv'
<1>0. TypeOK /\ Places /\ p \in Procs /\ procs[p] \in Proc /\ p # "strategy" /\ openOds' = openOds
  BY ProcsDiffer, Types DEF IInv, Handle, LookUp, Acquire, Work, Unlock
<1>1. ASSUME NEW pc \in {"wait", "work", "save", "after", "idle"}, procs'[p].pc = pc
      PROVE  OldKnown(p)'
  BY <1>1 DEF OldKnown, Parts
<1>2. ASSUME NEW o \in Objs, LookUp(p, o)
      PROVE  MInv'
  <2>1. PICK m : procs' = [procs EXCEPT ![p] = [@ EXCEPT !.pc = "wait", !.od = o, !.mutex = m]]
    BY <1>2 DEF LookUp
  <2>2. procs'[p] = [procs[p] EXCEPT !.pc = "wait", !.od = o, !.mutex = m] /\ OneMoves(p)
    BY <1>0, <2>1 DEF TypeOK, OneMoves
  <2>3. procs'[p].pc = "wait"
    BY <1>0, <2>2 DEF Proc
  <2>4. objs' = objs
    BY <1>2 DEF LookUp
  <2> QED
    BY <1>0, <1>1, <2>2, <2>3, <2>4, MapStays DEF Objs
<1>3. CASE Acquire(p)
  <2>1. procs'[p].pc = "work" /\ OneMoves(p) /\ objs' = objs
    BY <1>0, <1>3 DEF Acquire, Goto, TypeOK, OneMoves, Proc
  <2> QED
    BY <1>0, <1>1, <2>1, MapStays DEF Objs
<1>4. CASE Work(p)
  <2>1. /\ Live(p) /\ procs[p].od \in Objs /\ Od(p) = objs[procs[p].od] /\ Od(p) \in InOutOrder
    BY <1>0, <1>4, Running_p DEF Work, At, Live
  <2>2. PICK new \in Changes(Od(p)) : /\ objs' = [objs EXCEPT ![procs[p].od] = new]
                                      /\ Goto(p, IF IsDirty(new) THEN "save" ELSE "after")
    BY <1>4 DEF Work
  <2>3. new.id = Od(p).id /\ (Open(new) => Open(Od(p)))
    BY <2>1, ChangesType DEF Open
  <2>4. /\ Objs' = Objs
        /\ \A o \in Objs : objs'[o].id = objs[o].id /\ (Open(objs'[o]) => Open(objs[o]))
    BY <1>0, <2>1, <2>2, <2>3, Types DEF TypeOK, Objs
  <2>5. \E pc \in {"save", "after"} : procs' = [procs EXCEPT ![p].pc = pc]
    BY <2>2 DEF Goto
  <2>6. OneMoves(p) /\ procs'[p].pc \in {"save", "after"}
    BY <1>0, <2>5 DEF TypeOK, OneMoves, Proc
  <2> QED
    BY <1>0, <1>1, <2>4, <2>6, MapStays
<1>5. CASE Unlock(p)
  <2>1. procs'[p].pc = "idle" /\ OneMoves(p) /\ objs' = objs
    BY <1>0, <1>5 DEF Unlock, TypeOK, OneMoves, Idle
  <2> QED
    BY <1>0, <1>1, <2>1, MapStays DEF Objs
<1> QED
  BY <1>2, <1>3, <1>4, <1>5 DEF Handle

LEMMA StillMaps ==
  ASSUME \A p \in Procs : procs'[p] = Idle, \A o \in Objs' : MapKnown(o)'
  PROVE  MInv'
BY DEF MInv, OldKnown, Idle, Parts

LEMMA RestartMaps ==
  ASSUME IInv, Restart
  PROVE  MInv'
<1>1. \A p \in Procs : procs'[p] = Idle
  BY RestartLoads DEF IInv, Empty
<1>2. \A o \in Objs' : MapKnown(o)'
  BY RestartObjects DEF MapKnown
<1> QED
  BY <1>1, <1>2, StillMaps
----------------------------------------------------------------------------
LEMMA NextMaps ==
  ASSUME Unlocked \subseteq {"exit"}
  PROVE  IInv /\ LInv /\ MInv /\ [Next]_vars => MInv'
<1> SUFFICES ASSUME IInv, LInv, MInv, [Next]_vars
             PROVE  MInv'
  OBVIOUS
<1>1. ASSUME up, NEW p \in Procs, Save(p)
      PROVE  MInv'
  BY <1>1, SaveMapMaps, CaptureMaps, ExecMaps, ExecFailsMaps, RemapMaps DEF Save
<1>2. ASSUME up, NEW k \in Orders, EnterOrder(k)
      PROVE  MInv'
  BY <1>2, EnterOrderMaps
<1>3. ASSUME up, NEW o \in Objs, ExitOrder(o) \/ SweepNext(o)
      PROVE  MInv'
  BY <1>3, ExitOrderMaps, NoOthers
<1>4. ASSUME up, NEW p \in Handlers, Handle(p)
      PROVE  MInv'
  BY <1>4, HandleMaps
<1>5. CASE up /\ (PostOrder \/ Collect \/ SweepDone \/ ReadOpenODs \/ MergeOpenODs)
  BY <1>5, PostOrderMaps, NoOthers
<1>6. CASE Crash
  <2>1. Objs' = {} /\ \A p \in Procs : procs'[p] = Idle
    BY <1>6 DEF Crash, Objs
  <2> QED
    BY <2>1, StillMaps
<1>7. CASE Restart
  BY <1>7, RestartMaps
<1>8. CASE UNCHANGED vars
  <2>1. objs' = objs /\ openOds' = openOds /\ procs' = procs
    BY <1>8 DEF vars
  <2>2. \A o \in Objs' : MapKnown(o)'
    BY <2>1 DEF MInv, MapKnown, Moving, Objs, Open
  <2>3. \A p \in Procs : OldKnown(p)'
    BY <2>1 DEF MInv, OldKnown, Od
  <2> QED
    BY <2>2, <2>3 DEF MInv
<1> QED
  BY <1>1, <1>2, <1>3, <1>4, <1>5, <1>6, <1>7, <1>8 DEF Next, Running

LEMMA MappedIsFound ==
  ASSUME IInv, LInv, MInv
  PROVE  SentIsMapped
<1> SUFFICES ASSUME NEW o \in Objs, <<objs[o].key, "enter">> \in sent, Open(objs[o]),
                    \A p \in Procs : procs[p].od = o => procs[p].pc \in {"idle", "wait", "work", "after"}
             PROVE  \E i \in Ids : openOds[i] # 0 /\ objs[openOds[i]].key = objs[o].key
  BY DEF SentIsMapped
<1>1. objs[o].key \in Orders /\ objs[o].id \in Ids /\ o # 0
  BY Types DEF IInv, InOutOrder
<1>2. \E i \in DOMAIN rows : rows[i].key = objs[o].key
  BY <1>1 DEF IInv, SentHasRow, Requests
<1>3. objs[o].id # 0
  BY <1>2 DEF LInv, OneObject
<1>4. ~ Moving(o)
  BY ProcsDiffer DEF Moving
<1>5. openOds[objs[o].id] = o
  BY <1>3, <1>4 DEF MInv, MapKnown
<1> QED
  BY <1>1, <1>5

(* An open order the live manager was given is found in accOpenODs whenever   *)
(* no Save of it runs: neither a failed statement nor the move from id 0 to   *)
(* the id of the database loses it (Save of InOutOrder).                      *)
THEOREM SentMapped ==
  ASSUME Unlocked \subseteq {"exit"}
  PROVE  Spec => []SentIsMapped
<1>1. Init => MInv
  BY ProcsDiffer DEF Init, MInv, OldKnown, Idle, Parts, Objs
<1>2. Init => IInv /\ LInv /\ MInv
  BY <1>1, InitInv, InitLocks
<1>3. IInv /\ LInv /\ MInv /\ [Next]_vars => (IInv /\ LInv /\ MInv)'
  BY NextInv, NextLocks, NextMaps
<1>4. IInv /\ LInv /\ MInv => SentIsMapped
  BY MappedIsFound
<1> QED
  BY <1>2, <1>3, <1>4, PTL DEF Spec
=============================================================================
