------------------------------- MODULE OptLog -------------------------------
(* The search for the parameters of policies (opt/hyper_opt.go): each policy   *)
(* is optimised for long, short and both, the best combination is printed      *)
(* (optForGroup), and every trial goes to a log, from which the policies to    *)
(* run are collected, at once or later and by any picker (collectOptLog).      *)
(* The sampler and the back tests are external: a back test of a combination   *)
(* of policies has one result in a market.  Scores are in tenths.              *)
EXTENDS Integers, Sequences, FiniteSets, FiniteSetsExt, SequencesExt, Functions, TLC
CONSTANTS
  Plans,     \* the policies of a log: sequences of [name, dirt]; a name stands for pairs and time frames, too
  Tries,     \* what the sampler may suggest in a section: sequences of parameters
  Markets, Result,        \* what a back test gives in a market: a function of market and set of policies, to [score, num]
  Pickers, MaxCollects
VARIABLES
  market, ran,  \* the combinations that were run
  picker,    \* -picker
  left,      \* policies still to be optimised
  phase,     \* "next", "try", "settle", "join", "print", "collect", "panic"
  todo, pol, \* directions of the policy still to be optimised; what was found: [par, score, num]
  tuned,     \* the direction tuned inside the combination, or "none"
  best,      \* bestPols, bestScore, bestOdNum
  items,     \* resList
  log,       \* sections: [name, dirt, union, items, picked]; of which policy, and the score it gave
  printed,   \* [name, score, items]; of which policy
  got        \* what was collected: [by, groups]
vars == <<market, ran, picker, left, phase, todo, pol, tuned, best, items, log, printed, got>>

Low == -9990
None == [par |-> 0, score |-> Low, num |-> 0, run |-> FALSE, dirt |-> ""]
NoneYet == [score |-> Low, num |-> 0, dirts |-> {}]
Init ==
  /\ left \in Plans /\ picker \in Pickers
  /\ market \in Markets /\ ran = {} /\ phase = "next" /\ todo = <<>> /\ pol = <<>> /\ tuned = "none"
  /\ best = NoneYet /\ items = <<>> /\ log = <<>> /\ printed = <<>> /\ got = <<>>

(* a / b > n / d, as floats do it. *)
RateOver(a, b, n, d) == IF b > 0 THEN a * d > n * b ELSE IF b < 0 THEN a * d < n * b ELSE a > 0
(* The combination is worth it: a quarter better, or a tenth and not half as many orders more. *)
WorthIt(two, one) ==
  \/ RateOver(two.score, one.score, 5, 4)
  \/ (RateOver(two.score, one.score, 11, 10) /\ one.num > 0 /\ 2 * two.num < 3 * one.num)
-----------------------------------------------------------------------------
(* The pickers *)

(* DescGroups compares by int(b.Score - a.Score): scores less than 1 apart are equal to it. *)
Before(a, b) == a.score - b.score >= 10
Scored(a, b) == a.score > b.score
Inserted(Less(_, _), s, x) ==
  LET k == Cardinality({i \in DOMAIN s : \E j \in i .. Len(s) : ~Less(x, s[j])}) IN InsertAt(s, k + 1, x)
DescGroups(its) == FoldLeft(LAMBDA s, x : Inserted(Before, s, x), <<>>, its)
GoodOf(its) ==
  LET s == DescGroups(its)
      bad == {i \in DOMAIN s : s[i].score < 0}
  IN IF bad = {} THEN s ELSE IF Min(bad) = 1 THEN s ELSE SubSeq(s, 1, Min(bad) - 1)

GetBestByScore(its) == FoldLeft(LAMBDA b, x : IF b = None \/ x.score > b.score THEN x ELSE b, None, its)
OptGoodPos(its, tenths) == LET s == GoodOf(its) IN s[(Len(s) * tenths) \div 10 + 1]
Rounded(n, tenths) == (n * tenths + 5) \div 10
Mean(s) == FoldLeft(LAMBDA n, x : n + x.par, 0, s) \div Len(s)
AvgGoodDesc(its, lo, hi) ==
  LET s == GoodOf(its)
      start == Rounded(Len(s), lo)
      stop == Rounded(Len(s), hi)
  IN IF start + 1 >= stop THEN s[start + 1]
     ELSE [None EXCEPT !.par = Mean(SubSeq(s, start + 1, stop))]
PosRate == [good2 |-> 2, good3 |-> 3, good4 |-> 4, good5 |-> 5, good7 |-> 7]
AvgRange ==
  [goodAvg |-> <<0, 10>>, good0t3 |-> <<0, 3>>, good1t4 |-> <<1, 4>>, good2t5 |-> <<2, 5>>,
   good3t7 |-> <<3, 7>>, good0t7 |-> <<0, 7>>, good3t10 |-> <<3, 10>>]
CalcBestBy(its, by) ==
  IF by = "score" THEN GetBestByScore(its)
  ELSE IF by \in DOMAIN PosRate THEN OptGoodPos(its, PosRate[by])
  ELSE IF by \in DOMAIN AvgRange THEN AvgGoodDesc(its, AvgRange[by][1], AvgRange[by][2])
  ELSE OptGoodPos(its, PosRate["good3"])
-----------------------------------------------------------------------------
(* optForGroup *)

Combo(name, ps) == [name |-> name, pols |-> Range(ps), n |-> Len(ps)]
RunBTOnce(c) == Result[market][c.pols]

Group == Head(left)
DirtsOf(g) == IF g.dirt = "any" THEN <<"long", "short", "">> ELSE <<g.dirt>>
Start ==
  /\ phase = "next" /\ left # <<>>
  /\ todo' = DirtsOf(Group) /\ pol' = [d \in Range(DirtsOf(Group)) |-> None]
  /\ tuned' = "none" /\ best' = NoneYet /\ phase' = "try"
  /\ UNCHANGED <<market, ran, picker, left, items, log, printed, got>>

(* optForPol: config.RunPolicy is the policy alone, or with its other side     *)
(* when the combination is tuned.                                              *)
Running(d, x) ==
  IF tuned = "none" THEN Combo(Group.name, <<<<d, x>>>>)
  ELSE LET q == [pol EXCEPT ![d].par = x] IN Combo(Group.name, <<<<"long", q["long"].par>>, <<"short", q["short"].par>>>>)
Tried(x, o) == [par |-> x, score |-> o.score, num |-> o.num, run |-> TRUE, dirt |-> ""]
Trials ==
  /\ phase = "try"
  /\ \E s \in Tries :
       /\ items' = [i \in DOMAIN s |-> Tried(s[i], RunBTOnce(Running(Head(todo), s[i])))]
       /\ ran' = ran \cup {Running(Head(todo), s[i]) : i \in DOMAIN s}
  /\ phase' = "settle"
  /\ UNCHANGED <<market, picker, left, todo, pol, tuned, best, log, printed, got>>

Section(d, it, averaged) ==
  [name |-> Group.name, of |-> Len(left), dirt |-> d, union |-> FALSE, items |-> items, gave |-> it.score,
   picked |-> IF averaged THEN picker :> it ELSE <<>>]
Taken(b, d, it) == IF it.score > b.score THEN [score |-> it.score, num |-> it.num, dirts |-> {d}] ELSE b
Tuned(b, it) == IF it.score > b.score THEN [b EXCEPT !.score = it.score, !.dirts = {"long", "short"}] ELSE b
\* An averaged parameter has to be run, first.
Settle ==
  /\ phase = "settle"
  /\ \E pick \in {CalcBestBy(items, picker)} :
     LET d == Head(todo)
         run == Running(d, pick.par)
         it == IF pick.run THEN pick ELSE Tried(pick.par, RunBTOnce(run))
     IN /\ ran' = ran \cup {run} /\ pol' = [pol EXCEPT ![d] = it]
        /\ log' = Append(log, Section(d, it, ~pick.run))
        /\ best' = IF tuned = "none" THEN Taken(best, d, it) ELSE Tuned(best, it)
  /\ todo' = Tail(todo) /\ items' = <<>>
  /\ phase' = IF Len(todo) > 1 THEN "try" ELSE IF tuned = "none" /\ Group.dirt = "any" THEN "join" ELSE "print"
  /\ UNCHANGED <<market, picker, left, tuned, printed, got>>

Lower == IF pol["long"].score > pol["short"].score THEN "short" ELSE "long"
Upper == IF Lower = "short" THEN "long" ELSE "short"
Unbalanced == pol[Lower].score < 0 \/ pol[Upper].score > 5 * pol[Lower].score
BothEarn == pol["long"].score > 0 /\ pol["short"].score > 0
Joined == Combo(Group.name, <<<<"long", pol["long"].par>>, <<"short", pol["short"].par>>>>)
UnionSection(o) ==
  [name |-> Group.name, of |-> Len(left), dirt |-> "", union |-> TRUE, items |-> <<Tried(0, o)>>, gave |-> o.score, picked |-> <<>>]
\* Both sides together, then the lower side tuned with the other as it is.
Join ==
  /\ phase = "join"
  /\ IF BothEarn
     THEN LET o == RunBTOnce(Joined) IN
          /\ ran' = ran \cup {Joined} /\ log' = Append(log, UnionSection(o))
          /\ best' = IF WorthIt(o, best) THEN [score |-> o.score, num |-> o.num, dirts |-> {"long", "short"}] ELSE best
     ELSE UNCHANGED <<ran, log, best>>
  /\ IF Unbalanced THEN tuned' = Lower /\ todo' = <<Lower>> /\ phase' = "try"
     ELSE phase' = "print" /\ UNCHANGED <<tuned, todo>>
  /\ UNCHANGED <<market, picker, left, pol, items, printed, got>>

Bests == [name |-> Group.name, of |-> Len(left), score |-> best.score, items |-> {<<d, pol[d].par>> : d \in best.dirts}]
OptAndPrint ==
  /\ phase = "print" /\ phase' = "next" /\ left' = Tail(left)
  /\ printed' = IF best.score > 0 THEN Append(printed, Bests) ELSE printed
  /\ UNCHANGED <<market, ran, picker, todo, pol, tuned, best, items, log, got>>

\* The trials of a section by their loss.
SortOptLogs ==
  /\ phase = "next" /\ left = <<>> /\ phase' = "collect"
  /\ log' = [i \in DOMAIN log |-> [log[i] EXCEPT !.items = FoldLeft(LAMBDA s, x : Inserted(Scored, s, x), <<>>, @)]]
  /\ UNCHANGED <<market, ran, picker, left, todo, pol, tuned, best, items, printed, got>>
-----------------------------------------------------------------------------
(* collectOptLog *)

Sides == {"long", "short", "both", "longMain", "shortMain"}
Empty == [side |-> [s \in Sides |-> None], name |-> "", res |-> {}, runs |-> {}, out |-> <<>>, panic |-> FALSE]
\* Nothing but ToPol gives an item its direction.
ToPol(it, d) == IF it.dirt = "" THEN [it EXCEPT !.dirt = d] ELSE it
PolOf(it) == <<it.dirt, it.par>>

BestSide(st, S) == GetBestByScore(SelectSeq([i \in DOMAIN S |-> st.side[S[i]]], LAMBDA x : x # None))
OneSide(st) == BestSide(st, <<"long", "short">>)
TwoSide(st) == BestSide(st, <<"both", "longMain", "shortMain">>)
UseOne(st) == TwoSide(st) = None \/ (OneSide(st) # None /\ ~WorthIt(TwoSide(st), OneSide(st)))
Chosen(st) ==
  LET one == OneSide(st)
      two == TwoSide(st)
  IN IF UseOne(st) THEN {PolOf(one)}
     ELSE IF two.dirt = "" THEN {PolOf(two)}
     ELSE IF two = st.side["longMain"] THEN {PolOf(st.side["long"]), PolOf(two)}
     ELSE {PolOf(st.side["short"]), PolOf(two)}
ScoreOf(st) == IF UseOne(st) THEN OneSide(st).score ELSE TwoSide(st).score
SaveGroup(st) ==
  IF st.name = "" THEN st
  ELSE [st EXCEPT !.res = @ \cup {[name |-> st.name, score |-> ScoreOf(st), items |-> Chosen(st)]},
                  !.side = Empty.side, !.name = ""]

\* Where the best of a section belongs, and with which other side it was found.
SideOf(st, d) ==
  IF d = "long" THEN (IF st.side["long"] = None THEN "long" ELSE "shortMain")
  ELSE IF d = "short" THEN (IF st.side["short"] = None THEN "short" ELSE "longMain")
  ELSE "both"
OtherOf == [longMain |-> "long", shortMain |-> "short"]
\* One that was never run is run now, and its result is added to the log.
Placed(st, s, pick, by) ==
  LET side == SideOf(st, s.dirt)
      alone == side \notin DOMAIN OtherOf
      it == ToPol(pick, s.dirt)
      other == ToPol(st.side[OtherOf[side]], s.dirt)
      c == Combo(s.name, IF alone THEN <<PolOf(it)>> ELSE <<PolOf(other), PolOf(it)>>)
      done == [it EXCEPT !.score = RunBTOnce(c).score, !.num = RunBTOnce(c).num, !.run = TRUE]
  IN IF pick.run THEN [st EXCEPT !.side[side] = pick, !.out = Append(@, s)]
     ELSE IF ~alone /\ st.side[OtherOf[side]] = None THEN [st EXCEPT !.panic = TRUE]
     ELSE [st EXCEPT !.side = [x \in Sides |-> IF x = side THEN done ELSE IF ~alone /\ x = OtherOf[side] THEN other ELSE @[x]],
                     !.runs = @ \cup {c},
                     !.out = Append(@, [s EXCEPT !.picked = (by :> [done EXCEPT !.dirt = ""]) @@ @])]
\* The line of a union has no parameters: parseOptLine reads past its end.
OnSection(st, s, pick, by) ==
  IF st.panic \/ s.union THEN [st EXCEPT !.panic = TRUE]
  ELSE Placed(IF st.name # s.name THEN [SaveGroup(st) EXCEPT !.name = s.name] ELSE st, s, pick, by)
PickFrom(s, by) == IF by \in DOMAIN s.picked THEN s.picked[by] ELSE CalcBestBy(s.items, by)
Collected(by) ==
  SaveGroup(FoldLeft(LAMBDA st, x : OnSection(st, x.sec, x.pick, by), Empty,
                     [i \in DOMAIN log |-> [sec |-> log[i], pick |-> PickFrom(log[i], by)]]))
MinScore == 0
CollectOptLog ==
  /\ phase = "collect" /\ Len(got) < MaxCollects
  /\ \E by \in Pickers :
       \E st \in {Collected(by)} :
       IF st.panic THEN phase' = "panic" /\ UNCHANGED <<ran, log, got>>
       ELSE /\ ran' = ran \cup st.runs /\ log' = st.out /\ phase' = phase
            /\ got' = Append(got, [by |-> by, groups |-> {g \in st.res : g.score >= MinScore}])
  /\ UNCHANGED <<market, picker, left, todo, pol, tuned, best, items, printed>>

Next == Start \/ Trials \/ Settle \/ Join \/ OptAndPrint \/ SortOptLogs \/ CollectOptLog
Spec == Init /\ [][Next]_vars
-----------------------------------------------------------------------------
(* Every trial in the log is a back test that was run.                         *)
TypeOK ==
  /\ phase \in {"next", "try", "settle", "join", "print", "collect", "panic"}
  /\ picker \in Pickers /\ market \in Markets
  /\ \A i \in DOMAIN log : \A j \in DOMAIN log[i].items :
       \E c \in ran : c.name = log[i].name /\ RunBTOnce(c).score = log[i].items[j].score
  /\ \A i \in DOMAIN got : got[i].by \in Pickers

(* What is printed for a policy was run just so, directions included, unless   *)
(* both sides were run together first and one of them was tuned after; and     *)
(* nothing found for the policy alone, or by tuning, scores higher             *)
(* (optForGroup).                                                              *)
TunedLater(g) == Cardinality(g.items) = 2 /\ \E i \in DOMAIN log : log[i].of = g.of /\ log[i].union /\ log[i].gave = g.score
WasRun(g) == \E c \in ran : c.name = g.name /\ c.pols = g.items /\ RunBTOnce(c).score = g.score
PrintedIsBest ==
  \A i \in DOMAIN printed :
    LET g == printed[i] IN
    /\ TunedLater(g) \/ WasRun(g)
    /\ \A j \in DOMAIN log : (log[j].of = g.of /\ ~log[j].union) => log[j].gave <= g.score

(* What is collected has a score that some combination with its parameters was *)
(* run with, is not a quarter worse than anything the same picker finds for    *)
(* the policy, and what is collected again is the same (collectOptLog,         *)
(* pickFromExists).                                                            *)
Pars(S) == {p[2] : p \in S}
ScoreWasRun(g) == \E c \in ran : c.name = g.name /\ Pars(g.items) \subseteq Pars(c.pols) /\ RunBTOnce(c).score = g.score
Finds(by, s) == PickFrom(s, by).score
CollectedIsGood ==
  \A i \in DOMAIN got : \A g \in got[i].groups :
    /\ ScoreWasRun(g)
    /\ \A j \in DOMAIN log : log[j].name = g.name => 4 * Finds(got[i].by, log[j]) <= 5 * g.score
CollectedAgain ==
  \A i, j \in DOMAIN got : got[i].by = got[j].by =>
    IF got[i].by \in DOMAIN AvgRange THEN {g.score : g \in got[i].groups} = {g.score : g \in got[j].groups}
    ELSE got[i].groups = got[j].groups

\* Both, for the run of all parts.
OptSound == PrintedIsBest /\ CollectedIsGood /\ CollectedAgain
=============================================================================
