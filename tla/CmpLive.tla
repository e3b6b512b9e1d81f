------------------------------ MODULE CmpLive ------------------------------
(* The regular comparison of the live bot with a back test of the same time   *)
(* (opt/tools.go BacktestToCompare): a back test runs in a process of its own  *)
(* while orders go on being opened and closed, and every order open in only    *)
(* one of the two is reported, each live order at most once a bar.  The        *)
(* strategy is a set of signals: opened and closed at ends of bars; the live   *)
(* bot may be late, or miss either.                                            *)
EXTENDS Integers, Sequences, FiniteSets, FiniteSetsExt, Functions, TLC
CONSTANTS
  Signals,   \* functions from orders to [open, close], multiples of TF; what the strategy does
  TF, MaxTime,
  Late,      \* how late the live bot may open
  Ago,       \* the back test goes back at least to the start of the bot, or so long ago
  StartAt    \* core.StartAt
VARIABLES
  now, signals,
  live,      \* function from the orders open in the live bot to when they were opened
  gone,      \* orders the live bot has closed, or missed
  phase,     \* "idle", "run", "read"
  curMS, startMS, positions, \* of the comparison that runs
  btOpens, btAll,            \* keys of the back test: open at its end; all: key -> its order
  odNextMS,
  told,      \* reports so far: [at, key]
  report     \* the last one: [matched, liveMore, btMore, differ] and what it was about
envVars == <<now, signals, live, gone>>
runVars == <<curMS, startMS, positions, btOpens, btAll>>
vars == <<envVars, phase, runVars, odNextMS, told, report>>

Min2(a, b) == IF a < b THEN a ELSE b
Max2(a, b) == IF a > b THEN a ELSE b
NoReport == [at |-> 0, start |-> 0, liveMore |-> {}, btMore |-> {}, live |-> <<>>, seen |-> {}, diff |-> FALSE]
Init ==
  /\ now = StartAt /\ signals \in Signals
  /\ \E D \in SUBSET {o \in DOMAIN signals : signals[o].open < StartAt} : live = [o \in D |-> signals[o].open]
  /\ gone = {} /\ phase = "idle" /\ curMS = 0 /\ startMS = 0 /\ positions = {}
  /\ btOpens = {} /\ btAll = {} /\ odNextMS = <<>> /\ told = {} /\ report = NoReport
-----------------------------------------------------------------------------
(* The live bot *)
Tick ==
  /\ now < MaxTime /\ now' = now + 1
  /\ UNCHANGED <<signals, live, gone, phase, runVars, odNextMS, told, report>>
Open ==
  /\ \E o \in DOMAIN signals \ (gone \cup DOMAIN live) :
       now - signals[o].open \in 0 .. Late /\ live' = (o :> now) @@ live
  /\ UNCHANGED <<now, signals, gone, phase, runVars, odNextMS, told, report>>
Close ==
  /\ \E o \in DOMAIN live : now > live[o] /\ live' = [k \in DOMAIN live \ {o} |-> live[k]] /\ gone' = gone \cup {o}
  /\ UNCHANGED <<now, signals, phase, runVars, odNextMS, told, report>>

Align(t) == (t \div TF) * TF
(* KeyAlign: the time the order was entered at, rounded to the nearest bar. *)
Rounded(t) == ((2 * t + TF) \div (2 * TF)) * TF
KeyAlign(o, t) == <<o, Rounded(t)>>
LiveKeys == {KeyAlign(o, live[o]) : o \in DOMAIN live}
-----------------------------------------------------------------------------
(* BacktestToCompare *)

Idle == report' = NoReport /\ UNCHANGED <<envVars, runVars, odNextMS, told>>
FetchAccountPositions ==
  /\ phase = "idle" /\ phase' = "run" /\ positions' = DOMAIN live
  /\ report' = NoReport /\ UNCHANGED <<envVars, curMS, startMS, btOpens, btAll, odNextMS, told>>
\* Nothing open and no position, no rights to write, or no back test: it ends without a word.
GiveUp == phase \in {"run", "read"} /\ phase' = "idle" /\ Idle
MinStartMS == Min({now} \cup Range(live))
\* The command line of the back test.
Begin ==
  /\ phase = "run" /\ (live # <<>> \/ positions # {}) /\ phase' = "read"
  /\ curMS' = now /\ startMS' = Min2(MinStartMS, Max2(StartAt, now - Ago))
  /\ btOpens' = {} /\ btAll' = {}
  /\ UNCHANGED <<envVars, positions, odNextMS, told, report>>

\* What the back test gives: signals on bars that end after its start; open are those it closed as it stopped.
Replayed == {o \in DOMAIN signals : signals[o].open > startMS /\ signals[o].open <= curMS}
OpenAtEnd == {o \in Replayed : signals[o].close > curMS}
KeysOf(S) == {KeyAlign(o, signals[o].open) : o \in S}
LoadOrders ==
  /\ phase = "read" /\ btAll = {} /\ Replayed # {}
  /\ btAll' = KeysOf(Replayed) /\ btOpens' = KeysOf(OpenAtEnd)
  /\ UNCHANGED <<envVars, phase, curMS, startMS, positions, odNextMS, told, report>>

OdNext(k) == IF k \in DOMAIN odNextMS THEN odNextMS[k] ELSE 0
\* Mutant: an order told in this bar is told again.
AgreesOrNew(o) == KeyAlign(o, live[o]) \in btOpens \/ curMS - live[o] < TF
Agrees(o) ==
  LET k == KeyAlign(o, live[o]) IN k \in btOpens \/ curMS < OdNext(k) \/ curMS - live[o] < TF
LiveMore == {KeyAlign(o, live[o]) : o \in {x \in DOMAIN live : ~Agrees(x)}}
Matched == LiveKeys \ LiveMore
\* compareLocalWithExg: the positions against what the back test holds.
Differ == \E o \in positions : o \notin OpenAtEnd
Compare ==
  /\ phase = "read" /\ (btAll # {} \/ Replayed = {}) /\ phase' = "idle"
  /\ odNextMS' = [k \in LiveKeys |-> Align(curMS) + TF]
  /\ told' = told \cup {[at |-> curMS, key |-> k] : k \in LiveMore}
  /\ report' = [at |-> curMS, start |-> startMS, liveMore |-> LiveMore, btMore |-> btOpens \ Matched,
                live |-> live, seen |-> DOMAIN live \cup gone, diff |-> Differ]
  /\ UNCHANGED <<envVars, runVars>>

Next == Tick \/ Open \/ Close \/ FetchAccountPositions \/ GiveUp \/ Begin \/ LoadOrders \/ Compare
Spec == Init /\ [][Next]_vars
-----------------------------------------------------------------------------
TypeOK ==
  /\ phase \in {"idle", "run", "read"} /\ DOMAIN live \subseteq DOMAIN signals
  /\ btOpens \subseteq btAll

(* An order the live bot has wrongly open is reported at most once a bar, with *)
(* any number of comparisons in it (odNextMS).                                 *)
ToldOnceABar == \A a, b \in told : a.key = b.key /\ a.at # b.at => Align(a.at) # Align(b.at)

\* Orders the strategy would have open and the bot opened within half a bar.
Right(o) == signals[o].close > report.at /\ 2 * (report.live[o] - signals[o].open) < TF
(* An order the strategy has open too is not reported, neither as open in the  *)
(* bot alone nor in the back test alone, if the back test began before it.     *)
NoFalseAlarm ==
  \A o \in DOMAIN report.live : Right(o) /\ signals[o].open > report.start =>
    KeyAlign(o, report.live[o]) \notin report.liveMore \cup report.btMore
\* Orders the strategy has closed and the live bot has not.
Wrong(o) == signals[o].close <= report.at /\ report.live[o] <= report.at - 2 * TF
(* An order the strategy closed and the live bot still has has been reported   *)
(* in the bar of the comparison, from its second bar on.                       *)
WrongIsTold ==
  \A o \in DOMAIN report.live : Wrong(o) =>
    \E t \in told : t.key = KeyAlign(o, report.live[o]) /\ Align(t.at) = Align(report.at)
(* An order that is reported as not opened was never opened, or was closed     *)
(* before the comparison ended, or was opened too late to be known by its key. *)
BtMoreIsMissing ==
  \A k \in report.btMore : k[1] \in DOMAIN report.live => 2 * (report.live[k[1]] - signals[k[1]].open) >= TF
CmpLiveSound == ToldOnceABar /\ NoFalseAlarm /\ WrongIsTold /\ BtMoreIsMissing
=============================================================================
