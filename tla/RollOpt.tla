------------------------------ MODULE RollOpt ------------------------------
(* Back tests whose policies are optimised again for every period, on the      *)
(* time before it (opt/hyper_opt.go RunBTOverOpt), and the test of the pickers *)
(* that choose the parameters (RunRollBTPicker).  The log of an optimisation   *)
(* stays on disk and is used when the command is started again.  A policy is   *)
(* known by its key, its parameters by the last bar they were found with.      *)
EXTENDS Integers, Sequences, FiniteSets, TLC
CONSTANTS
  Start, End, RunPeriod, ReviewPeriod,
  Modes,     \* commands: "bt", "pickers"
  Pickers,   \* how many pickers are tested
  Keys,      \* keys of the policies an optimisation may end with
  Results,   \* what a back test may earn
  MaxStops
VARIABLES
  mode, blends,  \* the command; whether alpha is below 1
  range,     \* config.TimeRange
  phase,     \* "down", "next", "run", "end"
  cur, dateRange,
  logs,      \* opt_<start>.log: the policies in it
  polList, policies, lastPols,  \* parseRunPolicies; config.RunPolicy; lastPols
  wallet, histODs,              \* globals of the program
  lastWal, allHisOds,           \* what the loop keeps of them
  row,       \* [date, items: the ends of the times the parameters of its tests were found in]
  at,        \* pickers done in this row
  runs, rows, stops
kept == <<mode, blends, range, stops>>
vars == <<kept, phase, cur, dateRange, logs, polList, policies, lastPols, wallet, histODs, lastWal, allHisOds, row, at, runs, rows>>

Deposit == 100
NoWal == -1
NoRow == [date |-> 0, items |-> <<>>]
\* initPols: the policies of the configuration, found with no bar at all.
InitPols == [k \in Keys |-> 0]
Init ==
  /\ mode \in Modes /\ blends \in BOOLEAN /\ range = [start |-> Start, end |-> End]
  /\ phase = "down" /\ cur = Start + ReviewPeriod /\ dateRange = range
  /\ logs = <<>> /\ polList = <<>> /\ policies = InitPols /\ lastPols = InitPols
  /\ wallet = Deposit /\ histODs = {} /\ lastWal = NoWal /\ allHisOds = {} /\ row = NoRow /\ at = 0
  /\ runs = <<>> /\ rows = <<>> /\ stops = 0
\* newRollBtOpt: the hash of the configuration names the directory of the logs.
NewRollBtOpt ==
  /\ phase = "down" /\ phase' = "next"
  /\ cur' = range.start + ReviewPeriod /\ dateRange' = range /\ policies' = InitPols /\ lastPols' = InitPols
  /\ polList' = <<>> /\ wallet' = Deposit /\ histODs' = {} /\ lastWal' = NoWal /\ allHisOds' = {}
  /\ row' = NoRow /\ at' = 0 /\ rows' = <<>>
  /\ UNCHANGED <<kept, logs, runs>>
-----------------------------------------------------------------------------
(* runOptimize: its back tests run over config.TimeRange, of which dateRange   *)
(* is a copy, and use the wallets and orders of the program.                   *)
Found == {[k \in S |-> range.end] : S \in SUBSET Keys}
Optimized == wallet' \in {Deposit + r : r \in Results} /\ histODs' = {0}
\* Stopped meanwhile, the log holds some of the policies.
PartsOf(f) == {[k \in S |-> f[k]] : S \in SUBSET DOMAIN f}
Window == [start |-> cur - ReviewPeriod, end |-> cur]
\* next: a log of the same start is used as it is (pickFromExists).
Dated == IF mode = "pickers" /\ at = 0 THEN [date |-> cur, items |-> <<>>] ELSE row
NextPolicies ==
  /\ phase = "next" /\ (cur < range.end \/ at > 0)
  /\ dateRange' = Window /\ policies' = InitPols /\ row' = Dated
  /\ IF Window.start \in DOMAIN logs
     THEN polList' = logs[Window.start] /\ UNCHANGED <<logs, wallet, histODs>>
     ELSE Optimized /\ \E f \in Found : polList' = f /\ logs' = (Window.start :> f) @@ logs
  /\ phase' = "run"
  /\ UNCHANGED <<kept, cur, lastPols, lastWal, allHisOds, at, runs, rows>>

\* The next picker, or the next row once all had their turn.
Turn ==
  IF mode = "bt" THEN UNCHANGED at
  ELSE at' = (at + 1) % Pickers
RowDone == mode = "pickers" /\ at + 1 = Pickers
\* No policies: the period is over, even if other pickers are still to be tested in it.
Skip ==
  /\ phase = "run" /\ polList = <<>> /\ phase' = "next" /\ Turn
  /\ cur' = cur + (IF RowDone THEN 2 * RunPeriod ELSE RunPeriod)
  /\ rows' = IF RowDone THEN Append(rows, row) ELSE rows
  /\ wallet' = Deposit /\ histODs' = {}
  /\ UNCHANGED <<kept, dateRange, logs, polList, policies, lastPols, lastWal, allHisOds, row, runs>>

\* applyOptPolicies: the parameters of the same key are blended with the last.
Later(a, b) == IF a < b THEN b ELSE a
ApplyOptPolicies(olds, pols) ==
  [k \in DOMAIN pols |-> IF blends /\ k \in DOMAIN olds THEN Later(olds[k], pols[k]) ELSE pols[k]]
\* The balance of the last period: NewBackTest has put the deposit into the wallet.
StartWal == IF lastWal = NoWal THEN Deposit ELSE lastWal
\* dateRange is moved on to the period, but it is a copy: the test runs over config.TimeRange.
Period == [start |-> cur, end |-> cur + RunPeriod]
RunBackTest ==
  /\ phase = "run" /\ mode = "bt" /\ polList # <<>> /\ phase' = "next"
  /\ policies' = ApplyOptPolicies(lastPols, polList) /\ lastPols' = policies'
  /\ \E r \in Results : wallet' = StartWal + r
  /\ histODs' = allHisOds \cup {Len(runs) + 1}
  /\ lastWal' = wallet' /\ allHisOds' = histODs'
  /\ runs' = Append(runs, [cur |-> cur, over |-> range, start |-> stops, found |-> polList, pols |-> policies',
                           before |-> StartWal, after |-> wallet', orders |-> histODs'])
  /\ dateRange' = Period /\ cur' = cur + RunPeriod
  /\ UNCHANGED <<kept, logs, polList, row, at, rows>>
\* One picker; every test begins with the deposit, and with the first bar of config.TimeRange.
TestPicker ==
  /\ phase = "run" /\ mode = "pickers" /\ polList # <<>> /\ phase' = "next" /\ Turn
  /\ policies' = polList /\ dateRange' = Period
  /\ \E r \in Results : wallet' = Deposit + r
  /\ histODs' = {1}
  /\ LET r == [row EXCEPT !.items = Append(@, dateRange.end)] IN
       row' = r /\ rows' = (IF RowDone THEN Append(rows, r) ELSE rows)
  /\ cur' = IF RowDone THEN cur + RunPeriod ELSE cur
  /\ UNCHANGED <<kept, logs, polList, lastPols, lastWal, allHisOds, runs>>
Finish ==
  /\ phase = "next" /\ at = 0 /\ cur >= range.end /\ phase' = "end"
  /\ UNCHANGED <<kept, cur, dateRange, logs, polList, policies, lastPols, wallet, histODs, lastWal, allHisOds, row, at, runs, rows>>

\* Stopped and started again, as the logs are kept; an optimisation leaves a part of its log.
Stop ==
  /\ phase \in {"next", "run"} /\ stops < MaxStops /\ stops' = stops + 1 /\ phase' = "down"
  /\ IF phase = "run" /\ histODs = {0}
     THEN \E f \in PartsOf(polList) : logs' = [logs EXCEPT ![dateRange.start] = f]
     ELSE UNCHANGED logs
  /\ UNCHANGED <<mode, blends, range, cur, dateRange, polList, policies, lastPols, wallet, histODs, lastWal, allHisOds, row, at, runs, rows>>

Next == NewRollBtOpt \/ NextPolicies \/ Skip \/ RunBackTest \/ TestPicker \/ Finish \/ Stop
Spec == Init /\ [][Next]_vars
-----------------------------------------------------------------------------
TypeOK ==
  /\ phase \in {"down", "next", "run", "end"} /\ at \in 0 .. Pickers - 1
  /\ DOMAIN polList \subseteq Keys /\ DOMAIN policies \subseteq Keys
  /\ Len(rows) <= End /\ (phase \in {"run", "next"} => dateRange.start <= dateRange.end)

(* The balance and the orders of a test go over to the next, whatever the      *)
(* optimisation between them did to wallets and orders, and a test adds its    *)
(* own orders only (RunBTOverOpt).                                             *)
TestsJoin ==
  \A i, j \in DOMAIN runs :
    j = i + 1 /\ runs[i].start = runs[j].start =>
      runs[j].before = runs[i].after /\ runs[j].orders = runs[i].orders \cup {j}
(* A command that is started again tests a period with the policies it was     *)
(* tested with before (pickFromExists).                                        *)
LogsRepeat == \A i, j \in DOMAIN runs : runs[i].cur = runs[j].cur => runs[i].found = runs[j].found
(* A row in which every picker found policies compares parameters found in one *)
(* time, which ends at its date (RunRollBTPicker).                             *)
RowsAligned ==
  \A i \in DOMAIN rows : Len(rows[i].items) = Pickers => \A k \in 1 .. Pickers : rows[i].items[k] = rows[i].date
RollSound == TestsJoin /\ LogsRepeat /\ RowsAligned

(* No parameters of a test were found with bars later than those it begins     *)
(* with ("avoid using future information", RunBTOverOpt).                      *)
NoFuture == \A i \in DOMAIN runs : \A k \in DOMAIN runs[i].pols : runs[i].pols[k] <= runs[i].over.start
=============================================================================
