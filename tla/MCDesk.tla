------------------------------- MODULE MCDesk -------------------------------
(* What goes on around the orders, in one run: the rules of exits, entries    *)
(* and rotations (MCRules), the bot's restarts and limits (MCTrading), and    *)
(* the tools (MCTools).  part says which; the variables of the others do not  *)
(* change.                                                                    *)
EXTENDS MCRules
VARIABLES
  clock, ex, loc, sent, stage, open, since, todo, snap, users, heard, kept,
  asked, due, barMS, simulOpen, simulOpenSt, opened, work, noEnter, refused, dropped, entered, inTick,
  phase, now, tested, rows, unseen, orders, stops,
  market, ran, picker, sides, pol, tuned, best, items, log, printed, got,
  command, blends, range, cur, dateRange, logs, polList, policies, lastPols, wallet, histODs, lastWal, allHisOds, row, runs,
  trades, file, data, wanted, ranges, offset, asks,
  records, bts, skips, ids, temps, lots,
  signals, live, gone, curMS, startMS, positions, btOpens, btAll, odNextMS, told, report,
  bars, rangeStart, rangeEnd, chosen, stats, testOrders,
  startAt, disabled, writing, until, noEnterUntil, cmd, checked, count, crashes
ruleVars == <<od, exitVars, enterVars, jobVars, relayVars>>
tradeVars == <<clock, ex, loc, sent, stage, open, since, todo, snap, users, heard, kept,
               asked, due, barMS, simulOpen, simulOpenSt, opened, work, noEnter, refused, dropped, entered, inTick>>
toolVars == <<phase, now, tested, rows, unseen, orders, stops,
              market, ran, picker, sides, pol, tuned, best, items, log, printed, got,
              command, blends, range, cur, dateRange, logs, polList, policies, lastPols, wallet, histODs, lastWal, allHisOds, row, runs,
              trades, file, data, wanted, ranges, offset, asks,
              records, bts, skips, ids, temps, lots,
              signals, live, gone, curMS, startMS, positions, btOpens, btAll, odNextMS, told, report,
              bars, rangeStart, rangeEnd, chosen, stats, testOrders,
              startAt, disabled, writing, until, noEnterUntil, cmd, checked, count, crashes>>
deskVars == <<ruleVars, tradeVars, toolVars, part>>

Trading == INSTANCE MCTrading WITH now <- clock, phase <- stage
Tools == INSTANCE MCTools WITH
  at <- tested, left <- unseen, made <- trades, mode <- command, noEnter <- noEnterUntil, ods <- records,
  req <- wanted, todo <- sides

NoRules == Idle(od) /\ NoExit /\ NoEnter /\ NoJobs /\ NoRelay
NoTrading == Trading!NoRecovery /\ Trading!NoLimit /\ clock = 0
DeskInit ==
  \/ AllInit /\ NoTrading /\ Tools!NoTool
  \/ Trading!AllInit /\ NoRules /\ Tools!NoTool
  \/ Tools!ToolInit /\ NoRules /\ NoTrading
DeskNext ==
  \/ AllNext /\ UNCHANGED <<tradeVars, toolVars>>
  \/ Trading!AllNext /\ UNCHANGED <<ruleVars, toolVars>>
  \/ Tools!ToolNext /\ UNCHANGED <<ruleVars, tradeVars>>
DeskSpec == DeskInit /\ [][DeskNext]_deskVars
-----------------------------------------------------------------------------
(* Every variable of a part has its type, in every part.                      *)
DeskTypeOK == AllTypeOK /\ Trading!AllTypeOK /\ Tools!ToolTypeOK

\* The properties of MCTrading and MCTools.
\* Open orders stay within the limits of account and policy (allowOrderEnter).
LimitsKept == Trading!LimitsKept
\* After a restart orders and positions agree (SyncExgOrders, SyncLocalOrders).
RestartSound == Trading!RestartSound
\* What is compared with back tests is whole, and compared once (ExgOrderSet, BacktestToCompare, BtFactors).
ComparesSound == Tools!ComparesSound
\* Stopped entries stay stopped, and no order is said to be closed that goes on (disableTrading, closeAllOrders).
EntryStopsSound == Tools!EntryStopsSound
=============================================================================
