---------------------------- MODULE MCLiveEnvs -----------------------------
(* One order under three environments; env says which one the behaviour is   *)
(* in.  The constants of the run bound those of the three.                   *)
EXTENDS LiveOrder
VARIABLE env

\* The exchange answers every call and the strategy moves the stop loss.
Moves == INSTANCE LiveOrder WITH Amount <- 2, Duplicates <- FALSE
\* Exchange calls fail and resting orders expire, the stop loss stays as it was set.
Failing == INSTANCE LiveOrder WITH
  Amount <- 2, Duplicates <- FALSE, MaxEdits <- 0, Errors <- TRUE, Expires <- TRUE
\* No stop loss, more lots, trades that arrive more than once.
Doubles == INSTANCE LiveOrder WITH Stops <- {}, MaxEdits <- 0

AllInit ==
  \/ env = "moves" /\ Moves!Init
  \/ env = "failing" /\ Failing!Init
  \/ env = "doubles" /\ Doubles!Init
AllNext ==
  /\ env' = env
  /\ \/ env = "moves" /\ Moves!Next
     \/ env = "failing" /\ Failing!Next
     \/ env = "doubles" /\ Doubles!Next

\* The fairness of LiveOrder, asked for where the exchange answers and no stop moves.
Doubling(A) == env = "doubles" /\ A /\ env' = env
AllFairness ==
  /\ WF_<<vars, env>>(Doubling(Doubles!HandleOrderQueue))
  /\ WF_<<vars, env>>(Doubling(\E t \in net : Doubles!HandleMyTrade(t)))
  /\ WF_<<vars, env>>(Doubling(Doubles!UpdateByMyTrade))
  /\ \A g \in Threads : WF_<<vars, env>>(Doubling(Doubles!Handler(g)))
  /\ \A o \in Orders : WF_<<vars, env>>(Doubling(Doubles!PostOrderExit(o)))
  /\ WF_<<vars, env>>(Doubling(\E x \in DOMAIN exo : exo[x].kind = "exit" /\ Doubles!Fill(x)))
AllSpec == AllInit /\ [][AllNext]_<<vars, env>> /\ AllFairness

\* A fully exited order leaves no untouched stop order behind while the exchange
\* answers (cancelTriggerOds; with a failing exchange the cancel itself may fail),
\* and while it is still open a resting stop order is one a handler knows of.
MovedStopsAreClosed == env = "moves" => ClosedLeavesNoStop /\ Moves!SettledInv

\* Without a stop loss and with an exchange that answers, the entry and the exit are
\* sent once, every fill is known, and a closed order leaves nothing at the exchange:
\* the exit is asked for in one place, and what is live there is what the order knows.
DoublesSettle ==
  env = "doubles" => /\ SubmittedOnce /\ FillsKnown /\ ClosedLeavesNoOrder /\ ClosedLeavesNoPosition
                     /\ Doubles!ExitsInv /\ Doubles!SettledInv /\ Doubles!CountedInv

\* An exit that was asked for completes (the queue and both handlers are served).
DoublesExitCompletes ==
  \A o \in Orders : env = "doubles" /\ ord[o].exitTag ~> ord[o].status = "FullExit"
=============================================================================
