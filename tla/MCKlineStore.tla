---------------------------- MODULE MCKlineStore ----------------------------
(* Four writers of the bars of one symbol, each alone, in one run: part      *)
(* says which.  The constants of the run are those of "tool": downloads,     *)
(* synchronisation and the filling of holes over bars the exchange lacks,    *)
(* with a crash.                                                             *)
EXTENDS KlineStore
CONSTANT x1
VARIABLE part

\* The spider stores what it is pushed; it may stop once.
Spidering == INSTANCE KlineStore WITH
  Spiders <- {x1}, Bots <- {}, Tasks <- {}, Last <- 7, Gaps <- {}, Min1mHole <- 0, MaxCrash <- 1, MaxTasks <- 0
\* A bot downloads ranges of both time frames.
Downloading == INSTANCE KlineStore WITH
  Tasks <- {"lo", "hi"}, Gaps <- {}, Min1mHole <- 0, MaxCrash <- 0, MaxTasks <- 3

\* A bot whose statements and calls to the exchange may fail.
Failing == INSTANCE KlineStore WITH
  Tasks <- {"lo", "sync"}, Gaps <- {}, Faults <- TRUE, MaxCrash <- 0, MaxTasks <- 2

AllInit ==
  \/ part = "tool" /\ Init
  \/ part = "spider" /\ Spidering!Init
  \/ part = "bot" /\ Downloading!Init
  \/ part = "faulty" /\ Failing!Init
AllNext ==
  /\ part' = part
  /\ \/ part = "tool" /\ Next
     \/ part = "spider" /\ Spidering!Next
     \/ part = "bot" /\ Downloading!Next
     \/ part = "faulty" /\ Failing!Next
AllWorks ==
  /\ part' = part
  /\ \/ part = "tool" /\ Works(x1)
     \/ part = "spider" /\ Spidering!Works(x1)
     \/ part = "bot" /\ Downloading!Works(x1)
AllSpec == AllInit /\ [][AllNext]_<<vars, part>> /\ WF_<<vars, part>>(AllWorks)

\* The type invariant of the part the behaviour is in.
AllTypeOK ==
  /\ part = "tool" => TypeOK
  /\ part = "spider" => Spidering!TypeOK
  /\ part = "bot" => Downloading!TypeOK
  /\ part = "faulty" => Failing!TypeOK

\* No recorded hole has bars in it (updateKHoles, tryFillHoles).
AllHolesAreMissing ==
  /\ part = "tool" => HolesAreMissing
  /\ part = "spider" => Spidering!HolesAreMissing
  /\ part = "bot" => Downloading!HolesAreMissing
  /\ part = "faulty" => Failing!HolesAreMissing

\* A large bar inside its stored range exists when there is anything to build it of
\* (refreshAgg: "Avoid voids").
AllLargeHasNoVoid ==
  /\ part = "tool" => LargeHasNoVoid
  /\ part = "spider" => Spidering!LargeHasNoVoid
  /\ part = "bot" => Downloading!LargeHasNoVoid

\* A synchronisation of a symbol that has a range, which ends well, leaves range, holes
\* and table in agreement, whatever downloads and crashes did before (SyncKlineTFs).
ToolSyncRepairs == [][part = "tool" => SyncRepaired]_<<vars, part>>

\* Bots that download whatever ranges leave no unrecorded hole in the stored range when
\* the exchange has all bars (UpdateKRange).
BotRangeIsCovered == part = "bot" => Downloading!RangeIsCovered

\* They leave no bar outside of it (updateKLineRange).
BotBarsInRange == part = "bot" => Downloading!BarsInRange

\* What the spider takes for stored is stored, over its restarts (periodSta, trySaveKlines).
SpiderStampIsStored == part = "spider" => Spidering!StampIsStored

\* The spider's large bars are whole at any time (refreshAgg: "Avoid ... data errors").
SpiderLargeIsWhole == part = "spider" => Spidering!LargeIsWhole

\* No insert job locks the symbol for ever, over crashes, when no statement fails
\* (AddInsJob, UpdatePendingIns).
SoundJobsEnd == part # "faulty" /\ jobs[x1] # NoJob ~> jobs[x1] = NoJob
=============================================================================
