------------------------------- MODULE MCData -------------------------------
(* The bars in one run: their store (MCKlineStore), their way from the        *)
(* exchange to the strategies (MCFeed) and in files to another installation   *)
(* (KlineFiles).  part says which; the variables of the others do not change. *)
EXTENDS Naturals
VARIABLES
  exch, clock, lo, hi, info, holes, jobs, w, stamp, expect, halts, loads,
  minute, ticked, awaited, saving, sending, up, job, goroutines, states, told, stop, bad, missed, refreshing,
  step, todo, sender, cancelled, fails, crew, files, stored, krange, lacks, insRanges, setting, part
storeVars == <<exch, clock, lo, hi, info, holes, jobs, w, stamp, expect, halts, loads>>
feedVars == <<minute, ticked, awaited, saving, sending, up, job, goroutines, states, told, stop, bad, missed, refreshing>>
fileVars == <<step, todo, sender, cancelled, fails, crew, files, stored, krange, lacks, insRanges, setting>>

\* Writers of one symbol's bars: over bars the exchange lacks, with a crash.
Store == INSTANCE MCKlineStore WITH
  now <- clock, crashes <- halts, tasks <- loads, x1 <- "x1", Spiders <- {}, Bots <- {"x1"}, Tasks <- {"lo", "sync", "fill"},
  Wide <- 2, Last <- 5, Late <- 1, KBatchSize <- 2, Gaps <- {3, 4}, Min1mHole <- 1, Faults <- FALSE, MaxCrash <- 1, MaxTasks <- 3
\* The pipeline of a symbol: fetches fail and the connection drops once.
Pipe == INSTANCE MCFeed WITH
  now <- minute, expect <- awaited, wire <- sending, tasks <- goroutines, dropped <- missed, refresh <- refreshing, Start <- 5, Stop <- 11, Tfs <- {2, 4}, Later <- {},
  SaveWorkers <- 1, Handlers <- 1, FailAt <- {"spider", "watch"}, MaxFail <- 1, MaxDrop <- 1
\* Two workers write files of two symbols, asked for twice in part, and read them into a database that knows one of them.
Files == INSTANCE KlineFiles WITH
  w <- crew, holes <- lacks, current <- setting,
  Workers <- {"w1", "w2"}, Symbols <- {"a", "b"}, Source <- [a |-> {1, 2, 3, 6}, b |-> {2}], SourceId <- [a |-> 1, b |-> 2],
  Jobs <- <<[symbol |-> "a", start |-> 1, stop |-> 5], [symbol |-> "a", start |-> 2, stop |-> 7], [symbol |-> "b", start |-> 1, stop |-> 4]>>,
  Old <- [b |-> {6, 7}], OldId <- [b |-> 1], BatchSize <- 2, MaxKlineSize <- 1, MaxOutFSize <- 2, InsertSize <- 2, Min1mHole <- 1, MaxFail <- 1

Idle(v) == v = [x \in {} |-> 0]
StoreParts == {"tool", "spider", "bot", "faulty"}
PipeParts == {"job2", "job1", "added", "grown", "shrunk", "hasty"}
NoStore ==
  /\ exch = {} /\ clock = 0 /\ lo = {} /\ Idle(hi) /\ Idle(info) /\ Idle(holes) /\ Idle(jobs) /\ Idle(w) /\ stamp = 0
  /\ expect = 0 /\ halts = 0 /\ loads = 0
NoFeed ==
  /\ minute = 0 /\ ticked = 0 /\ awaited = 0 /\ Idle(saving) /\ Idle(sending) /\ up = FALSE /\ Idle(job) /\ goroutines = {}
  /\ Idle(states) /\ Idle(told) /\ Idle(stop) /\ bad = 0 /\ missed = 0 /\ Idle(refreshing)
NoFiles ==
  /\ step = "none" /\ todo = <<>> /\ sender = "none" /\ cancelled = FALSE /\ fails = 0 /\ Idle(crew) /\ files = <<>>
  /\ Idle(stored) /\ Idle(krange) /\ Idle(lacks) /\ Idle(insRanges) /\ setting = 0
DataInit ==
  \/ Store!AllInit /\ NoFeed /\ NoFiles
  \/ Pipe!AllInit /\ NoStore /\ NoFiles
  \/ part = "files" /\ Files!Init /\ NoStore /\ NoFeed
DataNext ==
  \/ part \in StoreParts /\ Store!AllNext /\ UNCHANGED <<feedVars, fileVars>>
  \/ part \in PipeParts /\ Pipe!AllNext /\ UNCHANGED <<storeVars, fileVars>>
  \/ part = "files" /\ part' = part /\ Files!Next /\ UNCHANGED <<storeVars, feedVars>>

StoreWorks == part \in StoreParts /\ Store!AllWorks
PipeMinute == part \in PipeParts /\ Pipe!Minute
PipeBusy == part \in PipeParts /\ Pipe!Busy
PipeWorks == part \in PipeParts /\ Pipe!AllWorks
FileWorks == part = "files" /\ Files!Works
DataSpec ==
  /\ DataInit /\ [][DataNext]_<<storeVars, feedVars, fileVars, part>>
  /\ WF_fileVars(FileWorks)
  /\ WF_storeVars(StoreWorks) /\ WF_feedVars(PipeMinute)
  /\ []<>~PipeBusy \/ []<><<PipeWorks>>_feedVars
-----------------------------------------------------------------------------
(* The ranges and holes of the store tell what it has: no hole has bars in    *)
(* it, a large bar exists when there is anything to build it of, what the     *)
(* spider takes for stored is stored and its large bars are whole, over its   *)
(* restarts, and bots that download whatever ranges leave neither an          *)
(* unrecorded hole nor a bar outside, when the exchange has all bars          *)
(* (updateKHoles, refreshAgg, periodSta, UpdateKRange).                       *)
StoreKnowsItsBars ==
  /\ Store!AllTypeOK
  /\ Store!AllHolesAreMissing /\ Store!AllLargeHasNoVoid
  /\ Store!SpiderStampIsStored /\ Store!SpiderLargeIsWhole
  /\ Store!BotRangeIsCovered /\ Store!BotBarsInRange

(* A synchronisation of a symbol that has a range, which ends well, leaves    *)
(* range, holes and table in agreement, whatever downloads and crashes did    *)
(* before, and no insert job locks the symbol for ever when no statement      *)
(* fails (SyncKlineTFs, UpdatePendingIns).                                    *)
Locked == part \in StoreParts \ {"faulty"} /\ jobs["x1"] # Store!NoJob
StoreRepairs ==
  /\ [][part = "tool" => Store!SyncRepaired]_storeVars
  /\ Locked ~> ~Locked

(* The bars an environment is given are in order and none comes twice, over   *)
(* lost connections and overtaking messages; with messages in order a bar has *)
(* all of its period, unless the feeder is left with smaller bars than its    *)
(* own or a push gets to a time frame before it is warmed (onNewBars,         *)
(* fillLacks, warmTf).                                                        *)
PipeSound == Pipe!AllTypeOK /\ (part \in PipeParts => Pipe!InOrder) /\ Pipe!CalmWhole

(* The environments of time frames above the messages' get their bars as      *)
(* BarStream promises, over failing fetches and lost connections, and those   *)
(* a refresh adds as long as no push came before they were warmed (fillLacks, *)
(* warmTf).                                                                   *)
EnvStreams == Pipe!TwoStreams /\ Pipe!FourStreams

(* The files of a sound export hold the bars asked for, a sound import brings *)
(* every bar and loses none that was there, and whatever fails, bars are at   *)
(* their own times and a range the import is finished with has every time     *)
(* stored, known to be missing or in too small a gap; both end when no worker *)
(* fails and no two of them got one file (KlineBlock.Append, tryInsertKlines, *)
(* ImportData, wg.Wait).                                                      *)
FilesSound ==
  /\ [](part = "files" =>
          Files!TypeOK /\ Files!FilesHoldSource /\ Files!ImportComplete /\ Files!RangeIsCovered)
  /\ part = "files" ~> part = "files" /\ (step \in {"done", "failed", "garbled"} \/ cancelled)
=============================================================================
