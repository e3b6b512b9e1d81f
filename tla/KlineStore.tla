------------------------------ MODULE KlineStore ------------------------------
(***************************************************************************)
(* The bars of one symbol in the database: the tables of a small and a     *)
(* large time frame (kline_1m and one aggregated from it), the stored      *)
(* range of each (kinfo), the recorded holes (khole) and the insert jobs   *)
(* that serve as a lock on the symbol (ins_kline).  Writers are the        *)
(* workers of the spider, which store the bars they were pushed, and bots  *)
(* and tools, which download ranges.  A step is one statement of the       *)
(* database, one call to the exchange or one step of a goroutine.          *)
(*                                                                         *)
(* Times count bars of the small time frame; a bar is its time, a large    *)
(* bar the set of small bars it was built from.                            *)
(***************************************************************************)
EXTENDS Integers, Sequences, FiniteSets, FiniteSetsExt

CONSTANTS
  Spiders,    \* workers of consumeWriteQ
  Bots,       \* other programs that write
  Tasks,      \* what the bots do: subset of {"lo", "hi", "sync", "fill"}
  Wide,       \* small bars in a large one
  Last,       \* bound: the last small bar
  Late,       \* updateKHoles: a gap at the end is a hole when it is this old
  KBatchSize, \* bars of one call to the exchange
  Gaps,       \* bars the exchange may not have
  Min1mHole,  \* of banexg: gaps of the small time frame up to it are not recorded
  Faults,     \* TRUE: a statement or a call to the exchange may fail
  MaxCrash,   \* bound: crashes
  MaxTasks    \* bound: tasks of the bots

\* What the constants must be.
ConstantsFit ==
  /\ {Wide, Last, KBatchSize} \subseteq Nat \ {0} /\ Wide <= Last
  /\ {Late, Min1mHole, MaxCrash, MaxTasks} \subseteq Nat
  /\ Tasks \subseteq {"lo", "hi", "sync", "fill"}
  /\ Gaps \subseteq Wide .. Last /\ Faults \in BOOLEAN
  /\ Spiders \cap Bots = {}

VARIABLES
  exch,    \* the bars the exchange has, once they are finished
  now,     \* the clock: bars before it are finished
  lo, hi,  \* kline_1m; the aggregated table
  info,    \* kinfo: the stored range of each time frame, <<0, 0>> for no row
  holes,   \* khole: the rows of each time frame, with their NoData
  jobs,    \* ins_kline: the row each writer added
  w,       \* the writers
  stamp,   \* periodSta.stamps of the spider, 0 for none
  expect,  \* KLineState.ExpectMS of the spider
  crashes, tasks

store == <<lo, hi, info, holes>>
vars == <<exch, now, lo, hi, info, holes, jobs, w, stamp, expect, crashes, tasks>>

Writers == Spiders \cup Bots
TFs == {"lo", "hi"}
Times == Wide .. Last
Ends == 0 .. (Last + 1)
Ranges == Ends \X Ends
Rows == Ends \X Ends \X BOOLEAN
None == <<0, 0>>
Job == [tf : TFs, start : Ends, stop : Ends]
NoJob == [tf |-> "lo", start |-> 0, stop |-> 0]

tfMSecs(tf) == IF tf = "lo" THEN 1 ELSE Wide
Align(t, tf) == (t \div tfMSecs(tf)) * tfMSecs(tf)
Within(r) == r[1] .. r[2] - 1

\* The bars of a table, by their times.
Bars(tf) == IF tf = "lo" THEN lo ELSE {p \in DOMAIN hi : hi[p] # {}}
Sub(p) == p .. p + Wide - 1

Idle == [pc |-> "idle", task |-> "none", tf |-> "lo", start |-> 0, stop |-> 0,
         todo |-> <<>>, buf |-> <<>>, dpc |-> "done", spc |-> "done", err |-> "ok",
         out |-> "ok", saved |-> FALSE, retry |-> 2, real |-> None, use |-> "lo",
         range |-> None, arr |-> {}, pend |-> {}, row |-> None]

TypeOK ==
  /\ ConstantsFit
  /\ exch \subseteq Times /\ now \in Wide .. Last + 1
  /\ lo \subseteq exch /\ hi \in [{p \in Times : p % Wide = 0} -> SUBSET exch]
  /\ info \in [TFs -> Ranges] /\ holes \in [TFs -> SUBSET Rows]
  /\ jobs \in [Writers -> Job]
  /\ \A x \in Writers :
       /\ DOMAIN w[x] = DOMAIN Idle /\ w[x].err \in {"ok", "fail", "dup"}
       /\ w[x].use \in TFs /\ w[x].range \in Ranges /\ w[x].retry \in 0 .. 2
       /\ w[x].arr \subseteq Times /\ w[x].pend \subseteq Writers \X Job
  /\ stamp \in Ends /\ expect \in Ends
  /\ crashes \in 0 .. MaxCrash /\ tasks \in 0 .. MaxTasks

At(x, pc) == w[x].pc = pc
Put(x, rec) == w' = [w EXCEPT ![x] = rec]
Outcomes == IF Faults THEN {"ok", "fail"} ELSE {"ok"}
----------------------------------------------------------------------------
(* Queries *)

\* min(time) and max(time) + one bar, within r or (r = None) in the whole table.
CalcKLineRange(tf, r) ==
  LET times == {t \in Bars(tf) : r = None \/ t \in Within(r)} IN
  IF times = {} THEN None ELSE <<Min(times), Max(times) + tfMSecs(tf)>>

NewRangeAsGiven(calc, r) == IF r = None THEN calc ELSE r
\* The range updateKLineRange writes; None when it writes nothing.
NewRangeOf(calc, r) ==
  IF calc = None THEN r
  ELSE IF r[1] > 0 /\ r[2] > 0 THEN <<Min({calc[1], r[1]}), Max({calc[2], r[2]})>>
  ELSE calc

\* Intervals of times, as the rows of khole have them.
Runs(times) ==
  {<<a, b>> \in times \X {t + 1 : t \in times} :
     /\ a - 1 \notin times /\ b \notin times /\ a < b /\ a .. b - 1 \subseteq times}
UnitsOf(rows) == UNION {Within(h) : h \in rows}

MissingNowhere(tf, r) == {}
MissingAndNext(tf, r) ==
  LET gaps == (Min(Bars(tf) \cup {r[2]}) .. Max(Bars(tf) \cup {0})) \ Bars(tf)
  IN gaps \cup {t + 1 : t \in gaps}
\* The times of r that no bar covers; those after the last bar only when it is old.
MissingIn(tf, r) ==
  LET times == Bars(tf) \cap Within(r)
      step == tfMSecs(tf)
      last == Max(times)
      maxEnd == Align(now, tf) - step
      old == maxEnd - last > Late * step /\ r[2] - last > step
  IN IF times = {} THEN Within(r)
     ELSE (r[1] .. last \ UNION {t .. t + step - 1 : t \in times})
          \cup (IF old THEN last + step .. Min({r[2], maxEnd}) - 1 ELSE {})

\* updateKHoles: the rows inside r are merged with the holes found there, those that
\* are too small left out; where rows overlap the one that begins first says whether the
\* exchange has no data, and rows of different NoData stay apart.
Counts(tf, r) == tf = "lo" => r[2] - r[1] > Min1mHole
Found(tf, r, isCont) == {<<g[1], g[2], isCont>> : g \in {g \in Runs(MissingIn(tf, r)) : Counts(tf, g)}}
Merged(rows) ==
  LET First(t) == CHOOSE h \in rows :
        /\ t \in Within(h)
        /\ \A g \in rows : t \in Within(g) => h[1] < g[1] \/ (h[1] = g[1] /\ (g[3] => h[3]))
  IN UNION {{<<g[1], g[2], noData>> : g \in Runs({t \in UnitsOf(rows) : First(t)[3] = noData})}
            : noData \in BOOLEAN}
NewHoles(tf, r, isCont) ==
  LET rows == {h \in holes[tf] : h[1] >= r[1] /\ h[2] <= r[2]}
  IN IF MissingIn(tf, r) = {} THEN holes[tf]
     ELSE (holes[tf] \ rows) \cup Merged(rows \cup Found(tf, r, isCont))

\* refreshAgg: the large bars from aggStart to endMS are built anew.
AggEnd(r) == IF info.hi[1] > 0 /\ info.hi[2] > info.hi[1]
             THEN Max({Align(r[2], "hi"), info.hi[1]}) ELSE Align(r[2], "hi")
AggStartRaw(r) == r[1]
AggStartNext(r) == Align(r[1], "hi") + Wide
AggStart(r) == IF info.hi[1] > 0 /\ info.hi[2] > info.hi[1]
               THEN Min({Align(r[1], "hi") - Wide, info.hi[2]}) ELSE Align(r[1], "hi") - Wide
Aggregated(r) ==
  [p \in DOMAIN hi |->
     LET bars == lo \cap Sub(p) \cap (AggStart(r) .. AggEnd(r) - 1)
     IN IF bars = {} THEN hi[p] ELSE bars]

\* The bars the exchange answers with for r: finished, and what it has.
Finished(t, tf) == t + tfMSecs(tf) <= now
FetchFilled(tf, r) == {t \in Within(r) : Align(t, tf) = t}
FetchOHLCV(tf, r) ==
  IF tf = "lo" THEN {t \in exch : t \in Within(r) /\ Finished(t, tf)}
  ELSE {p \in DOMAIN hi : p \in Within(r) /\ Finished(p, tf) /\ exch \cap Sub(p) # {}}
----------------------------------------------------------------------------
(* downOHLCV2DBRange: what is missing of a range is downloaded *)

Return(x, rec) == Put(x, [rec EXCEPT !.pc = "ret"])

\* The parts of the range that are not stored: behind it first, then before it.
LackingOfRange(old, start, stop) ==
  (IF stop > old[2] THEN <<<<Max({start, old[2]}), stop, FALSE>>>> ELSE <<>>)
  \o (IF start < old[1] THEN <<<<start, Min({stop, old[1]}), TRUE>>>> ELSE <<>>)
Lacking(old, start, stop) ==
  IF old = None THEN <<<<start, stop, FALSE>>>>
  ELSE (IF stop > old[2] THEN <<<<old[2], stop, FALSE>>>> ELSE <<>>)
       \o (IF start < old[1] THEN <<<<start, old[1], TRUE>>>> ELSE <<>>)
JobRange(todo) == <<Min({j[1] : j \in {todo[i] : i \in DOMAIN todo}}), todo[1][2]>>

ReadRange(x) ==
  LET old == info[w[x].tf]
      todo == Lacking(old, w[x].start, w[x].stop)
  IN /\ At(x, "read")
     /\ IF old[1] <= w[x].start /\ w[x].stop <= old[2] THEN Return(x, w[x])
        ELSE Put(x, [w[x] EXCEPT !.pc = "check", !.todo = todo, !.range = JobRange(todo)])
     /\ UNCHANGED <<exch, now, store, jobs, stamp, expect, crashes, tasks>>

\* AddInsJob: no two writers of a symbol; the check and the insert are two statements.
Locked(x) == \E y \in Writers : jobs[y] # NoJob
CheckInsJob(x) ==
  /\ At(x, "check")
  /\ IF Locked(x) THEN Return(x, w[x]) ELSE Put(x, [w[x] EXCEPT !.pc = "add"])
  /\ UNCHANGED <<exch, now, store, jobs, stamp, expect, crashes, tasks>>

AddInsJob(x) ==
  /\ At(x, "add")
  /\ \E res \in Outcomes :
       IF res = "fail" THEN Return(x, [w[x] EXCEPT !.out = "fail"]) /\ UNCHANGED jobs
       ELSE /\ jobs' = [jobs EXCEPT ![x] =
                [tf |-> w[x].tf, start |-> w[x].range[1], stop |-> w[x].range[2]]]
            /\ Put(x, IF w[x].task = "push"
                      THEN [w[x] EXCEPT !.pc = "ins", !.spc = "save", !.buf = <<w[x].arr>>]
                      ELSE [w[x] EXCEPT !.pc = "run", !.spc = "save", !.dpc = "fetch"])
  /\ UNCHANGED <<exch, now, store, stamp, expect, crashes, tasks>>

\* FetchApiOHLCV: the next batch of the part, from its start or from its end.
Batch(j, tf) ==
  LET n == KBatchSize * tfMSecs(tf) IN
  IF j[3] THEN <<Max({j[1], j[2] - n}), j[2]>> ELSE <<j[1], Min({j[2], j[1] + n})>>
After(j, b) == IF j[3] THEN <<j[1], b[1], TRUE>> ELSE <<b[2], j[2], FALSE>>

FetchBatch(x) ==
  LET j == Head(w[x].todo)
      b == Batch(j, w[x].tf)
      data == FetchOHLCV(w[x].tf, b)
  IN /\ At(x, "run") /\ w[x].dpc = "fetch" /\ j[1] < j[2]
     /\ \E res \in Outcomes :
          Put(x, IF res = "fail" THEN [w[x] EXCEPT !.err = "fail", !.dpc = "fetched"]
                 ELSE [w[x] EXCEPT !.todo[1] = After(j, b),
                         !.buf = IF data = {} THEN @ ELSE Append(@, data)])
     /\ UNCHANGED <<exch, now, store, jobs, stamp, expect, crashes, tasks>>

\* The part is read to its end: err, which both goroutines use, is set to nil.
FetchEnd(x) ==
  /\ At(x, "run") /\ w[x].dpc = "fetch" /\ w[x].todo[1][1] >= w[x].todo[1][2]
  /\ Put(x, [w[x] EXCEPT !.err = "ok", !.dpc = "fetched"])
  /\ UNCHANGED <<exch, now, store, jobs, stamp, expect, crashes, tasks>>

Fetched(x) ==
  /\ At(x, "run") /\ w[x].dpc = "fetched"
  /\ Put(x, IF w[x].err # "ok" THEN [w[x] EXCEPT !.out = w[x].err, !.dpc = "done"]
            ELSE [w[x] EXCEPT !.todo = Tail(@), !.dpc = IF Len(w[x].todo) = 1 THEN "done" ELSE "fetch"])
  /\ UNCHANGED <<exch, now, store, jobs, stamp, expect, crashes, tasks>>

\* One goroutine of the two has cancelled the context.
Cancelled(x) ==
  /\ At(x, "run") /\ w[x].out # "ok"
  /\ \/ w[x].dpc = "fetch" /\ Put(x, [w[x] EXCEPT !.dpc = "done"])
     \/ w[x].spc = "save" /\ Put(x, [w[x] EXCEPT !.spc = "done"])
  /\ UNCHANGED <<exch, now, store, jobs, stamp, expect, crashes, tasks>>

\* InsertKLines: what is there already is deleted and the batch inserted again.
Stores(tf, batch) ==
  IF tf = "lo" THEN lo' = lo \cup batch /\ hi' = hi
  ELSE lo' = lo /\ hi' = [p \in DOMAIN hi |-> IF p \in batch THEN exch \cap Sub(p) ELSE hi[p]]
Deletes(tf, batch) ==
  LET gone == Min(batch) .. Max(batch) IN
  IF tf = "lo" THEN lo' = lo \ gone /\ hi' = hi
  ELSE lo' = lo /\ hi' = [p \in DOMAIN hi |-> IF p \in gone THEN {} ELSE hi[p]]

InsertKLines(x) ==
  LET batch == Head(w[x].buf)
      dup == batch \cap Bars(w[x].tf) # {}
      again == w[x].spc = "again"
      Left(err) == [w[x] EXCEPT !.err = err, !.spc = "saved"]
  IN /\ w[x].spc \in {"save", "again"} /\ w[x].buf # <<>>
     /\ \E res \in Outcomes :
          \/ /\ res = "ok" /\ ~ dup
             /\ Stores(w[x].tf, batch) /\ Put(x, Left("ok"))
          \/ /\ res = "ok" /\ dup /\ ~ again
             /\ Deletes(w[x].tf, batch) /\ Put(x, [w[x] EXCEPT !.spc = "again"])
          \/ /\ res = "fail" \/ (dup /\ again)
             /\ Put(x, Left(IF dup THEN "dup" ELSE "fail")) /\ UNCHANGED <<lo, hi>>
     /\ UNCHANGED <<exch, now, info, holes, jobs, stamp, expect, crashes, tasks>>

\* The saver looks at err after the insert and notes the range it saved; the end it
\* notes is the time of the last bar, not its end.
BatchSaved(x) ==
  LET batch == Head(w[x].buf)
      old == w[x].real
  IN /\ At(x, "run") /\ w[x].spc = "saved"
     /\ Put(x, IF w[x].err # "ok" THEN [w[x] EXCEPT !.out = w[x].err, !.spc = "done"]
          ELSE [w[x] EXCEPT !.saved = TRUE, !.buf = Tail(@), !.spc = "save",
                  !.real = <<IF old = None THEN Min(batch) ELSE Min({old[1], Min(batch)}),
                             Max({old[2], Max(batch)})>>])
     /\ UNCHANGED <<exch, now, store, jobs, stamp, expect, crashes, tasks>>

SaverDone(x) ==
  /\ At(x, "run") /\ w[x].spc = "save" /\ w[x].buf = <<>> /\ w[x].dpc = "done"
  /\ Put(x, [w[x] EXCEPT !.spc = "done"])
  /\ UNCHANGED <<exch, now, store, jobs, stamp, expect, crashes, tasks>>

\* After wg.Wait: the job is deleted, then the range is updated.
DownDone(x) ==
  /\ At(x, "run") /\ w[x].dpc = "done" /\ w[x].spc = "done"
  /\ \E res \in Outcomes : jobs' = IF res = "ok" THEN [jobs EXCEPT ![x] = NoJob] ELSE jobs
  /\ LET rec == [w[x] EXCEPT !.buf = <<>>, !.todo = <<>>, !.err = "ok"] IN
     IF rec.out = "dup" /\ rec.retry > 0 THEN Put(x, [rec EXCEPT !.pc = "fix"])
     ELSE IF rec.saved
     THEN Put(x, [rec EXCEPT !.pc = "range", !.range = rec.real, !.use = rec.tf])
     ELSE Return(x, rec)
  /\ UNCHANGED <<exch, now, store, stamp, expect, crashes, tasks>>

\* A bar was there twice: the range is read from the table and all begins again.
FixRange(x) ==
  LET r == CalcKLineRange(w[x].tf, None) IN
  /\ At(x, "fix")
  /\ info' = IF r = None THEN info ELSE [info EXCEPT ![w[x].tf] = r]
  /\ Put(x, [w[x] EXCEPT !.pc = "read", !.retry = @ - 1, !.out = "ok", !.saved = FALSE,
                         !.real = None])
  /\ UNCHANGED <<exch, now, lo, hi, holes, jobs, stamp, expect, crashes, tasks>>
----------------------------------------------------------------------------
(* UpdateKRange: the stored range, the holes, the aggregated table *)

Fails(x) == Put(x, [w[x] EXCEPT !.pc = "after", !.out = IF @ = "ok" THEN "fail" ELSE @])

CalcRange(x) ==
  LET new == NewRangeOf(CalcKLineRange(w[x].use, None), w[x].range) IN
  /\ At(x, "range")
  /\ Put(x, [w[x] EXCEPT !.pc = "set", !.real = new])
  /\ UNCHANGED <<exch, now, store, jobs, stamp, expect, crashes, tasks>>

SetKInfo(x) ==
  /\ At(x, "set")
  /\ \/ /\ info' = [info EXCEPT ![w[x].use] = w[x].real]
        /\ Put(x, [w[x] EXCEPT !.pc = "holes"])
     \/ "fail" \in Outcomes /\ Fails(x) /\ UNCHANGED info
  /\ UNCHANGED <<exch, now, lo, hi, holes, jobs, stamp, expect, crashes, tasks>>

\* What a download or a push does not find the exchange does not have.
IsCont(x) == w[x].task # "sync"
\* updateBigHyper goes on when the bars complete a large one.
Completes(r) == Align(r[1], "hi") < Align(r[2], "hi")
UpdateKHoles(x) ==
  LET aggs == w[x].use = "lo" /\ Completes(w[x].range) IN
  /\ At(x, "holes")
  /\ \/ /\ holes' = [holes EXCEPT ![w[x].use] = NewHoles(w[x].use, w[x].range, IsCont(x))]
        /\ Put(x, [w[x] EXCEPT !.pc = IF aggs THEN "agg" ELSE "after"])
     \/ "fail" \in Outcomes /\ Fails(x) /\ UNCHANGED holes
  /\ UNCHANGED <<exch, now, lo, hi, info, jobs, stamp, expect, crashes, tasks>>

RefreshAgg(x) ==
  LET r == w[x].range IN
  /\ At(x, "agg")
  /\ \/ /\ hi' = Aggregated(r)
        /\ Put(x, [w[x] EXCEPT !.pc = "range", !.use = "hi",
                               !.range = <<Align(r[1], "hi"), AggEnd(r)>>])
     \/ "fail" \in Outcomes /\ Fails(x) /\ UNCHANGED hi
  /\ UNCHANGED <<exch, now, lo, info, holes, jobs, stamp, expect, crashes, tasks>>

\* UpdateKRange has returned: InsertKLinesAuto deletes its job now.
KeepsJob(x) == FALSE
FreesJob(x) == w[x].task = "push"
RangeUpdated(x) ==
  /\ At(x, "after") /\ w[x].task \notin {"pend", "sync"}
  /\ jobs' = IF FreesJob(x) THEN [jobs EXCEPT ![x] = NoJob] ELSE jobs
  /\ Return(x, w[x])
  /\ UNCHANGED <<exch, now, store, stamp, expect, crashes, tasks>>
----------------------------------------------------------------------------
(* InsertKLinesAuto and the spider: trySaveKlines *)

\* InsertKLinesAuto: an insert that fails returns and leaves the job.
AutoInserted(x) ==
  /\ At(x, "ins") /\ w[x].spc = "saved"
  /\ IF w[x].err # "ok" THEN Return(x, [w[x] EXCEPT !.out = w[x].err])
     ELSE Put(x, [w[x] EXCEPT !.pc = "range", !.use = "lo", !.spc = "done", !.buf = <<>>])
  /\ UNCHANGED <<exch, now, store, jobs, stamp, expect, crashes, tasks>>

Pending(x) == w[x].task = "pend"
Up(x) == \A y \in Writers : (x = y \/ {x, y} \subseteq Spiders) => ~ Pending(y)

\* The bars the miner fetched since the last ones, on their way to be stored.
Pushed == {t \in exch : expect <= t /\ t < now}
\* alignAndLast: the end of what the spider believes is stored.
LastPushed(exp) == exp
LastMS(exp) == IF stamp # 0 THEN stamp
               ELSE IF info.lo[2] > 0 THEN info.lo[2] - 1 ELSE exp - 1

Insert(bars) == [Idle EXCEPT !.task = "push", !.pc = "check", !.arr = bars,
                   !.range = <<Min(bars), Max(bars) + 1>>]

TrySaveKlines(x) ==
  LET exp == Min(Pushed)
      last == LastMS(exp)
  IN /\ At(x, "idle") /\ Up(x) /\ Pushed # {}
     /\ expect' = Max(Pushed) + 1
     /\ IF exp > last
        THEN /\ stamp' = exp
             /\ Put(x, [Idle EXCEPT !.task = "gap", !.pc = "read", !.start = last,
                                   !.stop = exp, !.arr = Pushed])
        ELSE stamp' = stamp /\ Put(x, Insert(Pushed))
     /\ UNCHANGED <<exch, now, store, jobs, crashes, tasks>>

\* downKlineTo has tried: it may try again, or what it did not get is left out.
GapDownloaded(x) ==
  LET end == IF lo = {} THEN w[x].start ELSE Max(lo) + 1
      bars == IF end > w[x].stop THEN {t \in w[x].arr : t >= end} ELSE w[x].arr
  IN /\ At(x, "ret") /\ w[x].task = "gap"
     /\ \/ /\ w[x].out = "ok" /\ end < w[x].stop
           /\ Put(x, [Idle EXCEPT !.task = "gap", !.pc = "read", !.start = w[x].start,
                                 !.stop = w[x].stop, !.arr = w[x].arr])
        \/ Put(x, IF w[x].out # "ok" \/ bars = {} THEN Idle ELSE Insert(bars))
     /\ UNCHANGED <<exch, now, store, jobs, stamp, expect, crashes, tasks>>

\* Without an error the bars count as stored up to their end.
Stored(x) == w[x].out = "ok"
PushDone(x) ==
  /\ At(x, "ret") /\ w[x].task = "push"
  /\ stamp' = IF Stored(x) THEN Max(w[x].arr) + 1 ELSE stamp
  /\ Put(x, Idle)
  /\ UNCHANGED <<exch, now, store, jobs, expect, crashes, tasks>>
----------------------------------------------------------------------------
(* Bots: downloads, SyncKlineTFs with tryFillHoles *)

Download(x, tf, start, stop) ==
  /\ At(x, "idle") /\ tasks < MaxTasks /\ Up(x) /\ tf \in Tasks
  /\ start < stop /\ stop <= now /\ {start, stop} = {Align(start, tf), Align(stop, tf)}
  /\ tasks' = tasks + 1
  /\ Put(x, [Idle EXCEPT !.task = "down", !.pc = "read", !.tf = tf, !.start = start, !.stop = stop])
  /\ UNCHANGED <<exch, now, store, jobs, stamp, expect, crashes>>

DownloadDone(x) ==
  /\ At(x, "ret") /\ w[x].task = "down"
  /\ Put(x, Idle)
  /\ UNCHANGED <<exch, now, store, jobs, stamp, expect, crashes, tasks>>

\* What is left of a hole h when bars were found in the range c of it, and whether the
\* hole is settled (updateKHole).
Filled(h, c) ==
  IF c = None THEN [parts |-> {<<h[1], h[2]>>}, settled |-> FALSE]
  ELSE IF c = <<h[1], h[2]>> THEN [parts |-> {}, settled |-> TRUE]
  ELSE IF c[1] = h[1] THEN [parts |-> {<<c[2], h[2]>>}, settled |-> FALSE]
  ELSE IF c[2] = h[2] THEN [parts |-> {<<h[1], c[1]>>}, settled |-> FALSE]
  ELSE [parts |-> {<<h[1], c[1]>>, <<c[2], h[2]>>}, settled |-> TRUE]
\* The row h becomes rows of the parts; SetKHole of a part that is left resets NoData.
Replace(tf, h, f) ==
  holes' = IF h \in holes[tf] /\ f.parts # {<<h[1], h[2]>>}
           THEN [holes EXCEPT ![tf] = (@ \ {h}) \cup {<<p[1], p[2], f.settled>> : p \in f.parts}]
           ELSE holes

\* A hole is looked at; what is missing of it is downloaded.
FillHole(x, tf, h) ==
  LET f == Filled(h, CalcKLineRange(tf, h)) IN
  /\ At(x, "idle") /\ tasks < MaxTasks /\ Up(x) /\ "fill" \in Tasks
  /\ tasks' = tasks + 1
  /\ IF f.settled THEN Replace(tf, h, f) /\ w' = w
     ELSE \E r \in f.parts :
            /\ Put(x, [Idle EXCEPT !.task = "fill", !.pc = "check", !.tf = tf, !.start = r[1],
                         !.stop = r[2], !.todo = Lacking(None, r[1], r[2]), !.range = r, !.row = h])
            /\ UNCHANGED holes
  /\ UNCHANGED <<exch, now, lo, hi, info, jobs, stamp, expect, crashes>>

FillDone(x) ==
  LET tf == w[x].tf
      h == <<w[x].start, w[x].stop>>
      f == Filled(h, CalcKLineRange(tf, h))
  IN /\ At(x, "ret") /\ w[x].task = "fill"
     /\ IF w[x].out = "ok" /\ w[x].saved THEN Replace(tf, w[x].row, f) ELSE UNCHANGED holes
     /\ Put(x, Idle)
     /\ UNCHANGED <<exch, now, lo, hi, info, jobs, stamp, expect, crashes, tasks>>

\* syncKlineInfos reads the rows of kinfo, then the ranges of all tables, before
\* syncKlineSid writes them; a symbol without a row of kinfo is not looked at.
NoInfo == \A tf \in TFs : info[tf] = None
SyncKlineInfos(x) ==
  /\ At(x, "idle") /\ tasks < MaxTasks /\ Up(x) /\ "sync" \in Tasks
  /\ tasks' = tasks + 1
  /\ IF NoInfo THEN w' = w
     ELSE Put(x, [Idle EXCEPT !.task = "sync", !.pc = "syncLo",
                    !.todo = <<CalcKLineRange("lo", None), CalcKLineRange("hi", None),
                               info.lo, info.hi>>])
  /\ UNCHANGED <<exch, now, store, jobs, stamp, expect, crashes>>

Calc(x, tf) == IF tf = "lo" THEN w[x].todo[1] ELSE w[x].todo[2]
Read(x, tf) == IF tf = "lo" THEN w[x].todo[3] ELSE w[x].todo[4]
AfterSync(tf) == IF tf = "lo" THEN "syncHi" ELSE "front"
\* AddKInfo, SetKInfo or DelKInfo, and an AddKInfo of a row that has come meanwhile fails.
SyncKInfo(x, tf) ==
  LET r == Calc(x, tf)
      old == Read(x, tf)
      there == old = None /\ r # None /\ info[tf] # None
  IN /\ At(x, IF tf = "lo" THEN "syncLo" ELSE "syncHi")
     /\ \/ /\ ~ there
           /\ info' = IF r = old THEN info ELSE [info EXCEPT ![tf] = r]
           /\ Put(x, [w[x] EXCEPT !.pc =
                IF r = None THEN AfterSync(tf) ELSE IF tf = "lo" THEN "holesLo" ELSE "holesHi"])
        \/ (there \/ "fail" \in Outcomes) /\ Put(x, Idle) /\ UNCHANGED info
     /\ UNCHANGED <<exch, now, lo, hi, holes, jobs, stamp, expect, crashes, tasks>>

\* "Update KHoles to avoid holes that are not recorded": in transactions of their own.
SyncKHoles(x, tf) ==
  /\ At(x, IF tf = "lo" THEN "holesLo" ELSE "holesHi")
  /\ \/ /\ holes' = [holes EXCEPT ![tf] = NewHoles(tf, Calc(x, tf), IsCont(x))]
        /\ Put(x, [w[x] EXCEPT !.pc = AfterSync(tf)])
     \/ "fail" \in Outcomes /\ Put(x, Idle) /\ UNCHANGED holes
  /\ UNCHANGED <<exch, now, lo, hi, info, jobs, stamp, expect, crashes, tasks>>

\* The large bars before and behind those stored are built from the small table.
SyncParts(x) ==
  LET sub == w[x].todo[1]
      cur == w[x].todo[2]
  IN IF sub = None THEN [front |-> None, back |-> None]
     ELSE [front |-> IF Align(sub[1], "hi") < cur[1] THEN <<sub[1], Min({sub[2], cur[1]})>> ELSE None,
           back |-> IF Align(sub[2], "hi") > cur[2] THEN <<Max({cur[2], sub[1]}), sub[2]>> ELSE None]
Refreshes(r) == r # None /\ ~ (Align(r[1], "hi") = Align(r[2], "hi") /\ Align(r[2], "hi") < r[1])

SyncAgg(x) ==
  LET r == IF At(x, "front") THEN SyncParts(x).front ELSE SyncParts(x).back
      next == IF At(x, "front") THEN "back" ELSE "done"
  IN /\ w[x].pc \in {"front", "back"}
     /\ Put(x, IF Refreshes(r) THEN [w[x] EXCEPT !.pc = "agg", !.range = r, !.spc = next]
                               ELSE [w[x] EXCEPT !.pc = next])
     /\ UNCHANGED <<exch, now, store, jobs, stamp, expect, crashes, tasks>>

SyncNext(x) ==
  /\ w[x].task = "sync"
  /\ \/ At(x, "after") /\ w[x].out = "ok" /\ w[x].spc = "back" /\ Put(x, [w[x] EXCEPT !.pc = "back"])
     \/ /\ At(x, "done") \/ (At(x, "after") /\ (w[x].out # "ok" \/ w[x].spc = "done"))
        /\ Put(x, Idle)
  /\ UNCHANGED <<exch, now, store, jobs, stamp, expect, crashes, tasks>>
----------------------------------------------------------------------------
(* A program stops; the next start finishes the jobs it finds (UpdatePendingIns) *)

AllJobs == {<<y, jobs[y]>> : y \in {z \in Writers : jobs[z] # NoJob}}
Starting == [Idle EXCEPT !.task = "pend", !.pc = "pend", !.pend = AllJobs]

\* A bot, or the spider with all its workers, stops and starts again.
CrashAndStart(x) ==
  LET group == IF x \in Spiders THEN Spiders ELSE {x} IN
  /\ crashes < MaxCrash
  /\ crashes' = crashes + 1
  /\ w' = [y \in Writers |-> IF y = x THEN Starting ELSE IF y \in group THEN Idle ELSE w[y]]
  /\ stamp' = (IF x \in Spiders THEN 0 ELSE stamp)
  /\ expect' = (IF x \in Spiders THEN now ELSE expect)
  /\ UNCHANGED <<exch, now, store, jobs, tasks>>

Forget(p) == jobs' = IF jobs[p[1]] = p[2] THEN [jobs EXCEPT ![p[1]] = NoJob] ELSE jobs
UpdatePendingIns(x) ==
  /\ At(x, "pend")
  /\ IF w[x].pend = {} THEN Put(x, Idle) /\ UNCHANGED jobs
     ELSE \E p \in w[x].pend :
       LET r == CalcKLineRange(p[2].tf, <<p[2].start, p[2].stop>>) IN
       IF r = None
       THEN Forget(p) /\ Put(x, [w[x] EXCEPT !.pend = @ \ {p}])
       ELSE /\ Put(x, [w[x] EXCEPT !.pc = "range", !.tf = p[2].tf, !.use = p[2].tf,
                                   !.range = r, !.todo = <<p>>])
            /\ UNCHANGED jobs
  /\ UNCHANGED <<exch, now, store, stamp, expect, crashes, tasks>>

PendingUpdated(x) ==
  LET p == w[x].todo[1] IN
  /\ At(x, "after") /\ w[x].task = "pend"
  /\ IF w[x].out # "ok" THEN Put(x, Starting) /\ UNCHANGED jobs
     ELSE /\ Forget(p)
          /\ Put(x, [w[x] EXCEPT !.pc = "pend", !.pend = @ \ {p}, !.todo = <<>>, !.real = None])
  /\ UNCHANGED <<exch, now, store, stamp, expect, crashes, tasks>>
----------------------------------------------------------------------------
Tick ==
  /\ now <= Last
  /\ now' = now + 1
  /\ UNCHANGED <<exch, store, jobs, w, stamp, expect, crashes, tasks>>

Init ==
  /\ exch \in {Times \ g : g \in SUBSET Gaps}
  /\ now = Wide /\ expect = Wide /\ stamp = 0
  /\ lo = {} /\ hi = [p \in {t \in Times : t % Wide = 0} |-> {}]
  /\ info = [tf \in TFs |-> None] /\ holes = [tf \in TFs |-> {}]
  /\ jobs = [x \in Writers |-> NoJob] /\ w = [x \in Writers |-> Idle]
  /\ crashes = 0 /\ tasks = 0

DownOHLCV2DB(x) ==
  \/ ReadRange(x) \/ CheckInsJob(x) \/ AddInsJob(x)
  \/ FetchBatch(x) \/ FetchEnd(x) \/ Fetched(x) \/ Cancelled(x)
  \/ InsertKLines(x) \/ BatchSaved(x) \/ SaverDone(x) \/ DownDone(x) \/ FixRange(x)
UpdateKRange(x) ==
  CalcRange(x) \/ SetKInfo(x) \/ UpdateKHoles(x) \/ RefreshAgg(x) \/ RangeUpdated(x)
Spider(x) == TrySaveKlines(x) \/ GapDownloaded(x) \/ PushDone(x) \/ AutoInserted(x)
Bot(x) ==
  \/ \E tf \in TFs, start, stop \in Times \cup {Last + 1} : Download(x, tf, start, stop)
  \/ DownloadDone(x)
  \/ \E tf \in TFs : (\E h \in holes[tf] : FillHole(x, tf, h)) \/ SyncKInfo(x, tf) \/ SyncKHoles(x, tf)
  \/ FillDone(x) \/ SyncKlineInfos(x) \/ SyncAgg(x) \/ SyncNext(x)
Start(x) == CrashAndStart(x) \/ UpdatePendingIns(x) \/ PendingUpdated(x)

Next ==
  \/ Tick
  \/ \E x \in Writers : DownOHLCV2DB(x) \/ UpdateKRange(x) \/ Start(x)
  \/ \E x \in Spiders : Spider(x)
  \/ \E x \in Bots : Bot(x)

Spec == Init /\ [][Next]_vars

\* A program goes on with what it has begun, and the miner hands over what it fetched;
\* nobody has to start a task, and a program need not stop.
Works(x) ==
  \/ DownOHLCV2DB(x) \/ UpdateKRange(x) \/ UpdatePendingIns(x) \/ PendingUpdated(x)
  \/ x \in Spiders /\ Spider(x)
  \/ x \in Bots /\ (DownloadDone(x) \/ FillDone(x) \/ SyncAgg(x) \/ SyncNext(x)
                    \/ \E tf \in TFs : SyncKInfo(x, tf) \/ SyncKHoles(x, tf))
FairSpec == Spec /\ \A x \in Writers : WF_vars(Works(x))
----------------------------------------------------------------------------
(* Properties *)

AtRest == \A x \in Writers : At(x, "idle")

\* Every bar time inside the stored range has its bar, a recorded hole or too small a gap:
\* what is not downloaded again is there or known to be missing (UpdateKRange, updateKHoles).
RangeIsCovered ==
  AtRest => \A g \in Runs(Within(info.lo) \ lo) :
              Counts("lo", g) => Within(g) \subseteq UnitsOf(holes.lo)

\* No bar lies outside the stored range, where a download would insert it twice and
\* no reader would look (updateKLineRange).
BarsInRange == AtRest => \A tf \in TFs : Bars(tf) \subseteq Within(info[tf])

\* A recorded hole has no bars in it (updateKHoles, tryFillHoles).
HolesAreMissing == AtRest => lo \cap UnitsOf(holes.lo) = {}

\* A large bar inside its stored range exists when there is anything to build it of
\* (refreshAgg: "Avoid voids").
LargeHasNoVoid ==
  AtRest => \A p \in DOMAIN hi : p \in Within(info.hi) /\ lo \cap Sub(p) # {} => hi[p] # {}

\* A large bar is built of all the small bars stored for it (refreshAgg: "or data errors").
LargeIsWhole ==
  AtRest => \A p \in DOMAIN hi : hi[p] # {} => lo \cap Sub(p) \subseteq hi[p]

\* What the spider takes for stored is stored: its stamp is the end of the newest bar in
\* the table, and of the bars before it none is missing (periodSta.alignAndLast,
\* trySaveKlines).
StampIsStored ==
  AtRest /\ stamp # 0 => exch \cap (info.lo[1] .. stamp - 1) \subseteq lo

\* A synchronisation of a symbol that has a range, which ends well, leaves range, holes
\* and table in agreement, whatever downloads and crashes did before (SyncKlineTFs).
SyncRepaired ==
  \A x \in Writers :
    w[x].task = "sync" /\ w[x].pc = "done" /\ w'[x].pc = "idle"
      => RangeIsCovered' /\ BarsInRange'

\* No insert job stays for ever: as long as there is one, nobody can insert
\* (AddInsJob, DelInsKline).
JobsEnd == \A x \in Writers : jobs[x] # NoJob ~> jobs[x] = NoJob
=============================================================================
