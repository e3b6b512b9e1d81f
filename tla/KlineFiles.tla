------------------------------ MODULE KlineFiles ------------------------------
(* Bars are carried from one installation to another in files (orm/tools.go): *)
(* ExportKData has workers write ranges of bars as blocks without gaps, and   *)
(* ImportData has workers read the files into a database that may have bars   *)
(* of its own, and then sets what ranges and holes the database has.  Bars    *)
(* are known by their times, which serve as their values too; one time frame. *)
EXTENDS Naturals, Sequences, SequencesExt, FiniteSets, FiniteSetsExt, Functions
CONSTANTS
  Workers,
  Symbols,
  Source,        \* [Symbols -> the times of the bars of the one database]
  SourceId,      \* [Symbols -> their ids there]
  Jobs,          \* genExportTask: a sequence of [symbol, start, stop]
  Old, OldId,    \* the bars, without gaps, and ids of the symbols the other database knows
  BatchSize, MaxKlineSize, MaxOutFSize, InsertSize,
  Min1mHole,     \* of banexg: gaps up to it are not recorded
  MaxFail
VARIABLES
  step,          \* "export", "import", "ranges" with "between", "info", "holes" for each; "done", "failed", "garbled"
  todo, sender,  \* jobCh, taskCh: what is still to send, and whether its sender goes on
  cancelled, fails,
  w,             \* the workers
  files,         \* the blocks of the files kline1.dat, kline2.dat, ...
  stored, krange, holes,  \* by id
  insRanges,
  current        \* the id whose range is being set, 0 for none
vars == <<step, todo, sender, cancelled, fails, w, files, stored, krange, holes, insRanges, current>>
poolVars == <<todo, sender, cancelled, fails>>
dbVars == <<stored, krange, holes, insRanges, current>>

NoBlock == [id |-> 0, start |-> 0, open |-> <<>>]
NoJob == [symbol |-> "", start |-> 0, stop |-> 0]
Idle == [pc |-> "idle", job |-> NoJob, at |-> 0, klines |-> <<>>, block |-> NoBlock, file |-> 0, name |-> 0, left |-> <<>>]
At(x, pc) == w[x].pc = pc
Put(x, r) == w' = [w EXCEPT ![x] = r]
EndOf(b) == b.start + Len(b.open)

-----------------------------------------------------------------------------
(* importSymbols, EnsureSymbols: symbols that are not known get new ids.      *)
NewSymbols == SetToSeq({s \in Symbols : s \notin DOMAIN OldId})
IdOf == [s \in Symbols |-> IF s \in DOMAIN OldId THEN OldId[s]
                           ELSE Max(Range(OldId) \cup {0}) + (CHOOSE i \in DOMAIN NewSymbols : NewSymbols[i] = s)]
SameId(id) == id
IdMap(id) == IdOf[CHOOSE s \in Symbols : SourceId[s] = id]
Ids == Range(IdOf) \cup Range(SourceId)
Span(T) == IF T = {} THEN <<0, 0>> ELSE <<Min(T), Max(T) + 1>>
OldOf(id) == UNION {Old[s] : s \in {s \in DOMAIN Old : OldId[s] = id}}

Init ==
  /\ step = "export" /\ todo = Jobs /\ sender = "on" /\ cancelled = FALSE /\ fails = 0
  /\ w = [x \in Workers |-> Idle] /\ files = <<>>
  /\ stored = [id \in Ids |-> [t \in OldOf(id) |-> t]]
  /\ krange = [id \in Ids |-> Span(OldOf(id))]
  /\ holes = [id \in Ids |-> {}]
  /\ insRanges = [id \in Ids |-> <<0, 0>>] /\ current = 0
-----------------------------------------------------------------------------
(* The pool: a sender hands out the items; when it has been cancelled it may   *)
(* leave without closing the channel, and waiting workers wait on.             *)
KeptOpen == sender = "gone"
Closed == sender = "on" /\ todo = <<>>
SenderLeaves ==
  /\ cancelled /\ sender = "on" /\ todo # <<>> /\ sender' = "gone"
  /\ UNCHANGED <<step, todo, cancelled, fails, w, files, dbVars>>
Takes(x, r) == At(x, "idle") /\ sender = "on" /\ todo # <<>> /\ todo' = Tail(todo) /\ Put(x, r)
WorkerEnds(x) ==
  /\ At(x, "idle") /\ Closed /\ Put(x, [Idle EXCEPT !.pc = "end"])
  /\ UNCHANGED <<step, poolVars, files, dbVars>>
\* The worker reports an error and cancels the others.
Fails(x, pc) ==
  /\ fails < MaxFail /\ fails' = fails + 1 /\ cancelled' = TRUE /\ Put(x, [Idle EXCEPT !.pc = pc])
  /\ UNCHANGED <<step, todo, sender, files, dbVars>>
Cancels(x, pc) == cancelled /\ Put(x, [Idle EXCEPT !.pc = pc]) /\ UNCHANGED <<step, poolVars, files, dbVars>>
AllEnded == \A x \in Workers : At(x, "end")
-----------------------------------------------------------------------------
(* A worker without connection leaves before it has registered its wg.Done.   *)
NoConn(x) == step = "export" /\ w[x] = Idle /\ Fails(x, "lost")

TakeJob(x) ==
  /\ step = "export" /\ todo # <<>>
  /\ Takes(x, [w[x] EXCEPT !.pc = IF Head(todo).stop <= Head(todo).start THEN "idle" ELSE IF w[x].file = 0 THEN "name" ELSE "fetch",
                           !.job = Head(todo), !.at = Head(todo).start, !.block = [NoBlock EXCEPT !.id = SourceId[Head(todo).symbol]]])
  /\ UNCHANGED <<step, sender, cancelled, fails, files, dbVars>>

\* CreateNumFile counts the files and creates the next; os.Create takes a file that is there.
NameFile(x) ==
  /\ At(x, "name") /\ Put(x, [w[x] EXCEPT !.pc = "create", !.name = Len(files) + 1])
  /\ UNCHANGED <<step, poolVars, files, dbVars>>
CreateNumFile(x) ==
  /\ At(x, "create")
  /\ IF w[x].name > Len(files)
     THEN files' = Append(files, <<>>) /\ step' = step ELSE step' = "garbled" /\ UNCHANGED files
  /\ Put(x, [w[x] EXCEPT !.pc = IF w[x].klines # <<>> THEN "append" ELSE "fetch", !.file = w[x].name])
  /\ UNCHANGED <<poolVars, dbVars>>

GetOHLCV(j, from) ==
  LET bars == SetToSortSeq({t \in Source[j.symbol] : from <= t /\ t < j.stop}, <)
  IN SubSeq(bars, 1, Min({Len(bars), BatchSize}))
Fetch(x) ==
  /\ At(x, "fetch")
  /\ \/ /\ ~cancelled
        /\ LET klines == IF w[x].at < w[x].job.stop THEN GetOHLCV(w[x].job, w[x].at) ELSE <<>> IN
             Put(x, IF klines = <<>> THEN [w[x] EXCEPT !.pc = "last"]
                    ELSE [w[x] EXCEPT !.pc = "append", !.klines = klines, !.at = Last(klines) + 1])
        /\ UNCHANGED <<step, poolVars, files, dbVars>>
     \/ Fails(x, "end") \/ Cancels(x, "end")

(* Append takes bars up to the first gap; a block with more to come is dumped. *)
AllBars(b, klines) == Len(klines)
Fitting(b, klines) ==
  LET start == IF b.start = 0 THEN klines[1] ELSE b.start
  IN Max({n \in 0 .. Len(klines) : \A i \in 1 .. n : klines[i] = start + Len(b.open) + i - 1})
Joined(b, klines) ==
  [b EXCEPT !.start = IF @ = 0 THEN klines[1] ELSE @, !.open = @ \o SubSeq(klines, 1, Fitting(b, klines))]
Dumped(file, b) == [files EXCEPT ![file] = Append(@, b)]
SizeOf(file) == LET len(b) == Len(b.open) IN FoldLeft(LAMBDA n, b : n + len(b), 0, file)
AppendBars(x) ==
  LET b == Joined(w[x].block, w[x].klines)
      rest == SubSeq(w[x].klines, Fitting(w[x].block, w[x].klines) + 1, Len(w[x].klines))
      after == [w[x] EXCEPT !.klines = rest, !.pc = IF rest # <<>> THEN "append" ELSE "fetch"]
      full == SizeOf(Dumped(w[x].file, b)[w[x].file]) > MaxOutFSize
  IN /\ At(x, "append")
     /\ IF rest # <<>> \/ Len(b.open) > MaxKlineSize
        THEN /\ files' = Dumped(w[x].file, b)
             /\ Put(x, [after EXCEPT !.block = [NoBlock EXCEPT !.id = b.id], !.pc = IF full THEN "name" ELSE @])
        ELSE Put(x, [after EXCEPT !.block = b]) /\ UNCHANGED files
     /\ UNCHANGED <<step, poolVars, dbVars>>
DumpLast(x) ==
  /\ At(x, "last")
  /\ files' = IF w[x].block.open = <<>> THEN files ELSE Dumped(w[x].file, w[x].block)
  /\ Put(x, [Idle EXCEPT !.file = w[x].file])
  /\ UNCHANGED <<step, poolVars, dbVars>>

\* wg.Wait returns; the files are imported when nothing failed.
ExportDone ==
  /\ step = "export" /\ AllEnded
  /\ IF cancelled THEN step' = "done" /\ UNCHANGED <<todo, w>>
     ELSE step' = "import" /\ todo' = [i \in DOMAIN files |-> i] /\ w' = [x \in Workers |-> Idle]
  /\ UNCHANGED <<sender, cancelled, fails, files, dbVars>>
ExportStep(x) ==
  /\ step = "export"
  /\ TakeJob(x) \/ NameFile(x) \/ CreateNumFile(x) \/ Fetch(x) \/ AppendBars(x) \/ DumpLast(x) \/ NoConn(x) \/ WorkerEnds(x)
-----------------------------------------------------------------------------
TakeFile(x) ==
  /\ todo # <<>> /\ Takes(x, [Idle EXCEPT !.pc = "read", !.left = files[Head(todo)]])
  /\ UNCHANGED <<step, sender, cancelled, fails, files, dbVars>>
\* updateRange: from the first to the last bar of the blocks read.
Widened(r, b) == IF r = <<0, 0>> THEN <<b.start, EndOf(b)>> ELSE <<Min({r[1], b.start}), Max({r[2], EndOf(b)})>>
ReadBlock(x) ==
  LET b == Head(w[x].left)
      id == IdMap(b.id)
  IN /\ At(x, "read")
     /\ \/ w[x].left = <<>> /\ Put(x, Idle) /\ UNCHANGED <<step, poolVars, files, dbVars>>
        \/ /\ w[x].left # <<>>
           /\ insRanges' = [insRanges EXCEPT ![id] = Widened(@, b)]
           /\ Put(x, [w[x] EXCEPT !.pc = "count", !.left = Tail(@), !.block = [b EXCEPT !.id = id], !.at = 1])
           /\ UNCHANGED <<step, poolVars, files, stored, krange, holes, current>>
        \/ Fails(x, "idle")

(* importKlines, tryInsertKlines: batches whose bars are all there are left,   *)
(* others replace what is there.  Each statement is a transaction of its own.  *)
Batch(x) == LET b == w[x].block IN
  [k \in b.start + w[x].at - 1 .. Min({EndOf(b), b.start + w[x].at - 1 + InsertSize}) - 1 |-> b.open[k - b.start + 1]]
Has(x) == DOMAIN Batch(x) \cap DOMAIN stored[w[x].block.id]
NextBatch(x) ==
  LET at == w[x].at + Cardinality(DOMAIN Batch(x)) IN
  IF at <= Len(w[x].block.open) THEN [w[x] EXCEPT !.pc = "count", !.at = at]
  ELSE [w[x] EXCEPT !.pc = IF cancelled THEN "idle" ELSE "read"]
AllThere(x) == Cardinality(Has(x)) >= Cardinality(DOMAIN Batch(x))
CountBars(x) ==
  /\ At(x, "count")
  /\ Put(x, IF cancelled /\ Cardinality(DOMAIN Batch(x)) = InsertSize THEN Idle
            ELSE IF AllThere(x) THEN NextBatch(x)
            ELSE [w[x] EXCEPT !.pc = IF Has(x) # {} THEN "delete" ELSE "insert"])
  /\ UNCHANGED <<step, poolVars, files, dbVars>>
DelKLines(x) ==
  /\ At(x, "delete") \/ At(x, "dup")
  /\ stored' = [stored EXCEPT ![w[x].block.id] = Restrict(@, DOMAIN @ \ DOMAIN Batch(x))]
  /\ Put(x, [w[x] EXCEPT !.pc = IF @ = "dup" THEN "again" ELSE "insert"])
  /\ UNCHANGED <<step, poolVars, files, krange, holes, insRanges, current>>
InsertKLines(x) ==
  LET id == w[x].block.id IN
  /\ At(x, "insert") \/ At(x, "again")
  /\ \/ /\ Has(x) = {}
        /\ stored' = [stored EXCEPT ![id] = [t \in DOMAIN @ \cup DOMAIN Batch(x) |-> IF t \in DOMAIN Batch(x) THEN Batch(x)[t] ELSE @[t]]]
        /\ Put(x, NextBatch(x))
        /\ UNCHANGED <<step, poolVars, files, krange, holes, insRanges, current>>
     \/ /\ Has(x) # {} /\ At(x, "insert") /\ Put(x, [w[x] EXCEPT !.pc = "dup"])
        /\ UNCHANGED <<step, poolVars, files, dbVars>>
     \/ /\ Has(x) # {} /\ At(x, "again") /\ cancelled' = TRUE /\ fails' = fails + 1 /\ Put(x, Idle)
        /\ UNCHANGED <<step, todo, sender, files, dbVars>>
     \/ Fails(x, "idle")
ImportDone ==
  /\ step = "import" /\ AllEnded /\ step' = "ranges"
  /\ UNCHANGED <<poolVars, w, files, dbVars>>
ImportStep(x) ==
  /\ step = "import"
  /\ TakeFile(x) \/ ReadBlock(x) \/ CountBars(x) \/ DelKLines(x) \/ InsertKLines(x) \/ WorkerEnds(x)

(* The ranges are set at the end, after errors too, in any order.  updateKHoles *)
(* records what is missing between a range and one apart from it, before the    *)
(* range is set, and in the new range after it; an error ends it all.           *)
Large(T) == UNION {p[1] .. p[2] : p \in {q \in T \X T : q[2] - q[1] >= Min1mHole /\ q[1] .. q[2] \subseteq T}}
Missing(id, r) == Large((r[1] .. r[2] - 1) \ DOMAIN stored[id])
Apart(old, new) == old # <<0, 0>> /\ (new[2] < old[1] \/ new[1] > old[2])
Both(old, new) == IF old = <<0, 0>> THEN new ELSE <<Min({old[1], new[1]}), Max({old[2], new[2]})>>
NoneBetween(id, old, new) == {}
Between(id, old, new) == Missing(id, Both(old, new))
SetRange(id) ==
  /\ step = "ranges" /\ insRanges[id] # <<0, 0>>
  /\ current' = id /\ step' = IF Apart(krange[id], insRanges[id]) THEN "between" ELSE "info"
  /\ UNCHANGED <<poolVars, w, files, stored, krange, holes, insRanges>>
HolesBetween ==
  /\ step = "between" /\ step' = "info"
  /\ holes' = [holes EXCEPT ![current] = @ \cup Between(current, krange[current], insRanges[current])]
  /\ UNCHANGED <<poolVars, w, files, stored, krange, insRanges, current>>
SetKInfo ==
  /\ step = "info" /\ step' = "holes"
  /\ krange' = [krange EXCEPT ![current] = Both(@, insRanges[current])]
  /\ UNCHANGED <<poolVars, w, files, stored, holes, insRanges, current>>
HolesOfRange ==
  /\ step = "holes" /\ step' = "ranges"
  /\ holes' = [holes EXCEPT ![current] = @ \cup Missing(current, insRanges[current])]
  /\ insRanges' = [insRanges EXCEPT ![current] = <<0, 0>>] /\ current' = 0
  /\ UNCHANGED <<poolVars, w, files, stored, krange>>
RangeFails ==
  /\ step \in {"between", "info", "holes"} /\ step' = "failed"
  /\ fails < MaxFail /\ fails' = fails + 1
  /\ UNCHANGED <<todo, sender, cancelled, w, files, dbVars>>
RangesDone ==
  /\ step = "ranges" /\ \A id \in Ids : insRanges[id] = <<0, 0>> /\ step' = "done"
  /\ UNCHANGED <<poolVars, w, files, dbVars>>

SetRanges == (\E id \in Ids : SetRange(id)) \/ HolesBetween \/ SetKInfo \/ HolesOfRange \/ RangeFails \/ RangesDone
ImportData == ImportDone \/ SetRanges
Works == ExportDone \/ ImportData \/ \E x \in Workers : ExportStep(x) \/ ImportStep(x)
Next == Works \/ SenderLeaves
Spec == Init /\ [][Next]_vars /\ WF_vars(Works)
-----------------------------------------------------------------------------
TypeOK ==
  /\ step \in {"export", "import", "ranges", "between", "info", "holes", "done", "failed", "garbled"} /\ sender \in {"on", "gone"}
  /\ \A x \in Workers : w[x].file <= Len(files)
  /\ \A id \in Ids : DOMAIN stored[id] \subseteq Nat /\ krange[id][1] <= krange[id][2]

Wanted == {<<Jobs[i].symbol, t>> : i \in DOMAIN Jobs, t \in UNION Range(Source)}
Asked == {e \in Wanted : e[2] \in Source[e[1]] /\ \E i \in DOMAIN Jobs :
            Jobs[i].symbol = e[1] /\ Jobs[i].start <= e[2] /\ e[2] < Jobs[i].stop}
InFile(f) == UNION {{<<f[i].id, f[i].start + k - 1, f[i].open[k]>> : k \in DOMAIN f[i].open} : i \in DOMAIN f}

(* The files of a sound export hold the bars of the ranges asked for, each at  *)
(* its time, over batches, gaps and files begun by several workers.            *)
FilesHoldSource ==
  step = "import" => UNION {InFile(files[i]) : i \in DOMAIN files} = {<<SourceId[e[1]], e[2], e[2]>> : e \in Asked}

(* A sound import brings every bar, and loses none that was there, though two  *)
(* workers write the same bars.                                                *)
Sound == step = "done" /\ ~cancelled
ImportComplete ==
  Sound => /\ \A e \in Asked : e[2] \in DOMAIN stored[IdOf[e[1]]]
           /\ \A s \in DOMAIN Old : Old[s] \subseteq DOMAIN stored[IdOf[s]]

(* Whatever fails, the database holds bars at their own times only, and every  *)
(* time in a range the import is finished with is stored, known to be missing  *)
(* or in too small a gap; a range that it failed at, or before, may have others. *)
RangeIsCovered ==
  /\ \A id \in Ids : \A t \in DOMAIN stored[id] : stored[id][t] = t
  /\ step \in {"done", "failed"} =>
       \A id \in Ids : insRanges[id] = <<0, 0>> => Missing(id, krange[id]) \subseteq holes[id]

(* Export and import end when nothing fails and no two workers got one file.   *)
Ends == <>(step \in {"done", "failed", "garbled"} \/ cancelled)
=============================================================================
