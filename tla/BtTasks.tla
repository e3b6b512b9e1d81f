------------------------------- MODULE BtTasks ------------------------------
(* The back-test tasks of the web UI (web/dev/common.go, api_dev.go): a row   *)
(* per task in the database, a directory per configuration, a scheduler that  *)
(* starts a program for the newest waiting task, and one goroutine for each.  *)
EXTENDS Naturals, FiniteSets
CONSTANTS
  Ids, Hashes,  \* 1 .. n, the rows there may be; configurations
  MaxBtTasks,   \* programs at a time
  FindLimit,    \* rows collectBtResults reads
  FailAt, MaxFail, \* which writes may fail, of "status" and "result", and how often
  MaxCrash, MaxDel
VARIABLES
  row, seq, \* status and path, by id; the last id given (AUTOINCREMENT)
  out, task, \* the directory in a task's arguments; the path the scheduler has read
  dirs,   \* what a directory holds, by path
  run,    \* runBtTasks
  stage, pend, \* where executeBtTask is; a progress line that is being handled
  found,  \* the task the scheduler has read, 0 if none
  twice,  \* a task was started while it ran
  fresh,  \* nothing has happened since the rows were collected
  fails, crashes, dels
vars == <<row, seq, out, task, dirs, run, stage, pend, found, twice, fresh, fails, crashes, dels>>

NoPath == <<>>
Backup(h, id) == <<h, id>>
Paths == Hashes \cup (Hashes \X Ids)
NoRow == [st |-> "none", path |-> NoPath]
Rows == {id \in Ids : row[id].st # "none"}
NextId == seq + 1
Newest(S) == CHOOSE m \in S : \A x \in S : x <= m
Inits == {id \in Ids : row[id].st = "init"}

Init ==
  /\ row = [id \in Ids |-> NoRow] /\ seq = 0 /\ dirs = [p \in Paths |-> "none"]
  /\ out = [id \in Ids |-> NoPath] /\ task = [id \in Ids |-> NoPath]
  /\ run = {} /\ stage = [id \in Ids |-> "off"] /\ pend = [id \in Ids |-> FALSE]
  /\ found = 0 /\ twice = FALSE /\ fresh = TRUE /\ fails = 0 /\ crashes = 0 /\ dels = 0

(* A new back test: its directory gets the configuration, and the row of an   *)
(* older one with the same configuration loses its path, or gets a copy.      *)
HandleRunBacktest(h, dup) ==
  LET olds == {id \in Ids : row[id].path = h /\ row[id].st # "none"}
      moved == IF dirs[h] = "none" THEN {} ELSE IF olds = {} THEN {} ELSE {Newest(olds)}
      to(id) == IF dup = "backup" THEN Backup(h, id) ELSE NoPath IN
  /\ NextId \in Ids
  /\ row' = [id \in Ids |-> IF id = NextId THEN [st |-> "init", path |-> h]
                            ELSE IF id \in moved THEN [row[id] EXCEPT !.path = to(id)] ELSE row[id]]
  /\ dirs' = [p \in Paths |-> IF p \in {to(id) : id \in moved} THEN dirs[h]
                              ELSE IF p = h /\ dirs[h] = "none" THEN "config" ELSE dirs[p]]
  /\ out' = [out EXCEPT ![NextId] = h] /\ seq' = NextId /\ fresh' = FALSE
  /\ UNCHANGED <<task, run, stage, pend, found, twice, fails, crashes, dels>>
HandleDelBtReports(id) ==
  /\ row[id].st # "none" /\ dels < MaxDel /\ dels' = dels + 1
  /\ dirs' = [p \in Paths |-> IF p = row[id].path THEN "none" ELSE dirs[p]]
  /\ row' = [row EXCEPT ![id] = NoRow] /\ fresh' = FALSE
  /\ UNCHANGED <<seq, out, task, run, stage, pend, found, twice, fails, crashes>>

\* The scheduler reads the newest waiting task, then looks whether it runs already.
FindTask ==
  /\ found = 0 /\ Cardinality(run) < MaxBtTasks /\ Inits # {}
  /\ found' = Newest(Inits) /\ task' = [task EXCEPT ![Newest(Inits)] = row[Newest(Inits)].path]
  /\ fresh' = FALSE
  /\ UNCHANGED <<row, seq, out, dirs, run, stage, pend, twice, fails, crashes, dels>>
NotRunning(id) == id \notin run
Anyway(id) == TRUE
MayStart(id) == NotRunning(id)
StartTask ==
  /\ found # 0 /\ found' = 0
  /\ IF MayStart(found)
     THEN /\ run' = run \cup {found} /\ twice' = (twice \/ stage[found] # "off")
          /\ stage' = [stage EXCEPT ![found] = "new"]
     ELSE UNCHANGED <<run, stage, twice>>
  /\ fresh' = FALSE
  /\ UNCHANGED <<row, seq, out, task, dirs, pend, fails, crashes, dels>>

UpdateTask(id, st) == row' = IF row[id].st = "none" THEN row ELSE [row EXCEPT ![id].st = st]
KeepsPlace(id) == stage' = [stage EXCEPT ![id] = "off"] /\ run' = run
Leaves(id) == stage' = [stage EXCEPT ![id] = "off"] /\ run' = run \ {id}
Fails(what) == what \in FailAt /\ fails < MaxFail /\ fails' = fails + 1
\* executeBtTask: the status is written, then the program started.
SetRunning(id) ==
  /\ stage[id] = "new"
  /\ \/ UpdateTask(id, "running") /\ stage' = [stage EXCEPT ![id] = "run"] /\ UNCHANGED <<run, fails>>
     \/ Fails("status") /\ Leaves(id) /\ UNCHANGED row
  /\ fresh' = FALSE /\ UNCHANGED <<seq, out, task, dirs, pend, found, twice, crashes, dels>>
\* A line of progress is read from the program's output, and then written.
ReadLine(id) ==
  /\ stage[id] = "run" /\ ~pend[id] /\ pend' = [pend EXCEPT ![id] = TRUE] /\ fresh' = FALSE
  /\ UNCHANGED <<row, seq, out, task, dirs, run, stage, found, twice, fails, crashes, dels>>
HandleProgress(id) ==
  /\ pend[id] /\ pend' = [pend EXCEPT ![id] = FALSE]
  /\ UpdateTask(id, "running") /\ fresh' = FALSE
  /\ UNCHANGED <<seq, out, task, dirs, run, stage, found, twice, fails, crashes, dels>>
\* The program ends with its reports written, or fails; it outlasts a step of the scheduler.
ProgramEnds(id) ==
  /\ stage[id] = "run" /\ found # id
  /\ stage' = [stage EXCEPT ![id] = "end"]
  /\ dirs' \in {dirs, [dirs EXCEPT ![out[id]] = "done"]}
  /\ fresh' = FALSE /\ UNCHANGED <<row, seq, out, task, run, pend, found, twice, fails, crashes, dels>>
AllOutput(id) == ~pend[id]
NotAll(id) == TRUE
WaitsOutput(id) == AllOutput(id)
\* Once the output is handled the reports decide the status, whatever the program's exit code.
UpdateBtTaskResult(id) ==
  /\ stage[id] = "end" /\ WaitsOutput(id)
  /\ \/ /\ UpdateTask(id, IF task[id] # NoPath /\ dirs[task[id]] = "done" THEN "done" ELSE "fail")
        /\ UNCHANGED fails
     \/ Fails("result") /\ UNCHANGED row
  /\ Leaves(id)
  /\ fresh' = FALSE /\ UNCHANGED <<seq, dirs, out, task, pend, found, twice, crashes, dels>>

(* The web program starts again: rows without a directory are deleted, and    *)
(* directories with reports that no row read has get one.                     *)
Read == {id \in Rows : Cardinality({x \in Rows : x > id}) < FindLimit}
NoRowReadHas(p) == \A id \in Read : row[id].path # p
Any(p) == TRUE
HasNoRow(p) == NoRowReadHas(p)
Missing == {p \in Paths : dirs[p] = "done" /\ HasNoRow(p)}
\* Of the rows of one path, as those whose path was taken away, one is deleted.
Oldest(id) == \A x \in Read : row[x].path = row[id].path => id <= x
Dropped == {id \in Read : Oldest(id) /\ (row[id].path = NoPath \/ dirs[row[id].path] = "none")}
CollectBtResults ==
  \E add \in [Missing -> NextId .. seq + Cardinality(Missing)] :
    /\ seq' = seq + Cardinality(Missing) /\ seq' \in 0 .. Newest(Ids)
    /\ \A p, q \in Missing : p # q => add[p] # add[q]
    /\ row' = [id \in Ids |-> IF \E p \in Missing : add[p] = id
                              THEN [st |-> "done", path |-> CHOOSE p \in Missing : add[p] = id]
                              ELSE IF id \in Dropped THEN NoRow ELSE row[id]]
Restart ==
  /\ crashes < MaxCrash /\ crashes' = crashes + 1
  /\ run' = {} /\ stage' = [id \in Ids |-> "off"] /\ pend' = [id \in Ids |-> FALSE] /\ found' = 0
  /\ CollectBtResults /\ fresh' = TRUE
  /\ UNCHANGED <<dirs, out, task, twice, fails, dels>>

Scheduler == FindTask \/ StartTask
Task(id) == SetRunning(id) \/ HandleProgress(id) \/ ProgramEnds(id) \/ UpdateBtTaskResult(id)
Next ==
  \/ \E h \in Hashes, dup \in {"backup", "overwrite"} : HandleRunBacktest(h, dup)
  \/ Scheduler \/ Restart
  \/ \E id \in Ids : Task(id) \/ ReadLine(id) \/ HandleDelBtReports(id)
\* Programs end, and the web program goes on, whatever the programs write.
GoesOn == \E id \in Ids : SetRunning(id) \/ ProgramEnds(id) \/ UpdateBtTaskResult(id)
HandlesOutput == \E id \in Ids : HandleProgress(id)
Spec == Init /\ [][Next]_vars /\ WF_vars(Scheduler) /\ WF_vars(GoesOn) /\ WF_vars(HandlesOutput)
-----------------------------------------------------------------------------
TypeOK ==
  /\ run = {id \in Ids : stage[id] # "off"} /\ Cardinality(run) <= MaxBtTasks
  /\ \A id \in Ids : row[id].path \in Paths \cup {NoPath} /\ (stage[id] # "off" => out[id] \in Hashes)

(* A task is never started while it runs, though the scheduler reads the      *)
(* database before it looks at the map of running tasks.                      *)
OneRun == ~twice

(* A row that is done or failed keeps its status: no late line of progress    *)
(* sets it back to running (runBtCommand, updateBtTaskResult).                *)
EndedStays == [][\A id \in Ids : row[id].st \in {"done", "fail"} => row'[id].st \in {row[id].st, "none"}]_vars

(* After the collection at the start a row that has a path has its directory, *)
(* and a directory with reports exactly one row, as long as all rows are read.*)
RowsMatchDirs ==
  fresh /\ Cardinality(Rows) <= FindLimit =>
    /\ \A id \in Rows : row[id].path # NoPath => dirs[row[id].path] # "none"
    /\ \A p \in Paths : dirs[p] = "done" => Cardinality({id \in Rows : row[id].path = p}) = 1

(* A task that waits or runs gets a result, if the web program does not stop  *)
(* and the result can be written.                                             *)
TaskEnds == \A id \in Ids : row[id].st \in {"init", "running"} ~> (row[id].st \notin {"init", "running"} \/ crashes > 0)
=============================================================================
