----------------------------- MODULE OrderStore -----------------------------
(***************************************************************************)
(* The orders of one account in memory and in the trade database: the     *)
(* objects, the map accOpenODs, the table lockOds of order locks, and the  *)
(* three rows of an order (iorder, and exorder for its entry and exit).    *)
(*                                                                         *)
(* The strategy makes orders and asks for exits, the handlers of the live  *)
(* manager change an order under its lock, SaveDirtyODs sweeps the map     *)
(* every three seconds, and GetOpenODs reloads it from the database every  *)
(* two minutes.  A statement takes its values from the object, waits for   *)
(* the database, and may fail; the process may crash and start again.      *)
(***************************************************************************)
EXTENDS Integers, Sequences, FiniteSets, SequencesExt

CONSTANTS
  Orders,      \* the keys of orders (InOutOrder.Key)
  Handlers,    \* goroutines that change orders under their lock
  Unlocked,    \* what else runs: "exit" requests, the "sweep", the "reload"
  Faults,      \* TRUE: a statement may fail (the database is locked)
  MaxObjs,     \* bound: objects in memory
  MaxCrash     \* bound: crashes

ASSUME ConstantsAssumption ==
  /\ IsFiniteSet(Orders) /\ IsFiniteSet(Handlers)
  /\ Handlers \cap {"strategy", "sweep"} = {}
  /\ Unlocked \subseteq {"exit", "sweep", "reload"}
  /\ Faults \in BOOLEAN
  /\ MaxObjs \in Nat /\ MaxCrash \in Nat

VARIABLES
  objs,     \* the InOutOrder objects of this run of the process
  rows,     \* the database; the index is the id of the order
  openOds,  \* accOpenODs of the account: id -> object, 0 for none
  lockOds,  \* key -> mutex, 0 for none
  procs,    \* where each goroutine stands
  todo,     \* dirtyOds of the sweep
  snap,     \* rows a reload has read
  sent,     \* entries and exits handed to the live manager (history variable)
  up, crashes

vars == <<objs, rows, openOds, lockOds, procs, todo, snap, sent, up, crashes>>

Procs == Handlers \cup {"strategy", "sweep"}
Mutexes == 1 .. Cardinality(Orders) + Cardinality(Handlers)
Objs == DOMAIN objs
\* Bound: rows of orders in the database, two for every object of every start.
MaxRows == 2 * MaxObjs * (MaxCrash + 1)
Ids == 0 .. MaxRows
Parts == {"main", "enter", "exit"}
Requests == {"enter", "exit"}

\* Status: 1 before the entry (InOutStatusInit), 2 entered, 3 InOutStatusFullExit.
InOutOrder ==
  [key : Orders, id : Ids, status : 1 .. 3, filled : 0 .. 1, exit : BOOLEAN,
   enterID : BOOLEAN, exitID : BOOLEAN,
   dirtyMain : BOOLEAN, dirtyEnter : BOOLEAN, dirtyExit : BOOLEAN]

\* Status 0: deleted.  Filled -1: there is no row for the entry.
Row == [key : Orders, status : 0 .. 3, filled : -1 .. 1, exit : BOOLEAN]

Proc ==
  [pc : {"idle", "wait", "work", "save", "exec", "remap", "after"} \cup Parts,
   od : 0 .. MaxObjs, mutex : Mutexes \cup {0}, old : Ids, add : BOOLEAN,
   part : Parts, id : Ids, status : 0 .. 3, filled : 0 .. 1, err : BOOLEAN]

Idle == [pc |-> "idle", od |-> 0, mutex |-> 0, old |-> 0, add |-> FALSE,
         part |-> "main", id |-> 0, status |-> 0, filled |-> 0, err |-> FALSE]

TypeOK ==
  /\ objs \in Seq(InOutOrder) /\ Len(objs) <= MaxObjs
  /\ rows \in Seq(Row) /\ Len(rows) <= MaxRows
  /\ openOds \in [Ids -> 0 .. MaxObjs]
  /\ lockOds \in [Orders -> Mutexes \cup {0}]
  /\ procs \in [Procs -> Proc]
  /\ todo \subseteq Objs
  /\ snap \subseteq (DOMAIN rows) \X Row
  /\ sent \subseteq Orders \X Requests
  /\ up \in BOOLEAN /\ crashes \in 0 .. MaxCrash

At(p, pc) == procs[p].pc = pc
Od(p) == objs[procs[p].od]
Goto(p, pc) == procs' = [procs EXCEPT ![p].pc = pc]
StartSave(p, o) == procs' = [procs EXCEPT ![p] = [@ EXCEPT !.pc = "save", !.od = o]]
IsDirty(od) == od.dirtyMain \/ od.dirtyEnter \/ od.dirtyExit
Open(od) == od.status < 3
----------------------------------------------------------------------------
(* Save: the maps, then the three statements of saveToDb *)

\* The part of Save under the lock of the map.
SaveMap(p) ==
  LET od == Od(p) IN
  /\ At(p, "save")
  /\ openOds' = [openOds EXCEPT ![od.id] = IF Open(od) THEN procs[p].od ELSE 0]
  /\ lockOds' = IF Open(od) THEN lockOds ELSE [lockOds EXCEPT ![od.key] = 0]
  /\ procs' = [procs EXCEPT ![p] = [@ EXCEPT !.pc = "main", !.old = od.id, !.add = od.id = 0]]
  /\ UNCHANGED <<objs, rows, todo, snap, sent, up, crashes>>

FollowingNoEnter == [main |-> "exit", enter |-> "exit", exit |-> "remap"]
Following == [main |-> "enter", enter |-> "exit", exit |-> "remap"]

\* A part that needs no statement is passed over.
Needed(p, part) ==
  LET od == Od(p) IN
  CASE part = "main" -> procs[p].add \/ od.dirtyMain
    [] part = "enter" -> procs[p].add \/ od.dirtyEnter
    [] part = "exit" -> od.exit /\ (procs[p].add \/ od.dirtyExit)

\* The statement's parameters are read from the object.
Capture(p) ==
  /\ procs[p].pc \in Parts
  /\ LET part == procs[p].pc IN
     IF Needed(p, part)
     THEN procs' = [procs EXCEPT ![p] =
                      [@ EXCEPT !.pc = "exec", !.part = part, !.id = Od(p).id,
                                !.status = Od(p).status, !.filled = Od(p).filled]]
     ELSE Goto(p, Following[part])
  /\ UNCHANGED <<objs, rows, openOds, lockOds, todo, snap, sent, up, crashes>>

\* saveAdd or saveUpdate of the IOrder.
ExecMain(p) ==
  LET i == procs[p] IN
  /\ i.part = "main"
  /\ IF i.add
     THEN /\ Len(rows) < MaxRows
          /\ rows' = Append(rows, [key |-> Od(p).key, status |-> i.status,
                                   filled |-> -1, exit |-> FALSE])
          /\ objs' = [objs EXCEPT ![i.od] = [@ EXCEPT !.id = Len(rows'), !.dirtyMain = FALSE]]
     ELSE /\ rows' = [rows EXCEPT ![i.id].status = i.status]
          /\ objs' = [objs EXCEPT ![i.od].dirtyMain = FALSE]

\* saveAdd or saveUpdate of the entry; an update of a row that was never added
\* changes nothing and is no error.
ExecEnter(p) ==
  LET i == procs[p] IN
  /\ i.part = "enter"
  /\ rows' = IF i.add \/ Od(p).enterID THEN [rows EXCEPT ![i.id].filled = i.filled] ELSE rows
  /\ objs' = [objs EXCEPT ![i.od] =
                [@ EXCEPT !.enterID = Od(p).enterID \/ i.add, !.dirtyEnter = FALSE]]

\* The exit is added when it has no row yet.
ExecExit(p) ==
  LET i == procs[p] IN
  /\ i.part = "exit"
  /\ rows' = [rows EXCEPT ![i.id].exit = TRUE]
  /\ objs' = [objs EXCEPT ![i.od] = [@ EXCEPT !.exitID = TRUE, !.dirtyExit = FALSE]]

Exec(p) ==
  /\ At(p, "exec")
  /\ ExecMain(p) \/ ExecEnter(p) \/ ExecExit(p)
  /\ procs' = [procs EXCEPT ![p] =
                 [@ EXCEPT !.pc = Following[procs[p].part], !.part = "main",
                           !.id = 0, !.status = 0, !.filled = 0]]
  /\ UNCHANGED <<openOds, lockOds, todo, snap, sent, up, crashes>>

ExecFails(p) ==
  /\ Faults /\ At(p, "exec")
  /\ procs' = [procs EXCEPT ![p] = [@ EXCEPT !.pc = "remap", !.part = "main", !.id = 0,
                                               !.status = 0, !.filled = 0, !.err = TRUE]]
  /\ UNCHANGED <<objs, rows, openOds, lockOds, todo, snap, sent, up, crashes>>

MovedAway(old, id, o) == [openOds EXCEPT ![old] = 0]
Moved(old, id, o) == [openOds EXCEPT ![old] = 0, ![id] = o]

\* The rest of Save: the map gets the id the database gave.
Remap(p) ==
  LET i == procs[p] IN
  /\ At(p, "remap")
  /\ openOds' = IF Od(p).id # i.old /\ Open(Od(p))
                THEN Moved(i.old, Od(p).id, i.od) ELSE openOds
  /\ Goto(p, "after")
  /\ UNCHANGED <<objs, rows, lockOds, todo, snap, sent, up, crashes>>

Save(p) == SaveMap(p) \/ Capture(p) \/ Exec(p) \/ ExecFails(p) \/ Remap(p)
----------------------------------------------------------------------------
(* The strategy: new orders and exits *)

Fresh == Orders \ ({objs[o].key : o \in Objs} \cup {rows[i].key : i \in DOMAIN rows})

EnterOrder(k) ==
  /\ At("strategy", "idle") /\ k \in Fresh /\ Len(objs) < MaxObjs
  /\ objs' = Append(objs, [key |-> k, id |-> 0, status |-> 1, filled |-> 0, exit |-> FALSE,
                           enterID |-> FALSE, exitID |-> FALSE,
                           dirtyMain |-> TRUE, dirtyEnter |-> TRUE, dirtyExit |-> FALSE])
  /\ StartSave("strategy", Len(objs'))
  /\ UNCHANGED <<rows, openOds, lockOds, todo, snap, sent, up, crashes>>

\* exitOrder of an order in the map: SetExit and Save, without the order's lock.
ExitOrder(o) ==
  /\ "exit" \in Unlocked /\ At("strategy", "idle")
  /\ \E i \in Ids : openOds[i] = o
  /\ Open(objs[o]) /\ ~ objs[o].exit
  /\ objs' = [objs EXCEPT ![o] =
                [@ EXCEPT !.exit = TRUE, !.dirtyMain = TRUE, !.dirtyExit = TRUE]]
  /\ StartSave("strategy", o)
  /\ UNCHANGED <<rows, openOds, lockOds, todo, snap, sent, up, crashes>>

\* afterEnter and afterExit hand the order to the live manager if the save went well.
Request(od) == <<od.key, IF od.exit THEN "exit" ELSE "enter">>
PostAnyway(p) == TRUE
Posted(p) == ~ procs[p].err
PostOrder ==
  /\ At("strategy", "after")
  /\ sent' = IF Posted("strategy") THEN sent \cup {Request(Od("strategy"))} ELSE sent
  /\ procs' = [procs EXCEPT !["strategy"] = Idle]
  /\ UNCHANGED <<objs, rows, openOds, lockOds, todo, snap, up, crashes>>
----------------------------------------------------------------------------
(* A handler: Lock, a change, Save, Unlock *)

Holds(p) == p \in Handlers /\ procs[p].pc \notin {"idle", "wait"}
HeldAny(m) == FALSE
Held(m) == \E p \in Handlers : Holds(p) /\ procs[p].mutex = m
NewMutex ==
  CHOOSE m \in Mutexes : /\ \A k \in Orders : lockOds[k] # m
                         /\ \A p \in Handlers : procs[p].mutex # m

\* Lock: the mutex of the key is looked up or made, and then waited for.
LookUp(p, o) ==
  LET k == objs[o].key
      m == IF lockOds[k] # 0 THEN lockOds[k] ELSE NewMutex
  IN /\ At(p, "idle") /\ \E r \in Requests : <<k, r>> \in sent
     /\ lockOds' = [lockOds EXCEPT ![k] = m]
     /\ procs' = [procs EXCEPT ![p] = [@ EXCEPT !.pc = "wait", !.od = o, !.mutex = m]]
     /\ UNCHANGED <<objs, rows, openOds, todo, snap, sent, up, crashes>>

Acquire(p) ==
  /\ At(p, "wait") /\ ~ Held(procs[p].mutex)
  /\ Goto(p, "work")
  /\ UNCHANGED <<objs, rows, openOds, lockOds, todo, snap, sent, up, crashes>>

Filled(od) == [od EXCEPT !.status = 2, !.filled = 1, !.dirtyMain = TRUE, !.dirtyEnter = TRUE]
Closed(od) == [od EXCEPT !.status = 3, !.exit = TRUE, !.dirtyMain = TRUE, !.dirtyExit = TRUE]

ChangesAny(od) == {od, Filled(od), Closed(od)}
\* What the handlers of LiveOrder do to an order.
Changes(od) ==
  {od} \cup (IF od.status = 1 /\ <<od.key, "enter">> \in sent THEN {Filled(od)} ELSE {})
       \cup (IF Open(od) THEN {Closed(od)} ELSE {})

\* The change, and the test of IsDirty before the save.
Work(p) ==
  /\ At(p, "work")
  /\ \E new \in Changes(Od(p)) :
       /\ objs' = [objs EXCEPT ![procs[p].od] = new]
       /\ Goto(p, IF IsDirty(new) THEN "save" ELSE "after")
  /\ UNCHANGED <<rows, openOds, lockOds, todo, snap, sent, up, crashes>>

Unlock(p) ==
  /\ p \in Handlers /\ At(p, "after")
  /\ procs' = [procs EXCEPT ![p] = Idle]
  /\ UNCHANGED <<objs, rows, openOds, lockOds, todo, snap, sent, up, crashes>>

Handle(p) == (\E o \in Objs : LookUp(p, o)) \/ Acquire(p) \/ Work(p) \/ Unlock(p)
----------------------------------------------------------------------------
(* SaveDirtyODs: the dirty orders are listed, then saved one by one *)

Mapped == {openOds[i] : i \in Ids} \ {0}

Collect ==
  /\ "sweep" \in Unlocked /\ At("sweep", "idle") /\ todo = {}
  /\ todo' = {o \in Mapped : IsDirty(objs[o])} /\ todo' # {}
  /\ openOds' = [i \in Ids |-> IF openOds[i] # 0 /\ ~ Open(objs[openOds[i]])
                               THEN 0 ELSE openOds[i]]
  /\ UNCHANGED <<objs, rows, lockOds, procs, snap, sent, up, crashes>>

SweepNext(o) ==
  /\ At("sweep", "idle") /\ o \in todo
  /\ todo' = todo \ {o}
  /\ StartSave("sweep", o)
  /\ UNCHANGED <<objs, rows, openOds, lockOds, snap, sent, up, crashes>>

SweepDone ==
  /\ At("sweep", "after")
  /\ procs' = [procs EXCEPT !["sweep"] = Idle]
  /\ UNCHANGED <<objs, rows, openOds, lockOds, todo, snap, sent, up, crashes>>
----------------------------------------------------------------------------
(* GetOpenODs: the open orders are read, and those missing in the map added *)

OpenRows == {i \in DOMAIN rows : rows[i].status \in {1, 2}}

LoadedRaw(i, r) ==
  [key |-> r.key, id |-> i, status |-> r.status, filled |-> r.filled,
   exit |-> r.exit, enterID |-> r.filled # -1, exitID |-> r.exit,
   dirtyMain |-> FALSE, dirtyEnter |-> FALSE, dirtyExit |-> FALSE]
\* GetOrders: the order of a row; its Enter may be missing.
Loaded(i, r) ==
  [key |-> r.key, id |-> i, status |-> r.status, filled |-> IF r.filled = 1 THEN 1 ELSE 0,
   exit |-> r.exit, enterID |-> r.filled # -1, exitID |-> r.exit,
   dirtyMain |-> FALSE, dirtyEnter |-> FALSE, dirtyExit |-> FALSE]

\* The objects of the rows in S are added to memory and to the map.
Load(S, mem, map) ==
  LET new == SetToSeq(S)
      Pos(i) == CHOOSE n \in DOMAIN new : new[n][1] = i
  IN /\ objs' = mem \o [n \in DOMAIN new |-> Loaded(new[n][1], new[n][2])]
     /\ openOds' = [i \in Ids |-> IF i \in {s[1] : s \in S} THEN Len(mem) + Pos(i) ELSE map[i]]

ReadOpenODs ==
  /\ "reload" \in Unlocked /\ snap = {}
  /\ snap' = {<<i, rows[i]>> : i \in OpenRows} /\ snap' # {}
  /\ UNCHANGED <<objs, rows, openOds, lockOds, procs, todo, sent, up, crashes>>

MergeOpenODs ==
  LET missing == {s \in snap : openOds[s[1]] = 0} IN
  /\ snap # {} /\ Len(objs) + Cardinality(missing) <= MaxObjs
  /\ Load(missing, objs, openOds)
  /\ snap' = {}
  /\ UNCHANGED <<rows, lockOds, procs, todo, sent, up, crashes>>
----------------------------------------------------------------------------
(* A crash, and SyncExgOrders at the next start *)

Crash ==
  /\ crashes < MaxCrash
  /\ crashes' = crashes + 1 /\ up' = FALSE
  /\ objs' = <<>> /\ openOds' = [i \in Ids |-> 0] /\ lockOds' = [k \in Orders |-> 0]
  /\ procs' = [p \in Procs |-> Idle] /\ todo' = {} /\ snap' = {}
  /\ UNCHANGED <<rows, sent>>

\* An order without its entry is deleted, the others are managed from now on.
Restart ==
  LET kept == {i \in OpenRows : rows[i].filled # -1} IN
  /\ ~ up /\ up' = TRUE /\ Cardinality(kept) <= MaxObjs
  /\ rows' = [i \in DOMAIN rows |->
                IF i \in OpenRows \ kept THEN [rows[i] EXCEPT !.status = 0] ELSE rows[i]]
  /\ Load({<<i, rows[i]>> : i \in kept}, objs, openOds)
  /\ sent' = sent \cup ({rows[i].key : i \in kept} \X Requests)
  /\ UNCHANGED <<lockOds, procs, todo, snap, crashes>>
----------------------------------------------------------------------------
Init ==
  /\ objs = <<>> /\ rows = <<>>
  /\ openOds = [i \in Ids |-> 0] /\ lockOds = [k \in Orders |-> 0]
  /\ procs = [p \in Procs |-> Idle]
  /\ todo = {} /\ snap = {} /\ sent = {} /\ up = TRUE /\ crashes = 0

Running ==
  \/ \E p \in Procs : Save(p)
  \/ \E k \in Orders : EnterOrder(k)
  \/ \E o \in Objs : ExitOrder(o) \/ SweepNext(o)
  \/ PostOrder
  \/ \E p \in Handlers : Handle(p)
  \/ Collect \/ SweepDone
  \/ ReadOpenODs \/ MergeOpenODs
  \/ Crash

Next == (up /\ Running) \/ Restart

Spec == Init /\ [][Next]_vars
----------------------------------------------------------------------------
(* Properties *)

\* An order the live manager was given, and may have sent to the exchange, has its
\* order row and its entry row: no crash makes the next start forget or delete it.
SubmittedIsStored ==
  \A k \in Orders : <<k, "enter">> \in sent => \E i \in DOMAIN rows :
    rows[i].key = k /\ rows[i].status # 0 /\ rows[i].filled # -1

\* An order the database holds as fully exited is not written back to an open state.
ClosedRows == {i \in DOMAIN rows : rows[i].status = 3 /\ rows[i].key \in Orders}
ClosedRowStays == [][ClosedRows \subseteq ClosedRows']_vars

\* What the flags call clean is what the database holds: no change is left unsaved.
CleanMeansStored ==
  \A o \in Objs : objs[o].id # 0 =>
    LET od == objs[o]  r == rows[od.id] IN
    /\ ~ od.dirtyMain => r.status = od.status
    /\ ~ od.dirtyEnter => r.filled = od.filled
    /\ ~ od.dirtyExit => r.exit = od.exit

\* An order the live manager works on is found in accOpenODs, where its trades are
\* looked up, until it is fully exited: neither the move from id 0 to the id of the
\* database, nor a sweep, nor a failed statement drops it.
SentIsMapped ==
  \A k \in Orders, o \in Objs :
    /\ objs[o].key = k /\ <<k, "enter">> \in sent /\ Open(objs[o])
    /\ \A p \in Procs : procs[p].od = o => procs[p].pc \in {"idle", "wait", "work", "after"}
    => \E i \in Ids : openOds[i] # 0 /\ objs[openOds[i]].key = k

\* Two goroutines hold the lock of the same order.
Shared(p, q) == p # q /\ Holds(p) /\ Holds(q) /\ Od(p).key = Od(q).key

\* Though Save drops the lock of an order from the table while it is held, two
\* handlers hold an order at once only when it is fully exited, and none reopens it.
SharedOnlyClosed ==
  \A p, q \in {x \in DOMAIN procs : Holds(x)} : Shared(p, q) => ~ Open(Od(p))

\* Lock: "A successful return indicates that the lock has been obtained".
LockExclusive == \A p, q \in Handlers : ~ Shared(p, q)

\* The entry of an order whose flags are clean has a row.
EntryIsStored ==
  \A o \in Objs : objs[o].id # 0 /\ ~ objs[o].dirtyEnter => rows[objs[o].id].filled # -1

\* accOpenODs holds "all open orders": none that was fully exited and stored as such.
MappedIsOpen ==
  \A i \in Ids \ {0} : openOds[i] # 0 /\ i <= Len(rows) =>
    (rows[i].status = 3 => ~ Open(objs[openOds[i]]))
=============================================================================
