---------------------------- MODULE MCStoreParts ----------------------------
(* Three settings of the order store in one run: setting says which one the  *)
(* behaviour is in.  The constants of the run are those of "crash": two      *)
(* orders, two handlers, failing statements and a crash.  What the run checks *)
(* of OrderStore itself is quantified over those orders and says nothing of   *)
(* the other settings, whose order is k3.                                     *)
EXTENDS OrderStore, TLC
CONSTANTS k3, h3
VARIABLE setting

\* The open orders are reloaded and exits asked for without the order's lock.
Reloading == INSTANCE OrderStore WITH
  Orders <- {k3}, Handlers <- {h3}, Unlocked <- {"exit", "reload"}, Faults <- FALSE
\* The sweep of the dirty orders runs beside the strategy and a handler.
Sweeping == INSTANCE OrderStore WITH
  Orders <- {k3}, Handlers <- {h3}, Unlocked <- {"exit", "sweep"}, Faults <- FALSE,
  MaxObjs <- 1, MaxCrash <- 0

AllInit ==
  \/ setting = "crash" /\ Init
  \/ setting = "reload" /\ Reloading!Init
  \/ setting = "sweep" /\ Sweeping!Init
AllNext ==
  /\ setting' = setting
  /\ \/ setting = "crash" /\ Next
     \/ setting = "reload" /\ Reloading!Next
     \/ setting = "sweep" /\ Sweeping!Next
AllSpec == AllInit /\ [][AllNext]_<<vars, setting>>
AllPerms == Permutations(Orders) \cup Permutations(Handlers)

(* Every variable has its type in every setting.  Reloads do not undo what    *)
(* SubmittedIsStored says of an order given to the live manager, and sweeps   *)
(* not what SentIsMapped says of one at work (OrderMgr.enterOrder,            *)
(* InOutOrder.Save, GetOpenODs, SaveDirtyODs).                                *)
StoreAgrees ==
  /\ setting = "crash" => TypeOK
  /\ setting = "reload" => Reloading!TypeOK /\ Reloading!SubmittedIsStored
  /\ setting = "sweep" => Sweeping!TypeOK /\ Sweeping!SentIsMapped
=============================================================================
