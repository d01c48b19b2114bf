---------------------------- MODULE MCMaintenance ----------------------------
(***************************************************************************)
(* The garbage collector, the tick that starts it, and the local           *)
(* file-system adapter, checked side by side: `which` picks one at the     *)
(* start, and only that one takes steps.  They do not interact here; one   *)
(* run explores the three state spaces.                                    *)
(***************************************************************************)
EXTENDS SnapshotGc, MaintenanceTick, LocalFs

VARIABLE which

maintenanceVars == <<which, gcVars, tickVars, fsVars>>

MaintenanceInit ==
  /\ which \in {"gc", "tick", "files"}
  /\ Init /\ TickInit /\ FsInit
  /\ which # "gc" => ~pending.exists
  /\ which # "tick" => phases = "single"
  /\ which # "files" => ~root.exists

MaintenanceNext ==
  /\ UNCHANGED which
  /\ \/ which = "gc"    /\ Next     /\ UNCHANGED <<tickVars, fsVars>>
     \/ which = "tick"  /\ TickNext /\ UNCHANGED <<gcVars, fsVars>>
     \/ which = "files" /\ FsNext   /\ UNCHANGED <<gcVars, tickVars>>

MaintenanceSpec == MaintenanceInit /\ [][MaintenanceNext]_maintenanceVars

(* Two passes, two isolates, and two callers of the adapter are alike.     *)
PairSymmetry == Permutations(Pass)
=============================================================================
