------------------------------ MODULE MCServer ------------------------------
(***************************************************************************)
(* The verbs of a collection and one conditional PUT through an adapter,   *)
(* checked side by side: `which` picks one at the start, and only that one *)
(* takes steps.  They do not interact here; one run explores both state    *)
(* spaces.                                                                 *)
(***************************************************************************)
EXTENDS MCVerbs, StorageCall

VARIABLE which

serverVars == <<which, verbVars, storageVars>>

ServerInit ==
  /\ which \in {"verbs", "storage"}
  /\ VerbInit /\ StorageInit
  /\ which # "storage" => version = 0 /\ put = NewCall("s3", "create", 0)

ServerNext ==
  /\ UNCHANGED which
  /\ \/ which = "verbs"   /\ VerbNext    /\ UNCHANGED storageVars
     \/ which = "storage" /\ StorageNext /\ UNCHANGED verbVars

ServerSpec == ServerInit /\ [][ServerNext]_serverVars
=============================================================================
