---------------------------- MODULE AtomicStore -----------------------------
(***************************************************************************)
(* What a collection promises its callers, with no log, manifest, snapshot *)
(* or maintenance in sight: a document map on which every commit takes     *)
(* effect atomically, and an outcome per commit call.                      *)
(*                                                                         *)
(* The write contract is at-least-once: a call whose outcome is unknown    *)
(* may take effect later, and a call still open may take effect again.     *)
(* An acknowledged call has taken effect, and takes none afterwards.       *)
(***************************************************************************)
EXTENDS LogFold

VARIABLES
  rows,      \* the live entries, one per document
  applied,   \* the commits that have taken effect
  outcome    \* what each commit call has told its caller

storeVars == <<rows, applied, outcome>>

StoreInit ==
  /\ rows = {}
  /\ applied = {}
  /\ outcome = [c \in Session |-> "open"]

(* Commit c takes effect.                                                  *)
Apply(c) ==
  /\ outcome[c] \in {"open", "unknown"}
  /\ rows' = FoldOne(rows, c)
  /\ applied' = applied \cup {c}
  /\ UNCHANGED outcome

(* The call returns.  Only an applied commit is acknowledged.              *)
Return(c) ==
  /\ outcome[c] = "open"
  /\ \/ c \in applied /\ outcome' = [outcome EXCEPT ![c] = "acked"]
     \/ outcome' = [outcome EXCEPT ![c] = "unknown"]
     \/ outcome' = [outcome EXCEPT ![c] = "failed"]
  /\ UNCHANGED <<rows, applied>>

StoreNext == \E c \in Session : Apply(c) \/ Return(c)

StoreSpec == StoreInit /\ [][StoreNext]_storeVars

=============================================================================
