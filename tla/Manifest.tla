------------------------------ MODULE Manifest ------------------------------
(***************************************************************************)
(* The per-collection manifest `current.json` and the two pure             *)
(* computations over it that decide what may be published and what may be  *)
(* deleted.                                                                *)
(*                                                                         *)
(* A manifest is a record.  `snapshot` is the CONTENT of the snapshot      *)
(* object the manifest names: its key embeds the SHA-256 of its body, and  *)
(* every load verifies that hash, so naming a snapshot and knowing its     *)
(* rows are the same thing.  The ETag of a manifest is a function of its   *)
(* bytes, so `If-Match` is modelled as equality with the manifest that was *)
(* read.  The counters that only drive heuristics (snapshot_bytes,         *)
(* snapshot_rows, mean_entry_bytes, last_warned_seq) and the dormant       *)
(* writer_fence are left out.                                              *)
(***************************************************************************)
EXTENDS LogFold

CONSTANTS
  MaxSeq,      \* bound: the last log slot the model may fill
  Window,      \* LOG_RETENTION_SEQ_WINDOW
  MaxDeletes   \* LOG_RETENTION_MAX_DELETES_PER_TICK

ASSUME MaxSeqAssumption     == MaxSeq \in Nat
ASSUME WindowAssumption     == Window \in Nat
ASSUME MaxDeletesAssumption == MaxDeletes \in Nat

Slot == 0..MaxSeq

(* A position in the log: a slot, or the first position past the bound.    *)
Seq0 == 0..(MaxSeq + 1)

Manifests ==
  [snapshot : SUBSET Session, log_seq_start : Seq0, tail_hint : Seq0,
   log_delete_floor : Seq0]

(* The zero-state manifest that ensureTable and the writer's               *)
(* auto-provision create.                                                  *)
ZeroManifest ==
  [snapshot |-> {}, log_seq_start |-> 0, tail_hint |-> 0,
   log_delete_floor |-> 0]

Larger(a, b)  == IF a >= b THEN a ELSE b
Smaller(a, b) == IF a <= b THEN a ELSE b

(* Where every tail probe starts.                                          *)
ProbeFloor(m) == Larger(m.log_seq_start, m.tail_hint)

(* The delete floor a consumer may trust: clamped to the live floor.       *)
certifiedDeleteFloor(m) == Smaller(m.log_delete_floor, m.log_seq_start)

(* assertCurrentJson: the one cross-field bound of the shape check, run on  *)
(* every read and on every casUpdateCurrentJson result.                    *)
assertCurrentJson(m) == m.log_seq_start <= m.tail_hint

(* assertCurrentJsonTransition: what a writer may publish over `before`.   *)
assertCurrentJsonTransition(before, after) ==
  /\ after.log_seq_start >= before.log_seq_start
  /\ after.log_delete_floor >= before.log_delete_floor
  /\ after.log_delete_floor <= after.log_seq_start

(* computeRetirableRange: the half-open range [start, end) one retirement  *)
(* pass may delete.                                                        *)
RetirableStart(m) == certifiedDeleteFloor(m)

RetirableEnd(m) ==
  Larger(RetirableStart(m),
         Smaller(m.log_seq_start - Window, RetirableStart(m) + MaxDeletes))

=============================================================================
