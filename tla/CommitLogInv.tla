---------------------------- MODULE CommitLogInv ----------------------------
(***************************************************************************)
(* The inductive invariant behind the safety properties of CommitLog.      *)
(*                                                                         *)
(* The one idea: a slot is deleted only after the delete floor has passed  *)
(* it, and the floor never moves back.  So a create that wins at a slot    *)
(* has either extended the log at its tail, or sits below the floor for    *)
(* good; and whatever an actor with a stale manifest reads at or above the *)
(* floor is what the history holds there.                                  *)
(***************************************************************************)
EXTENDS CommitLog

(* The history is filled up to the tail and no further.                    *)
HistOk ==
  \A s \in Slot : (s < tail => hist[s] \in Session)
                  /\ (s >= tail => hist[s] = NoEntry)

(* Only slots below the certified floor are ever deleted.                  *)
DeletesOk == \A s \in deletes : s < current.log_delete_floor

(* A delayed PUT targets a slot below the tail, or the tail itself; in the *)
(* second case its call is still waiting to resolve that very slot, or has *)
(* given up on it.                                                         *)
SendOk(c, s) ==
  \/ s < tail
  \/ /\ s = tail
     /\ s = commit[c].hi
     /\ commit[c].pc \in {"resolve", "ambiguous"}

InflightOk ==
  \A c \in Session, s \in Slot : <<c, s>> \in inflight => SendOk(c, s)

(* No call targets a slot past the tail; a galloping call has seen `lo`    *)
(* occupied; an entry that won its slot is committed there or below the    *)
(* floor.                                                                  *)
CommitOk(c) ==
  LET w == commit[c] IN
  /\ w.pc \in {"head", "create", "resolve"} => w.hi <= tail
  /\ w.pc = "resolve" => w.hi \in Slot
  /\ w.pc \in {"gallop", "bisect"} => w.lo < tail /\ w.lo < w.hi
  /\ w.pc = "bisect" => w.hi - w.lo > 1
  /\ w.pc \in {"floor", "acked", "acked_unchecked"} =>
       w.hi < tail /\ (hist[w.hi] = c \/ w.hi < current.log_delete_floor)
  /\ w.pc = "acked" => hist[w.hi] = c

CommitsOk == \A c \in Session : CommitOk(c)

(* At or above the floor, a call has an entry only at the slot it is       *)
(* resolving or has settled on.                                            *)
SoleSlot ==
  \A c \in Session, s \in Slot :
    hist[s] = c =>
      \/ s < current.log_delete_floor
      \/ /\ s = commit[c].hi
         /\ commit[c].pc \in {"resolve", "floor", "acked", "acked_unchecked",
                              "ambiguous"}

(* What a compactor or a reader holds of an old manifest.                  *)
BaseOk(m) ==
  /\ m.log_delete_floor <= m.log_seq_start
  /\ m.log_seq_start <= m.tail_hint
  /\ m.tail_hint <= tail

(* Rows folded up to pos are right unless the floor overtook the base.     *)
RowsOk(m, pos, rows) ==
  current.log_delete_floor <= m.log_seq_start => rows = Live(hist, pos)

FoldOk(f) ==
  LET x == fold[f] IN
  /\ x.pc # "idle" => BaseOk(x.base) /\ x.base.log_seq_start <= x.tail
                      /\ x.tail <= tail
  /\ x.pc = "probe" => x.base.snapshot = Live(hist, x.base.log_seq_start)
  /\ x.pc = "walk" =>
       /\ x.base.log_seq_start <= x.pos /\ x.pos <= x.end /\ x.end <= x.tail
       /\ RowsOk(x.base, x.pos, x.rows)

FoldsOk == \A f \in Compactor : FoldOk(f)

ReadOk(r) ==
  LET x == read[r] IN
  /\ x.pc \in {"scan", "done"} =>
       /\ BaseOk(x.base)
       /\ x.base.log_seq_start <= x.pos /\ x.pos <= tail
       /\ x.need <= tail
       /\ RowsOk(x.base, x.pos, x.rows)
  /\ x.pc = "done" /\ current.log_delete_floor <= x.base.log_seq_start
       => x.need <= x.pos

ReadsOk == \A r \in Reader : ReadOk(r)

(* The inductive invariant: together these are preserved by every step,    *)
(* which none of the properties of CommitLog is by itself.                 *)
IInv ==
  /\ TypeOK
  /\ HistOk
  /\ ManifestOrder
  /\ DenseLog
  /\ DeletesOk
  /\ InflightOk
  /\ CommitsOk
  /\ SoleSlot
  /\ SnapshotIsFold
  /\ FoldsOk
  /\ ReadsOk

=============================================================================
