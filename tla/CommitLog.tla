----------------------------- MODULE CommitLog ------------------------------
(***************************************************************************)
(* The single-write commit protocol of one collection: writers that append *)
(* to the numbered log with put-if-absent, compactors that fold a log      *)
(* prefix into a snapshot and publish it by compare-and-swap on            *)
(* current.json, the retirement pass that deletes folded log objects, and  *)
(* readers that rebuild the collection from snapshot and log suffix.       *)
(*                                                                         *)
(* Every storage call is one step, so any two calls of any two actors      *)
(* interleave.  A crash is an actor that takes no further step.  A PUT     *)
(* whose answer was lost may reach the bucket later, or never, even after  *)
(* its writer has returned.                                                *)
(*                                                                         *)
(* casUpdateCurrentJson reads, mutates and PUTs under If-Match: a          *)
(* successful call is atomic at its PUT and a failed one changes nothing,  *)
(* so each of its uses is one step.  The compactor's CAS is against the    *)
(* manifest it read many steps earlier, and keeps that manifest.           *)
(***************************************************************************)
EXTENDS Manifest, FiniteSets

CONSTANTS
  Compactor,      \* concurrent compact() calls
  Reader,         \* read calls
  NoEntry,        \* an absent log object (404)
  ProbeCap,       \* LOG_FORWARD_PROBE_CAP
  ProbeBudget,    \* maxTailProbeGets of a compactor's tail probe
  MinToCompact,   \* minEntriesToCompact
  MaxFold,        \* maxEntriesPerRun
  MaxRows,        \* ceilingEntries: the row ceiling E
  MaxInflight     \* bound: delayed create PUTs outstanding at once

ASSUME NoEntryAssumption      == NoEntry \notin Session
ASSUME ProbeCapAssumption     == ProbeCap \in Nat
ASSUME ProbeBudgetAssumption  == ProbeBudget \in Nat \ {0}
ASSUME MinToCompactAssumption == MinToCompact \in Nat
ASSUME MaxFoldAssumption      == MaxFold \in Nat
ASSUME MaxRowsAssumption      == MaxRows \in Nat
ASSUME MaxInflightAssumption  == MaxInflight \in Nat

VARIABLES
  provisioned,  \* does current.json exist?
  current,      \* the manifest in current.json
  log,          \* log[s]: the entry at log/<s>.json, or NoEntry
  inflight,     \* create PUTs <<c, s>> the bucket may still receive
  deletes,      \* slots whose DELETE has been issued and not executed
  commit,       \* commit[c]: the state of the Writer.commit call c
  fold,         \* fold[f]: the state of the compact() call f
  read,         \* read[r]: the state of the read call r
  tail,         \* history: the number of slots ever filled
  hist          \* history: hist[s] is the first entry slot s ever held

vars == <<provisioned, current, log, inflight, deletes, commit, fold, read,
          tail, hist>>

CommitPc == {"idle", "head", "gallop", "bisect", "create", "resolve", "floor",
             "acked", "acked_unchecked", "ambiguous", "failed"}

IdleCommit == [pc |-> "idle", lo |-> 0, hi |-> 0, probes |-> 0]

IdleFold == [pc |-> "idle", base |-> ZeroManifest, pos |-> 0, tail |-> 0,
             end |-> 0, rows |-> {}]

IdleRead == [pc |-> "idle", base |-> ZeroManifest, pos |-> 0, rows |-> {},
             need |-> 0]

Occupied(s) == s \in Slot /\ log[s] # NoEntry

Init ==
  /\ provisioned = FALSE
  /\ current = ZeroManifest
  /\ log = [s \in Slot |-> NoEntry]
  /\ inflight = {}
  /\ deletes = {}
  /\ commit = [c \in Session |-> IdleCommit]
  /\ fold = [f \in Compactor |-> IdleFold]
  /\ read = [r \in Reader |-> IdleRead]
  /\ tail = 0
  /\ hist = [s \in Slot |-> NoEntry]

-----------------------------------------------------------------------------
(* The bucket                                                              *)

(* A create of log/<s> that finds the slot empty.  The first fill of a     *)
(* slot extends the history; filling a slot that was deleted does not.     *)
Fill(c, s) ==
  /\ log[s] = NoEntry
  /\ log' = [log EXCEPT ![s] = c]
  /\ IF s = tail
     THEN tail' = tail + 1 /\ hist' = [hist EXCEPT ![s] = c]
     ELSE UNCHANGED <<tail, hist>>

(* A delayed create PUT reaches the bucket; nobody hears the answer.       *)
Deliver(c, s) ==
  /\ <<c, s>> \in inflight
  /\ inflight' = inflight \ {<<c, s>>}
  /\ \/ Fill(c, s)
     \/ log[s] # NoEntry /\ UNCHANGED <<log, tail, hist>>
  /\ UNCHANGED <<provisioned, current, deletes, commit, fold, read>>

(* An issued DELETE executes.                                              *)
DeleteSlot(s) ==
  /\ s \in deletes
  /\ deletes' = deletes \ {s}
  /\ log' = [log EXCEPT ![s] = NoEntry]
  /\ UNCHANGED <<provisioned, current, inflight, commit, fold, read, tail, hist>>

-----------------------------------------------------------------------------
(* Writer.commit                                                           *)

bucketVars == <<provisioned, current, log, inflight, deletes, tail, hist>>

(* The call leaves its tail search; only the slot it settled on matters    *)
(* from here on.                                                           *)
Goto(c, next) ==
  commit' = [commit EXCEPT ![c].pc = next, ![c].lo = 0, ![c].probes = 0]

(* Step 1: read current.json, or create the zero manifest.  Losing that    *)
(* create to a peer ends in a second read, so both branches see the        *)
(* manifest as it is at one instant.                                       *)
StartCommit(c) ==
  /\ commit[c].pc = "idle"
  /\ provisioned' = TRUE
  /\ commit' = [commit EXCEPT ![c].pc = "head", ![c].hi = ProbeFloor(current)]
  /\ UNCHANGED <<current, log, inflight, deletes, fold, read, tail, hist>>

(* Step 3, findLogTail.  `hi` is the candidate slot; once galloping, `lo`  *)
(* is a slot that was seen occupied and hi - lo is the gallop step.  Each  *)
(* step is one GET.                                                        *)
ProbeHead(c) ==
  LET w == commit[c] IN
  /\ w.pc = "head"
  /\ IF Occupied(w.hi)
     THEN commit' = [commit EXCEPT ![c].pc = "gallop", ![c].lo = w.hi,
                                   ![c].hi = w.hi + 1]
     ELSE commit' = [commit EXCEPT ![c].pc = "create"]
  /\ UNCHANGED <<bucketVars, fold, read>>

(* The doubled step past the cap is the runaway alarm (Internal).          *)
GallopHit(c) ==
  LET w == commit[c]
      step == 2 * (w.hi - w.lo)
  IN
  /\ w.pc = "gallop"
  /\ Occupied(w.hi)
  /\ IF step > ProbeCap
     THEN Goto(c, "failed")
     ELSE commit' = [commit EXCEPT ![c].lo = w.hi, ![c].hi = w.hi + step]
  /\ UNCHANGED <<bucketVars, fold, read>>

(* Mutant: the bisection's loop bound is off by one.                       *)
Settle_Zero(lo, hi) == IF hi - lo > 0 THEN "bisect" ELSE "create"

(* The bisection is over when the bracket is one slot wide.                *)
Settle(lo, hi) == IF hi - lo > 1 THEN "bisect" ELSE "create"

GallopMiss(c) ==
  LET w == commit[c] IN
  /\ w.pc = "gallop"
  /\ ~Occupied(w.hi)
  /\ commit' = [commit EXCEPT ![c].pc = Settle(w.lo, w.hi)]
  /\ UNCHANGED <<bucketVars, fold, read>>

Bisect(c) ==
  LET w == commit[c]
      mid == w.lo + ((w.hi - w.lo) \div 2)
  IN
  /\ w.pc = "bisect"
  /\ IF Occupied(mid)
     THEN commit' = [commit EXCEPT ![c].pc = Settle(mid, w.hi), ![c].lo = mid]
     ELSE commit' = [commit EXCEPT ![c].pc = Settle(w.lo, mid), ![c].hi = mid]
  /\ UNCHANGED <<bucketVars, fold, read>>

(* A GET of the search throws: the error reaches the caller.  No create of *)
(* this call is unresolved at this point.                                  *)
ProbeFails(c) ==
  /\ commit[c].pc \in {"head", "gallop", "bisect"}
  /\ Goto(c, "failed")
  /\ UNCHANGED <<bucketVars, fold, read>>

(* Step 5: the one storage.put of this slot.  The adapter may send it      *)
(* several times, so an unanswered earlier send can outlive the call.      *)
MaybeInflight(c) ==
  \/ inflight' = inflight
  \/ /\ Cardinality(inflight) < MaxInflight
     /\ inflight' = inflight \cup {<<c, commit[c].hi>>}

CreateOk(c) ==
  /\ commit[c].pc = "create"
  /\ commit[c].hi \in Slot
  /\ Fill(c, commit[c].hi)
  /\ MaybeInflight(c)
  /\ Goto(c, "floor")
  /\ UNCHANGED <<provisioned, current, deletes, fold, read>>

(* Mutant: an unanswered send is taken for one that was not applied.       *)
CreateRejected_Sent(c) ==
  /\ commit[c].pc = "create"
  /\ commit[c].hi \in Slot
  /\ MaybeInflight(c)
  /\ Goto(c, "failed")
  /\ UNCHANGED <<provisioned, current, log, deletes, fold, read, tail, hist>>

(* Definitive rejection, or every attempt throttled: nothing was applied.  *)
CreateRejected(c) ==
  /\ commit[c].pc = "create"
  /\ Goto(c, "failed")
  /\ UNCHANGED <<bucketVars, fold, read>>

(* A 412, or a send of unknown outcome: read the occupant back.            *)
CreateUnresolved(c) ==
  /\ commit[c].pc = "create"
  /\ commit[c].hi \in Slot
  /\ MaybeInflight(c)
  /\ commit' = [commit EXCEPT ![c].pc = "resolve", ![c].lo = 0]
  /\ UNCHANGED <<provisioned, current, log, deletes, fold, read, tail, hist>>

(* The occupant is this commit's own entry: adopt it.                      *)
ResolveOwn(c) ==
  /\ commit[c].pc = "resolve"
  /\ log[commit[c].hi] = c
  /\ Goto(c, "floor")
  /\ UNCHANGED <<bucketVars, fold, read>>

(* Mutant: the occupant's session is not compared.                         *)
ResolveForeign_AnyOccupant(c) ==
  /\ commit[c].pc = "resolve"
  /\ log[commit[c].hi] # NoEntry
  /\ commit' = [commit EXCEPT ![c].pc = "head", ![c].hi = @ + 1]
  /\ UNCHANGED <<bucketVars, fold, read>>

(* A foreign occupant: search forward from the next slot.                  *)
ResolveForeign(c) ==
  LET w == commit[c] IN
  /\ w.pc = "resolve"
  /\ log[w.hi] \notin {c, NoEntry}
  /\ IF w.probes + 1 > ProbeCap
     THEN Goto(c, "failed")
     ELSE commit' = [commit EXCEPT ![c].pc = "head", ![c].hi = w.hi + 1,
                                   ![c].probes = w.probes + 1]
  /\ UNCHANGED <<bucketVars, fold, read>>

(* The occupant is absent, or the readback itself failed.                  *)
ResolveAmbiguous(c) ==
  /\ commit[c].pc = "resolve"
  /\ Goto(c, "ambiguous")
  /\ UNCHANGED <<bucketVars, fold, read>>

(* Mutant: the delete-floor check is dropped.                              *)
FloorAccept_NoCheck(c) ==
  /\ commit[c].pc = "floor"
  /\ Goto(c, "acked")
  /\ UNCHANGED <<bucketVars, fold, read>>

(* Step 5a, #assertCommitAboveDeleteFloor, on a fresh manifest read.       *)
FloorAccept(c) ==
  /\ commit[c].pc = "floor"
  /\ commit[c].hi >= certifiedDeleteFloor(current)
  /\ Goto(c, "acked")
  /\ UNCHANGED <<bucketVars, fold, read>>

(* The commit re-filled a retired slot: undo it best-effort and refuse.    *)
FloorReject(c) ==
  /\ commit[c].pc = "floor"
  /\ commit[c].hi < certifiedDeleteFloor(current)
  /\ deletes' \in {deletes, deletes \cup {commit[c].hi}}
  /\ Goto(c, "ambiguous")
  /\ UNCHANGED <<provisioned, current, log, inflight, fold, read, tail, hist>>

(* The manifest read failed: the check is skipped and the commit acked.    *)
FloorSkip(c) ==
  /\ commit[c].pc = "floor"
  /\ Goto(c, "acked_unchecked")
  /\ UNCHANGED <<bucketVars, fold, read>>

(* The manifest read was aborted: the abort reaches the caller, who does   *)
(* not learn that the entry is durable.                                    *)
FloorAborted(c) ==
  /\ commit[c].pc = "floor"
  /\ Goto(c, "ambiguous")
  /\ UNCHANGED <<bucketVars, fold, read>>

(* Mutant: the hint is stamped one slot past the observed tail.            *)
RefreshTailHint_PastTail(c) ==
  /\ commit[c].pc \in {"acked", "acked_unchecked"}
  /\ current' = [current EXCEPT !.tail_hint = Larger(@, commit[c].hi + 2)]
  /\ UNCHANGED <<provisioned, log, inflight, deletes, commit, fold, read, tail,
                 hist>>

(* Step 6b, the tick's tail_hint refresh: the one maintenance step that    *)
(* rests on the tail the writer observed.  How often it runs is a matter   *)
(* of rate limits, not of safety.                                          *)
RefreshTailHint(c) ==
  LET next == [current EXCEPT !.tail_hint = Larger(@, commit[c].hi + 1)] IN
  /\ commit[c].pc \in {"acked", "acked_unchecked"}
  /\ assertCurrentJson(next) /\ assertCurrentJsonTransition(current, next)
  /\ current' = next
  /\ UNCHANGED <<provisioned, log, inflight, deletes, commit, fold, read, tail,
                 hist>>

-----------------------------------------------------------------------------
(* compact()                                                               *)

FoldGoto(f, state) == fold' = [fold EXCEPT ![f] = state]

(* Mutant: the known tail counts the slot after the commit's own twice.    *)
KnownTails_Past ==
  {0} \cup {commit[c].hi + 2 : c \in {d \in Session : commit[d].pc = "acked"}}

(* Step 1: read the manifest.  A write-tick call knows its own commit's    *)
(* tail; a scheduled call knows none.                                      *)
KnownTails ==
  {0} \cup {commit[c].hi + 1 : c \in {d \in Session :
                commit[d].pc \in {"acked", "acked_unchecked"}}}

FoldStart(f) ==
  /\ fold[f].pc = "idle"
  /\ provisioned
  /\ \E known \in KnownTails :
       LET from == Larger(ProbeFloor(current), known) IN
       FoldGoto(f, [IdleFold EXCEPT !.pc = "probe", !.base = current,
                                    !.pos = from, !.tail = from])
  /\ UNCHANGED <<bucketVars, commit, read>>

(* Mutant: the fold starts from an empty map, not the prior snapshot.      *)
AfterProbe_EmptyBase(x, found, exact) ==
  [x EXCEPT !.pc = "walk", !.pos = x.base.log_seq_start, !.tail = found,
            !.rows = {}, !.end = Smaller(found, x.base.log_seq_start + MaxFold)]

(* What the call does once it holds a tail: below the minimum it stops, or *)
(* saves an inexact tail as a checkpoint; otherwise it loads the snapshot  *)
(* and walks [log_seq_start, end).                                         *)
AfterProbe(x, found, exact) ==
  IF found - x.base.log_seq_start >= MinToCompact
  THEN [x EXCEPT !.pc = "walk", !.pos = x.base.log_seq_start, !.tail = found,
                 !.rows = x.base.snapshot,
                 !.end = Smaller(found, x.base.log_seq_start + MaxFold)]
  ELSE IF exact THEN IdleFold
  ELSE [x EXCEPT !.pc = "checkpoint", !.pos = 0, !.tail = found]

(* One GET of the tail probe, at most ProbeBudget of them.                 *)
FoldProbe(f) ==
  LET x == fold[f] IN
  /\ x.pc = "probe"
  /\ \/ ~Occupied(x.tail) /\ FoldGoto(f, AfterProbe(x, x.tail, TRUE))
     \/ /\ Occupied(x.tail)
        /\ x.tail + 1 = x.pos + ProbeBudget
        /\ FoldGoto(f, AfterProbe(x, x.tail + 1, FALSE))
     \/ /\ Occupied(x.tail)
        /\ x.tail + 1 # x.pos + ProbeBudget
        /\ FoldGoto(f, [x EXCEPT !.tail = x.tail + 1])
  /\ UNCHANGED <<bucketVars, commit, read>>

FoldCheckpoint(f) ==
  LET x == fold[f]
      next == [x.base EXCEPT !.tail_hint = Larger(@, x.tail)]
  IN
  /\ x.pc = "checkpoint"
  /\ current = x.base
  /\ assertCurrentJsonTransition(x.base, next)
  /\ current' = next
  /\ FoldGoto(f, IdleFold)
  /\ UNCHANGED <<provisioned, log, inflight, deletes, commit, read, tail, hist>>

(* Steps 3 and 4: fetch one entry of the slice and fold it.  The slice     *)
(* ends early at the first entry that would add a row past the ceiling.    *)
FoldWalk(f) ==
  LET x == fold[f]
      e == log[x.pos]
  IN
  /\ x.pc = "walk"
  /\ x.pos < x.end
  /\ Occupied(x.pos)
  /\ IF AddsRow(x.rows, e) /\ Cardinality(x.rows) >= MaxRows
     THEN IF x.pos = x.base.log_seq_start
          THEN FoldGoto(f, IdleFold)
          ELSE FoldGoto(f, [x EXCEPT !.end = x.pos])
     ELSE FoldGoto(f, [x EXCEPT !.rows = FoldOne(x.rows, e), !.pos = x.pos + 1])
  /\ UNCHANGED <<bucketVars, commit, read>>

(* Mutant: the manifest is published without If-Match.                     *)
FoldPublish_NoIfMatch(f) ==
  LET x == fold[f] IN
  /\ x.pc = "walk"
  /\ x.pos = x.end
  /\ current' = [x.base EXCEPT !.snapshot = x.rows, !.log_seq_start = x.end,
                               !.tail_hint = Larger(@, x.tail)]
  /\ FoldGoto(f, IdleFold)
  /\ UNCHANGED <<provisioned, log, inflight, deletes, commit, read, tail, hist>>

(* Mutant: the floor moves to the discovered tail, past the folded slice.  *)
FoldPublish_DropsTail(f) ==
  LET x == fold[f] IN
  /\ x.pc = "walk"
  /\ x.pos = x.end
  /\ current = x.base
  /\ current' = [x.base EXCEPT !.snapshot = x.rows, !.log_seq_start = x.tail,
                               !.tail_hint = Larger(@, x.tail)]
  /\ FoldGoto(f, IdleFold)
  /\ UNCHANGED <<provisioned, log, inflight, deletes, commit, read, tail, hist>>

(* Steps 5 to 7: a snapshot within the row ceiling is written under its    *)
(* content hash, then published by CAS against the manifest of step 1.     *)
FoldPublish(f) ==
  LET x == fold[f]
      next == [x.base EXCEPT !.snapshot = x.rows, !.log_seq_start = x.end,
                             !.tail_hint = Larger(@, x.tail)]
  IN
  /\ x.pc = "walk"
  /\ x.pos = x.end
  /\ Cardinality(x.rows) <= MaxRows
  /\ current = x.base
  /\ assertCurrentJsonTransition(x.base, next)
  /\ current' = next
  /\ FoldGoto(f, IdleFold)
  /\ UNCHANGED <<provisioned, log, inflight, deletes, commit, read, tail, hist>>

(* A lost CAS, a hole in the slice, an over-ceiling snapshot, a storage    *)
(* error or a crash: the call ends without publishing.                     *)
FoldAbort(f) ==
  /\ fold[f].pc # "idle"
  /\ FoldGoto(f, IdleFold)
  /\ UNCHANGED <<bucketVars, commit, read>>

-----------------------------------------------------------------------------
(* Mutant: the DELETEs are issued before the floor is certified.           *)
Retire_DeleteFirst ==
  /\ provisioned
  /\ deletes' = deletes \cup (RetirableStart(current)..(RetirableEnd(current) - 1))
  /\ UNCHANGED <<provisioned, current, log, inflight, commit, fold, read, tail,
                 hist>>

(* retireLogRange: certify the range by CAS, then issue its DELETEs.       *)
Retire ==
  LET start == RetirableStart(current)
      end   == RetirableEnd(current)
      next  == [current EXCEPT !.log_delete_floor = end]
  IN
  /\ provisioned
  /\ start < end
  /\ assertCurrentJson(next) /\ assertCurrentJsonTransition(current, next)
  /\ current' = next
  /\ deletes' = deletes \cup (start..(end - 1))
  /\ UNCHANGED <<provisioned, log, inflight, commit, fold, read, tail, hist>>

-----------------------------------------------------------------------------
(* runReadRows, full scan                                                  *)

(* Mutant: the scan starts at the hint, not at the floor.                  *)
ReadStart_FromHint(r) ==
  /\ read[r].pc = "idle"
  /\ provisioned
  /\ read' = [read EXCEPT ![r] =
                [pc |-> "scan", base |-> current, pos |-> ProbeFloor(current),
                 rows |-> current.snapshot, need |-> tail]]
  /\ UNCHANGED <<bucketVars, commit, fold>>

(* Step 1: read the manifest and load its snapshot.  `need` is history:    *)
(* the committed tail at this instant.                                     *)
ReadStart(r) ==
  /\ read[r].pc = "idle"
  /\ read' = [read EXCEPT ![r] =
                IF provisioned
                THEN [pc |-> "scan", base |-> current,
                      pos |-> current.log_seq_start, rows |-> current.snapshot,
                      need |-> tail]
                ELSE [IdleRead EXCEPT !.pc = "done"]]
  /\ UNCHANGED <<bucketVars, commit, fold>>

(* Steps 2 and 3: the strict walk of [log_seq_start, tail_hint), then the  *)
(* forward probe, each entry folded in order.                              *)
ReadEntry(r) ==
  LET x == read[r] IN
  /\ x.pc = "scan"
  /\ Occupied(x.pos)
  /\ read' = [read EXCEPT ![r].rows = FoldOne(x.rows, log[x.pos]),
                          ![r].pos = x.pos + 1]
  /\ UNCHANGED <<bucketVars, commit, fold>>

(* A hole in the strict range is an error ...                              *)
ReadHole(r) ==
  /\ read[r].pc = "scan"
  /\ ~Occupied(read[r].pos)
  /\ read[r].pos < read[r].base.tail_hint
  /\ read' = [read EXCEPT ![r].pc = "error"]
  /\ UNCHANGED <<bucketVars, commit, fold>>

(* ... and in the probed range it is the tail.                             *)
ReadEnd(r) ==
  /\ read[r].pc = "scan"
  /\ ~Occupied(read[r].pos)
  /\ read[r].pos >= ProbeFloor(read[r].base)
  /\ read' = [read EXCEPT ![r].pc = "done"]
  /\ UNCHANGED <<bucketVars, commit, fold>>

-----------------------------------------------------------------------------
(* A step of the call on an answer of the storage.                         *)
CommitAnswered(c) ==
  \/ ProbeHead(c) \/ GallopHit(c) \/ GallopMiss(c) \/ Bisect(c)
  \/ CreateOk(c) \/ CreateRejected(c) \/ CreateUnresolved(c)
  \/ ResolveOwn(c) \/ ResolveForeign(c) \/ ResolveAmbiguous(c)
  \/ FloorAccept(c) \/ FloorReject(c) \/ FloorSkip(c) \/ FloorAborted(c)

CommitStep(c) == CommitAnswered(c) \/ ProbeFails(c)

FoldStep(f) ==
  FoldStart(f) \/ FoldProbe(f) \/ FoldCheckpoint(f) \/ FoldWalk(f)
    \/ FoldPublish(f) \/ FoldAbort(f)

ReadStep(r) == ReadStart(r) \/ ReadEntry(r) \/ ReadHole(r) \/ ReadEnd(r)

Next ==
  \/ \E c \in Session : StartCommit(c) \/ CommitStep(c) \/ RefreshTailHint(c)
  \/ \E c \in Session, s \in Slot : Deliver(c, s)
  \/ \E s \in Slot : DeleteSlot(s)
  \/ \E f \in Compactor : FoldStep(f)
  \/ Retire
  \/ \E r \in Reader : ReadStep(r)

Spec == Init /\ [][Next]_vars

(* A commit call that has been started takes its next step unless its host *)
(* dies: every storage call returns or throws under the adapter's timeout. *)
(* A GET of the tail search may throw, which ends the call, but nothing    *)
(* makes it throw: the search has to end on its answers.                   *)
FairSpec == Spec /\ \A c \in Session : WF_vars(CommitAnswered(c))

-----------------------------------------------------------------------------
(* Properties                                                              *)

(* Every variable keeps its type.  Beyond the bookkeeping: no position the *)
(* protocol computes, not the tail_hint a writer stamps and not where a    *)
(* probe, fold or scan has got to, ever leaves the log's bounds.           *)
TypeOK ==
  /\ provisioned \in BOOLEAN
  /\ current \in Manifests
  /\ log \in [Slot -> Session \cup {NoEntry}]
  /\ inflight \subseteq (Session \X Slot)
  /\ deletes \subseteq Slot
  /\ commit \in [Session -> [pc : CommitPc, lo : Nat, hi : Nat, probes : Nat]]
  /\ fold \in [Compactor -> [pc : {"idle", "probe", "checkpoint", "walk"},
                             base : Manifests, pos : Seq0, tail : Seq0,
                             end : Seq0, rows : SUBSET Session]]
  /\ read \in [Reader -> [pc : {"idle", "scan", "done", "error"},
                          base : Manifests, pos : Seq0,
                          rows : SUBSET Session, need : Seq0]]
  /\ tail \in Seq0
  /\ hist \in [Slot -> Session \cup {NoEntry}]

(* The three positions of the manifest never cross, and tail_hint never    *)
(* passes the first slot that was never filled: a hint past it would make  *)
(* every later probe start beyond a hole.                                  *)
ManifestOrder ==
  /\ current.log_delete_floor <= current.log_seq_start
  /\ current.log_seq_start <= current.tail_hint
  /\ current.tail_hint <= tail

(* Every slot from the certified delete floor to the tail still holds the  *)
(* entry that first filled it, and nothing lies past the tail: writers     *)
(* working from stale probes, delayed PUTs and deletions never punch a     *)
(* hole in, or overwrite, the part of the log a reader may need.           *)
DenseLog ==
  \A s \in Slot :
    /\ current.log_delete_floor <= s /\ s < tail => log[s] = hist[s]
    /\ s >= tail => log[s] = NoEntry

(* A commit acknowledged after its delete-floor check is in the committed  *)
(* history at the slot it reports, however long the writer was paused      *)
(* between probing, creating and checking.                                 *)
AckedIsCommitted ==
  \A c \in Session : commit[c].pc = "acked" => hist[commit[c].hi] = c

(* One logical commit leaves at most one entry at or above the delete      *)
(* floor, whatever its PUTs did: lost answers and delayed sends are        *)
(* adopted, not repeated.                                                  *)
OneLiveEntryPerCommit ==
  \A s, t \in Slot :
    (s < t /\ hist[s] # NoEntry /\ hist[s] = hist[t])
      => s < current.log_delete_floor

(* A commit that failed definitively has no entry at or above the delete   *)
(* floor, now or later, so retrying it does not apply it twice.            *)
FailedIsNotLive ==
  \A c \in Session, s \in Slot :
    (commit[c].pc = "failed" /\ hist[s] = c) => s < current.log_delete_floor

(* The published snapshot is exactly the fold of the committed prefix      *)
(* [0, log_seq_start): a slow compactor never publishes entries it read    *)
(* from slots that were retired and re-filled under it.                    *)
SnapshotIsFold ==
  current.snapshot = Live(hist, current.log_seq_start)

(* A read that ends before retirement passes the log_seq_start it started  *)
(* from returns exactly the state of a committed prefix, and that prefix   *)
(* holds everything committed before the read began.                       *)
ReadIsFreshPrefix ==
  \A r \in Reader :
    LET x == read[r] IN
    (x.pc = "done" /\ current.log_delete_floor <= x.base.log_seq_start)
      => x.rows = Live(hist, x.pos) /\ x.need <= x.pos

(* No publication moves tail_hint, log_delete_floor or log_seq_start       *)
(* backwards, and a publication that changes the snapshot also raises      *)
(* log_seq_start: no other snapshot ever takes the place of a published    *)
(* one at the same position.  (That log_seq_start never passes what the    *)
(* snapshot holds is SnapshotIsFold.)                                      *)
ManifestMonotone ==
  [][ /\ current'.tail_hint >= current.tail_hint
      /\ current'.log_delete_floor >= current.log_delete_floor
      /\ current'.log_seq_start >= current.log_seq_start
      /\ (current'.snapshot # current.snapshot
            => current'.log_seq_start > current.log_seq_start) ]_vars

(* Every started commit call ends, with one of its four outcomes: a writer *)
(* that keeps losing slots to its peers moves forward past each winner.    *)
CommitTerminates ==
  \A c \in Session :
    (commit[c].pc = "head") ~>
      (commit[c].pc \in {"acked", "acked_unchecked", "ambiguous", "failed"})

-----------------------------------------------------------------------------
(* The collection as an atomic store                                       *)

(* The slots a read would fold if it ran now, at one instant.              *)
Suffix ==
  {s \in Slot : /\ current.log_seq_start <= s
                /\ \A t \in current.log_seq_start..s : log[t] # NoEntry}

VisibleRows ==
  {x \in current.snapshot : \A s \in Suffix : DocOf[log[s]] # DocOf[x]}
  \cup {log[s] : s \in {t \in Suffix :
           /\ OpOf[log[t]] # "D"
           /\ \A u \in Suffix : u > t => DocOf[log[u]] # DocOf[log[t]]}}

Applied == {hist[s] : s \in 0..(tail - 1)}

(* An ack that skipped the delete-floor check tells the caller nothing     *)
(* more than an unknown outcome does.                                      *)
OutcomeOf(pc) ==
  CASE pc = "acked" -> "acked"
    [] pc = "failed" -> "failed"
    [] pc \in {"ambiguous", "acked_unchecked"} -> "unknown"
    [] OTHER -> "open"

Outcomes == [c \in Session |-> OutcomeOf(commit[c].pc)]

Store == INSTANCE AtomicStore WITH rows <- VisibleRows, applied <- Applied,
                                   outcome <- Outcomes

(* What the bucket shows a reader changes only when one commit takes       *)
(* effect, and then by exactly that commit: folding, publishing, retiring, *)
(* deleting, re-filled slots and crashes are invisible, and an             *)
(* acknowledged commit has taken effect.                                   *)
IsAtomicStore == Store!StoreSpec

-----------------------------------------------------------------------------
(* What the documentation says and paused actors break                     *)

(* docs: the commit path fails rather than acknowledging an invisible      *)
(* mutation.  Both kinds of ack, the checked and the unchecked one.        *)
AckIsNeverInvisible ==
  \A c \in Session :
    commit[c].pc \in {"acked", "acked_unchecked"} => hist[commit[c].hi] = c

(* docs: the forward probe can never stop early inside a hole, so a        *)
(* completed read holds everything committed before it began.              *)
ProbeNeverStopsInHole ==
  \A r \in Reader : read[r].pc = "done" => read[r].need <= read[r].pos

(* writer.ts: no reader ever consults an object below the delete floor,    *)
(* so a completed read is the fold of committed entries only.              *)
RefilledSlotIsNeverRead ==
  \A r \in Reader : read[r].pc = "done" => read[r].rows = Live(hist, read[r].pos)

(* writer.ts: a foreign occupant of the slot a commit tried proves that    *)
(* its own send did not land there, so it may append at the next slot.     *)
ForeignOccupantProvesNotLanded ==
  \A c \in Session :
    (commit[c].pc = "resolve" /\ log[commit[c].hi] \notin {c, NoEntry})
      => hist[commit[c].hi] # c

=============================================================================
