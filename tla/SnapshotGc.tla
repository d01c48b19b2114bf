----------------------------- MODULE SnapshotGc -----------------------------
(***************************************************************************)
(* Garbage collection of snapshot objects: runGc passes that mark orphans  *)
(* in the ledger gc/pending.json and sweep them after a grace period, the  *)
(* compactors that write and publish snapshots meanwhile, readers, and     *)
(* `admin restore --force`, which starts a new generation.                 *)
(*                                                                         *)
(* Every storage call is one step.  The log is abstracted to the one thing *)
(* a snapshot's name depends on: the position it is folded up to, and the  *)
(* data it holds, which is the same for every fold of one prefix of one    *)
(* generation.                                                             *)
(***************************************************************************)
EXTENDS Integers, SequencesExt, Listing

CONSTANTS
  Compactor,      \* concurrent compact() calls
  Pass,           \* concurrent runGc() calls
  Reader,         \* read calls
  Data,           \* contents a generation may have; numbers, ordered as hashes
  Opaque,         \* ledger keys of older builds that cannot be classified
  NoKey,          \* snapshot: null
  MaxMarks,       \* maxMarksPerRun
  MaxSweeps,      \* maxSweepsPerRun
  MaxCandidates,  \* GC_MAX_PENDING_CANDIDATES
  ClockSkew,      \* may a pass run on a clock that is ahead by the grace?
  MaxPos,         \* bound: the last log position
  MaxGen,         \* bound: restores
  MaxFaults       \* bound: passes that throw and ledger updates that are lost

ASSUME DataAssumption   == Data \subseteq Nat
ASSUME NoKeyAssumption  == NoKey \notin [at : 0..MaxPos, body : Data]
ASSUME MaxPosAssumption == MaxPos \in Nat
ASSUME MaxGenAssumption == MaxGen \in Nat
ASSUME CapAssumption    == MaxCandidates \in Nat
ASSUME SkewAssumption   == ClockSkew \subseteq BOOLEAN

(* snapshot/L9/<0>-<at>-<body>.json.  The range of every fold starts at 0. *)
Key == [at : 0..MaxPos, body : Data]

(* The fields of current.json that matter here.                            *)
Manifests == [generation : 0..MaxGen, floor : 0..MaxPos, snapshot : Key \cup {NoKey}]

VARIABLES
  current,    \* current.json
  data,       \* the content of the present generation's log
  objects,    \* the snapshot objects of the bucket
  sweep,      \* sweep[p]: the DELETEs of pass p that are under way
  stray,      \* DELETEs under way whose pass has thrown
  pending,    \* gc/pending.json: [exists, candidates]
  fold,       \* fold[f]: the state of the compact() call f
  pass,       \* pass[p]: the state of the runGc() call p
  read,       \* read[r]: the state of the read call r
  restoring,  \* a restore has reseeded and not yet deleted the ledger
  faults      \* faults so far

gcVars == <<current, data, objects, sweep, stray, pending, fold, pass, read,
            restoring, faults>>

ZeroManifest == [generation |-> 0, floor |-> 0, snapshot |-> NoKey]

IdleFold == [pc |-> "idle", base |-> ZeroManifest, key |-> NoKey]

IdlePass == [pc |-> "idle", base |-> ZeroManifest, ahead |-> FALSE,
             old |-> <<>>, new |-> <<>>, resolved |-> {}]

IdleRead == [pc |-> "idle", snapshot |-> NoKey, aged |-> FALSE, suspect |-> FALSE]

(* Mutant: the grace counts from the age of the object, not from the mark. *)
Candidate_ObjectAge(k, g) == [key |-> k, due |-> TRUE, generation |-> g]

(* A fresh mark: due one grace period after it is made.                    *)
Candidate(k, g) == [key |-> k, due |-> FALSE, generation |-> g]

KeysOf(s) == {c.key : c \in Range(s)}

(* A legacy ledger may hold candidates of every unclassifiable kind.  Like *)
(* every ledger, it was cut to MaxCandidates when it was written.          *)
LegacyLedgers ==
  {[i \in DOMAIN s |-> Candidate(s[i], 0)] :
     s \in {t \in SeqOf(Opaque, MaxCandidates) : IsInjective(t)}}

Init ==
  /\ current = ZeroManifest
  /\ data \in Data
  /\ objects = {}
  /\ sweep = [p \in Pass |-> {}]
  /\ stray = {}
  /\ \E s \in LegacyLedgers : pending = [exists |-> s # <<>>, candidates |-> s]
  /\ fold = [f \in Compactor |-> IdleFold]
  /\ pass = [p \in Pass |-> IdlePass]
  /\ read = [r \in Reader |-> IdleRead]
  /\ restoring = FALSE
  /\ faults = 0

-----------------------------------------------------------------------------
(* compact(), as far as snapshots are concerned                            *)

(* Read the manifest and fold up to `end`; nothing to fold is a legal fold *)
(* (minEntriesToCompact = 0).  A missing base snapshot makes it throw.     *)
FoldBegin(f) ==
  /\ fold[f].pc = "idle"
  /\ current.snapshot \in objects \cup {NoKey}
  /\ \E end \in current.floor..MaxPos :
       fold' = [fold EXCEPT ![f] = [pc |-> "put", base |-> current,
                                    key |-> [at |-> end, body |-> data]]]
  /\ UNCHANGED <<current, data, objects, sweep, stray, pending, pass, read, restoring, faults>>

(* PUT the snapshot under its content hash, unconditionally.               *)
FoldPut(f) ==
  /\ fold[f].pc = "put"
  /\ objects' = objects \cup {fold[f].key}
  /\ fold' = [fold EXCEPT ![f].pc = "cas"]
  /\ UNCHANGED <<current, data, sweep, stray, pending, pass, read, restoring, faults>>

(* CAS the manifest of the first read.                                     *)
FoldCas(f) ==
  /\ fold[f].pc = "cas"
  /\ current = fold[f].base
  /\ current' = [current EXCEPT !.snapshot = fold[f].key,
                                !.floor = fold[f].key.at]
  /\ fold' = [fold EXCEPT ![f] = IdleFold]
  /\ UNCHANGED <<data, objects, sweep, stray, pending, pass, read, restoring, faults>>

(* A lost CAS, an error or a crash.                                        *)
FoldEnd(f) ==
  /\ fold[f].pc # "idle"
  /\ fold' = [fold EXCEPT ![f] = IdleFold]
  /\ UNCHANGED <<current, data, objects, sweep, stray, pending, pass, read, restoring, faults>>

-----------------------------------------------------------------------------
(* runGc()                                                                 *)

(* Step 1: read current.json.                                              *)
GcStart(p) ==
  /\ pass[p].pc = "idle"
  /\ \E ahead \in ClockSkew :
       pass' = [pass EXCEPT ![p] = [IdlePass EXCEPT !.pc = "load",
                                    !.base = current, !.ahead = ahead]]
  /\ UNCHANGED <<current, data, objects, sweep, stray, pending, fold, read, restoring, faults>>

(* Step 2: read or create the ledger.                                      *)
GcLoad(p) ==
  /\ pass[p].pc = "load"
  /\ pending' = [pending EXCEPT !.exists = TRUE]
  /\ pass' = [pass EXCEPT ![p].pc = "mark", ![p].old = pending.candidates]
  /\ UNCHANGED <<current, data, objects, sweep, stray, fold, read, restoring, faults>>

(* The order of a LIST.                                                    *)
Before(k, l) == k.at < l.at \/ (k.at = l.at /\ k.body < l.body)

(* Step 3: mark the orphans among the first MaxMarks keys of the LIST.     *)
Marks(p) ==
  LET listed  == {k \in objects : Cardinality({l \in objects : Before(l, k)}) < MaxMarks}
      orphans == {k \in listed : k # pass[p].base.snapshot /\ k \notin KeysOf(pass[p].old)}
      inOrder == InOrder(orphans, {kl \in orphans \X orphans : Before(kl[1], kl[2])})
  IN  [i \in DOMAIN inOrder |-> Candidate(inOrder[i], pass[p].base.generation)]

GcMark(p) ==
  /\ pass[p].pc = "mark"
  /\ pass' = [pass EXCEPT ![p].pc = "gate", ![p].new = Marks(p)]
  /\ UNCHANGED <<current, data, objects, sweep, stray, pending, fold, read, restoring, faults>>

IsDue(p, c) == c.due \/ pass[p].ahead

(* Does some due snapshot force the second manifest read?                  *)
HasDueSnapshot(p, cands) ==
  \E c \in Range(cands) : c.key \notin Opaque /\ IsDue(p, c)

(* Mutant: unclassifiable candidates stay in the ledger.                   *)
Dropped_KeepOpaque(p, cands, fence) ==
  {c.key : c \in {d \in Range(cands) :
     /\ d.key \notin Opaque
     /\ \/ d.generation # fence.generation
        \/ HasDueSnapshot(p, cands) /\ d.key = fence.snapshot}}

(* Step 4: the candidates that leave the ledger without a DELETE: evicted, *)
(* of another generation, or rescued because they are live.                *)
Dropped(p, cands, fence) ==
  {c.key : c \in {d \in Range(cands) :
     \/ d.key \in Opaque
     \/ d.generation # fence.generation
     \/ HasDueSnapshot(p, cands) /\ d.key = fence.snapshot}}

(* Mutant: a snapshot that ends at the floor counts as obsolete.           *)
Sweepable_AtFloor(p, c, fence, dropped) ==
  /\ c.key \notin dropped
  /\ IsDue(p, c)
  /\ c.key \in Key
  /\ c.key.at <= fence.floor

(* Due, and wholly below the floor of the fresh manifest: no later         *)
(* publication of this generation can name it.                             *)
Sweepable(p, c, fence, dropped) ==
  /\ c.key \notin dropped
  /\ IsDue(p, c)
  /\ c.key \in Key
  /\ c.key.at < fence.floor

(* The first MaxSweeps of them.                                            *)
Swept(p, cands, fence, dropped) ==
  {cands[i].key : i \in {j \in DOMAIN cands :
     /\ Sweepable(p, cands[j], fence, dropped)
     /\ Cardinality({h \in 1..(j - 1) :
          Sweepable(p, cands[h], fence, dropped)}) < MaxSweeps}}

(* The manifest is read again only if a due snapshot could be deleted.     *)
GcGate(p) ==
  LET cands   == pass[p].old \o pass[p].new
      fence   == IF HasDueSnapshot(p, cands) THEN current ELSE pass[p].base
      dropped == Dropped(p, cands, fence)
      swept   == Swept(p, cands, fence, dropped)
  IN
  /\ pass[p].pc = "gate"
  /\ pass' = [pass EXCEPT ![p].pc = "merge",
                          ![p].resolved = swept \cup dropped]
  /\ sweep' = [sweep EXCEPT ![p] = swept]
  /\ UNCHANGED <<current, data, objects, stray, pending, fold, read, restoring, faults>>

(* One of the parallel DELETEs of the pass.                                *)
GcDelete(p, k) ==
  /\ k \in sweep[p]
  /\ objects' = objects \ {k}
  /\ sweep' = [sweep EXCEPT ![p] = @ \ {k}]
  /\ UNCHANGED <<current, data, stray, pending, fold, pass, read, restoring, faults>>

(* A DELETE executes after its pass has thrown.                            *)
StrayDelete(k) ==
  /\ k \in stray
  /\ objects' = objects \ {k}
  /\ stray' = stray \ {k}
  /\ UNCHANGED <<current, data, sweep, pending, fold, pass, read, restoring, faults>>

(* The candidates of s whose key is not among the given ones.              *)
Without(s, keys) == Keep(s, {i \in DOMAIN s : s[i].key \notin keys})

(* Mutant: the ledger is overwritten with what this pass computed.         *)
mergeGcPending_Overwrite(latest, p) ==
  Without(pass[p].old \o pass[p].new, pass[p].resolved)

(* Drop what the pass resolved from the latest ledger, append its marks.   *)
mergeGcPending(latest, p) ==
  LET surviving == Without(latest, pass[p].resolved)
      appended  == Without(pass[p].new, pass[p].resolved \cup KeysOf(surviving))
      all       == surviving \o appended
  IN  SubSeq(all, 1, Min({Len(all), MaxCandidates}))

(* Step 5, casUpdateGcPending; a ledger that vanished is left alone.       *)
GcMerge(p) ==
  /\ pass[p].pc = "merge"
  /\ sweep[p] = {}
  /\ pending' = IF pending.exists
                THEN [pending EXCEPT !.candidates = mergeGcPending(@, p)]
                ELSE pending
  /\ pass' = [pass EXCEPT ![p] = IdlePass]
  /\ UNCHANGED <<current, data, objects, sweep, stray, fold, read, restoring, faults>>

(* A storage call throws, the ledger CAS is lost for good, or a crash;     *)
(* Promise.all does not recall the DELETEs that are under way.             *)
GcFail(p) ==
  /\ pass[p].pc # "idle"
  /\ faults < MaxFaults
  /\ faults' = faults + 1
  /\ stray' = stray \cup sweep[p]
  /\ sweep' = [sweep EXCEPT ![p] = {}]
  /\ pass' = [pass EXCEPT ![p] = IdlePass]
  /\ UNCHANGED <<current, data, objects, pending, fold, read, restoring>>

-----------------------------------------------------------------------------
(* The grace period passes: whatever was marked is due, and no read that   *)
(* is still open is shorter than the grace.  A pass always is: the grace   *)
(* is seven days.                                                          *)
Aged(s) == [i \in DOMAIN s |-> [s[i] EXCEPT !.due = TRUE]]

GraceElapses ==
  /\ \A p \in Pass : pass[p].pc = "idle"
  /\ pending' = [pending EXCEPT !.candidates = Aged(@)]
  /\ read' = [r \in Reader |-> [read[r] EXCEPT !.aged = @ \/ read[r].pc = "load"]]
  /\ UNCHANGED <<current, data, objects, sweep, stray, fold, pass, restoring, faults>>

-----------------------------------------------------------------------------
(* admin restore --force: reseed the manifest above the listed log, in a   *)
(* new generation, then delete the ledger.  Its documented precondition is *)
(* that no maintenance is under way when it reseeds.  A restore that dies  *)
(* in between leaves the old ledger to the new generation.                 *)
Exclusive ==
  /\ stray = {}
  /\ \A p \in Pass : sweep[p] = {} /\ pass[p].pc = "idle"

RestoreReseed ==
  /\ Exclusive
  /\ current.generation < MaxGen
  /\ \E base \in 0..MaxPos :
       current' = [generation |-> current.generation + 1, floor |-> base,
                   snapshot |-> NoKey]
  /\ data' \in Data
  /\ restoring' = TRUE
  /\ UNCHANGED <<objects, sweep, stray, pending, fold, pass, read, faults>>

RestoreClear ==
  /\ restoring
  /\ pending' = [exists |-> FALSE, candidates |-> <<>>]
  /\ restoring' = FALSE
  /\ UNCHANGED <<current, data, objects, sweep, stray, fold, pass, read, faults>>

-----------------------------------------------------------------------------
(* A mark of the snapshot is due already, in the ledger or in the copy of  *)
(* it that a pass works on.                                                *)
MarkIsDue(k) ==
  \E s \in {pending.candidates} \cup {pass[p].old : p \in Pass} :
    \E c \in Range(s) : c.key = k /\ c.due

(* A read: the manifest, then the snapshot it names; `suspect` is history. *)
ReadHead(r) ==
  /\ read[r].pc = "idle"
  /\ current.snapshot # NoKey
  /\ read' = [read EXCEPT ![r] = [pc |-> "load", snapshot |-> current.snapshot,
                                  aged |-> FALSE, suspect |-> MarkIsDue(current.snapshot)]]
  /\ UNCHANGED <<current, data, objects, sweep, stray, pending, fold, pass, restoring, faults>>

ReadLoad(r) ==
  /\ read[r].pc = "load"
  /\ read' = [read EXCEPT ![r] =
                IF read[r].snapshot \in objects THEN IdleRead
                ELSE [read[r] EXCEPT !.pc = "missing"]]
  /\ UNCHANGED <<current, data, objects, sweep, stray, pending, fold, pass, restoring, faults>>

-----------------------------------------------------------------------------
GcStep(p) == GcStart(p) \/ GcLoad(p) \/ GcMark(p) \/ GcGate(p) \/ GcMerge(p)

Next ==
  \/ \E f \in Compactor : FoldBegin(f) \/ FoldPut(f) \/ FoldCas(f) \/ FoldEnd(f)
  \/ \E p \in Pass : GcStep(p) \/ GcFail(p)
  \/ \E p \in Pass, k \in Key : GcDelete(p, k)
  \/ \E k \in Key : StrayDelete(k)
  \/ GraceElapses
  \/ RestoreReseed
  \/ RestoreClear
  \/ \E r \in Reader : ReadHead(r) \/ ReadLoad(r)

Spec == Init /\ [][Next]_gcVars

(* Maintenance keeps coming (a cron, or the ticks of later writes), a pass *)
(* that does not fail goes on, and time passes: SF, since the model lets   *)
(* the grace run out only between passes.                                  *)
FairSpec ==
  /\ Spec
  /\ \A p \in Pass : WF_gcVars(GcStep(p))
  /\ \A p \in Pass, k \in Key : WF_gcVars(GcDelete(p, k))
  /\ SF_gcVars(GraceElapses)

-----------------------------------------------------------------------------
(* The snapshot current.json names exists.  No grace and no clock is       *)
(* needed for this: a compactor may pause between writing a snapshot and   *)
(* publishing it while any number of passes, on clocks that are ahead by   *)
(* the whole grace, mark and sweep, and restores come and go.              *)
LiveSnapshotExists == current.snapshot # NoKey => current.snapshot \in objects

(* A candidate leaves the ledger only because a pass resolved it or a      *)
(* restore cleared the ledger: concurrent passes keep each other's marks.  *)
MarksSurvive ==
  [][ \A k \in KeysOf(pending.candidates) :
        \/ k \in KeysOf(pending'.candidates)
        \/ ~pending'.exists
        \/ \E p \in Pass : k \in pass[p].resolved ]_gcVars

(* Every snapshot below the floor is eventually deleted, unless a restore  *)
(* lowers the floor first: neither the live snapshot, nor unclassifiable   *)
(* entries of a legacy ledger, nor entries of an earlier generation block  *)
(* the bounded ledger for good.                                            *)
OrphanSwept ==
  \A k \in Key :
    (k \in objects /\ k.at < current.floor)
      ~> (k \notin objects \/ k.at >= current.floor)

(* The grace protects readers: a read finds the body of the snapshot it    *)
(* was pointed to, although the manifest moves on and passes sweep, unless *)
(* it is longer than the grace, or a mark of its snapshot was due already  *)
(* when it began: one made before the snapshot was published.              *)
GraceCoversRead ==
  \A r \in Reader : read[r].pc = "missing" => read[r].aged \/ read[r].suspect

(* snapshot.ts: a pointer that resolves to no body is a violation of the   *)
(* protocol.  Only reads shorter than the grace are considered.            *)
PointerResolves ==
  \A r \in Reader : read[r].pc = "missing" => read[r].aged

=============================================================================
