---------------------------- MODULE IndexMarkers ----------------------------
(***************************************************************************)
(* One secondary index of a collection.  A marker is a zero-byte object     *)
(* <value>/<doc>; a writer PUTs the marker of the new value before its      *)
(* commit and DELETEs the marker of the old one after it; an index read     *)
(* LISTs markers and folds the log for the documents it found; rebuildIndex *)
(* reconciles markers with the rows.                                        *)
(*                                                                         *)
(* A commit is one step here (CommitLog); what matters is the order of      *)
(* marker PUTs, commits, marker DELETEs, LIST pages and log reads.          *)
(***************************************************************************)
EXTENDS Integers, Sequences, FiniteSets

CONSTANTS
  IxDoc,        \* document ids
  IxValue,      \* 1..n: values of the indexed field, in LIST order
  FilterMiss,   \* the values the index's filter (IndexDefinition.predicate) excludes
  RebuildDef,   \* the definition a rebuild is given: "full", or "cli", which has
                \* the index's name and fields and no filter
  Committer,    \* commit calls, each made once
  Scanner,      \* index reads, each made once
  PreimageGets  \* PREIMAGE_SCAN_MAX_GETS

VARIABLES
  entries,    \* the committed entries [doc, op, value]
  retired,    \* the first slots, whose objects are gone
  markers,    \* the marker objects: <<value, doc>>
  committer,  \* local state of every commit call
  scanner,    \* local state of every index read
  rebuild,    \* local state of the rebuildIndex call
  contended   \* history: documents that two calls have handled at once

ixVars == <<entries, retired, markers, committer, scanner, rebuild, contended>>

ASSUME IxAssumption ==
  /\ IxValue = 1 .. Cardinality(IxValue) /\ FilterMiss \subseteq IxValue
  /\ RebuildDef \in {"full", "cli"}
  /\ PreimageGets \in Nat

NoValue == 0

(* The value document d has after the first n entries; NoValue: no row.    *)
ValueAt(d, n) ==
  LET mine == {i \in 1..n : entries[i].doc = d}
      last == CHOOSE i \in mine : \A j \in mine : j <= i
  IN IF mine = {} THEN NoValue
     ELSE IF entries[last].op = "D" THEN NoValue ELSE entries[last].value

ValueNow(d) == ValueAt(d, Len(entries))

(* allIndexKeysFor: a missing body, a null field (NoValue too) or a filter *)
(* miss has no key.                                                        *)
allIndexKeysFor(v, d) ==
  IF v = NoValue \/ v \in FilterMiss THEN {} ELSE {<<v, d>>}

(* The keys rebuildIndex expects; the definition that admin rebuild-index  *)
(* builds from --on or --config carries no filter.                         *)
ExpectedKeys(v, d) ==
  IF RebuildDef = "cli" /\ v # NoValue THEN {<<v, d>>} ELSE allIndexKeysFor(v, d)

IdleCommitter == [pc |-> "idle", doc |-> NoValue, op |-> "I", value |-> NoValue,
                  seq |-> 0, stale |-> {}]
IdleScan == [pc |-> "idle", wanted |-> {}, left |-> {}, found |-> {}, rows |-> {},
             tail |-> 0, touched |-> {}]
IdleRebuild == [pc |-> "idle", expected |-> {}, todo |-> {}, alone |-> TRUE]

IxInit ==
  /\ entries = <<>> /\ retired = 0 /\ markers = {}
  /\ committer = [c \in Committer |-> IdleCommitter]
  /\ scanner = [s \in Scanner |-> IdleScan]
  /\ rebuild = IdleRebuild
  /\ contended = {}

Busy(c) == committer[c].pc \in {"create", "clean", "delete"}

BusyOn(d) == {c \in Committer : Busy(c) /\ committer[c].doc = d}

Touch(scan, d) ==
  IF scan.pc = "list" THEN [scan EXCEPT !.touched = @ \cup {d}] ELSE scan

(* History: what a commit step on d does to the calls that overlap it.     *)
Notice(d) ==
  /\ scanner' = [s \in Scanner |-> Touch(scanner[s], d)]
  /\ rebuild' = [rebuild EXCEPT !.alone = @ /\ rebuild.pc = "idle"]

(***************************************************************************)
(* Writer.commit as far as the index sees it.                              *)
(***************************************************************************)

Begin(c, d, op, v) ==
  /\ committer[c].pc = "idle"
  /\ op = "D" <=> v = NoValue
  /\ committer' = [committer EXCEPT ![c] =
       [IdleCommitter EXCEPT !.pc = "create", !.doc = d, !.op = op, !.value = v]]
  /\ contended' = IF BusyOn(d) # {} \/ rebuild.pc # "idle"
                  THEN contended \cup {d} ELSE contended
  /\ Notice(d)
  /\ UNCHANGED <<entries, retired>>

(* Mutant: no marker is written before the commit.                         *)
PutMarkers_Skipped(c, d, op, v) == Begin(c, d, op, v) /\ UNCHANGED markers

(* The call begins; step 4: additive markers, 412 swallowed.               *)
PutMarkers(c, d, op, v) ==
  /\ Begin(c, d, op, v)
  /\ markers' = markers \cup allIndexKeysFor(v, d)

(* Step 5: the create.                                                     *)
CommitEntry(c) ==
  LET k == committer[c] IN
  /\ k.pc = "create"
  /\ entries' = Append(entries, [doc |-> k.doc, op |-> k.op, value |-> k.value])
  /\ committer' = [committer EXCEPT ![c].pc = "clean", ![c].seq = Len(entries)]
  /\ Notice(k.doc)
  /\ UNCHANGED <<retired, markers, contended>>

(* #readPreImage: the newest entry for the document among the last         *)
(* PreimageGets slots that still exist.                                    *)
readPreImage(d, seq) ==
  LET seen == {i \in 1..seq : /\ i > seq - PreimageGets /\ i > retired
                              /\ entries[i].doc = d}
      last == CHOOSE i \in seen : \A j \in seen : j <= i
  IN IF seen = {} THEN NoValue
     ELSE IF entries[last].op = "D" THEN NoValue ELSE entries[last].value

(* oldKeys \ newKeys for U, oldKeys for D, nothing for I.                  *)
StaleKeys(k) ==
  IF k.op = "I" THEN {}
  ELSE allIndexKeysFor(readPreImage(k.doc, k.seq), k.doc)
         \ allIndexKeysFor(k.value, k.doc)

(* Step 5b up to the DELETEs.                                              *)
FindStale(c) ==
  /\ committer[c].pc = "clean"
  /\ committer' = [committer EXCEPT ![c].pc = "delete", ![c].stale = StaleKeys(committer[c])]
  /\ Notice(committer[c].doc)
  /\ UNCHANGED <<entries, retired, markers, contended>>

(* The DELETEs: each is executed or fails, and the call ends.  A DELETE    *)
(* that timed out and lands late is this step taken late: until it has     *)
(* landed, the call counts as one that handles the row.                    *)
DeleteStale(c) ==
  LET k == committer[c] IN
  /\ k.pc = "delete"
  /\ \E failed \in SUBSET k.stale : markers' = markers \ (k.stale \ failed)
  /\ committer' = [committer EXCEPT ![c] = [IdleCommitter EXCEPT !.pc = "ended"]]
  /\ Notice(k.doc)
  /\ UNCHANGED <<entries, retired, contended>>

(* The call throws before its create, or its host dies anywhere.           *)
CommitCrash(c) ==
  /\ Busy(c)
  /\ committer' = [committer EXCEPT ![c] = [IdleCommitter EXCEPT !.pc = "ended"]]
  /\ Notice(committer[c].doc)
  /\ UNCHANGED <<entries, retired, markers, contended>>

(* Retirement deletes a prefix of the log (its entries are folded).        *)
RetirePrefix ==
  /\ retired < Len(entries)
  /\ retired' = Len(entries)
  /\ UNCHANGED <<entries, markers, committer, scanner, rebuild, contended>>

(***************************************************************************)
(* runIndexWalkPlan.                                                       *)
(***************************************************************************)

(* An equality, range or in() plan: the set of values it walks.            *)
ScanBegin(s, wanted) ==
  /\ scanner[s].pc = "idle"
  /\ scanner' = [scanner EXCEPT ![s] = [IdleScan EXCEPT !.pc = "list", !.wanted = wanted,
                   !.left = wanted,
                   !.touched = {committer[c].doc : c \in {x \in Committer : Busy(x)}}]]
  /\ UNCHANGED <<entries, retired, markers, committer, rebuild, contended>>

(* One page of the LIST, or one of the parallel LISTs: one value.          *)
ScanPage(s, v) ==
  LET k == scanner[s] IN
  /\ k.pc = "list" /\ v \in k.left
  /\ scanner' = [scanner EXCEPT ![s].left = @ \ {v},
       ![s].found = @ \cup {d \in IxDoc : <<v, d>> \in markers}]
  /\ UNCHANGED <<entries, retired, markers, committer, rebuild, contended>>

(* Mutant: the predicate is not checked again on the folded rows.          *)
ScanFold_NoRecheck(s) ==
  LET k == scanner[s] IN
  /\ k.pc = "list" /\ k.left = {}
  /\ scanner' = [scanner EXCEPT ![s].pc = "done", ![s].tail = Len(entries),
       ![s].rows = {d \in k.found : ValueNow(d) # NoValue}]
  /\ UNCHANGED <<entries, retired, markers, committer, rebuild, contended>>

(* The tail probe, the fold of the candidates, and the predicate again.    *)
ScanFold(s) ==
  LET k == scanner[s] IN
  /\ k.pc = "list" /\ k.left = {}
  /\ scanner' = [scanner EXCEPT ![s].pc = "done", ![s].tail = Len(entries),
       ![s].rows = {d \in k.found : ValueNow(d) \in k.wanted}]
  /\ UNCHANGED <<entries, retired, markers, committer, rebuild, contended>>

(***************************************************************************)
(* rebuildIndex.                                                           *)
(***************************************************************************)

(* Steps 1 and 2: the fold and the expected keys.                          *)
RebuildFold ==
  /\ rebuild.pc = "idle"
  /\ rebuild' = [IdleRebuild EXCEPT !.pc = "list",
       !.expected = UNION {ExpectedKeys(ValueNow(d), d) : d \in IxDoc},
       !.alone = \A c \in Committer : ~Busy(c)]
  /\ contended' = contended \cup {committer[c].doc : c \in {x \in Committer : Busy(x)}}
  /\ UNCHANGED <<entries, retired, markers, committer, scanner>>

(* Mutant: only missing markers are restored.                              *)
RebuildList_AddOnly ==
  /\ rebuild.pc = "list"
  /\ rebuild' = [rebuild EXCEPT !.pc = "fix", !.todo = rebuild.expected \ markers]
  /\ UNCHANGED <<entries, retired, markers, committer, scanner, contended>>

(* Step 3: LIST; the difference, both ways, is what there is to do.        *)
RebuildList ==
  /\ rebuild.pc = "list"
  /\ rebuild' = [rebuild EXCEPT !.pc = "fix", !.todo =
       (rebuild.expected \ markers) \cup (markers \ rebuild.expected)]
  /\ UNCHANGED <<entries, retired, markers, committer, scanner, contended>>

(* Step 4: one PUT or DELETE.                                              *)
RebuildFix(k) ==
  /\ rebuild.pc = "fix" /\ k \in rebuild.todo
  /\ markers' = IF k \in rebuild.expected THEN markers \cup {k} ELSE markers \ {k}
  /\ rebuild' = [rebuild EXCEPT !.todo = @ \ {k}]
  /\ scanner' = [s \in Scanner |-> Touch(scanner[s], k[2])]
  /\ UNCHANGED <<entries, retired, committer, contended>>

(* The end, a crash, or (dryRun) a report without a fix.                   *)
RebuildEnd ==
  /\ rebuild.pc = "fix"
  /\ rebuild' = IdleRebuild
  /\ UNCHANGED <<entries, retired, markers, committer, scanner, contended>>

IxNext ==
  \/ \E c \in Committer :
       \/ \E d \in IxDoc, op \in {"I", "U", "D"}, v \in IxValue \cup {NoValue} :
            /\ op = "I" <=> ValueNow(d) = NoValue
            /\ PutMarkers(c, d, op, v)
       \/ CommitEntry(c) \/ FindStale(c) \/ DeleteStale(c)
       \/ CommitCrash(c)
  \/ RetirePrefix
  \/ \E s \in Scanner :
       \/ \E wanted \in SUBSET (IxValue \ FilterMiss) : ScanBegin(s, wanted)
       \/ \E v \in scanner[s].left : ScanPage(s, v)
       \/ ScanFold(s)
  \/ RebuildFold \/ RebuildList \/ RebuildEnd
  \/ \E k \in IxValue \X IxDoc : RebuildFix(k)

IxSpec == IxInit /\ [][IxNext]_ixVars

(***************************************************************************)
(* Properties.                                                             *)
(***************************************************************************)

(* writer.ts, "de-indexing a committed doc is never produced by a crash;   *)
(* only the concurrent delete-after-commit ABA produces it": a row that no *)
(* two calls ever handled at once has its marker, whatever crashed, failed *)
(* to delete, was retired or lies beyond the pre-image budget.             *)
LiveRowIndexed ==
  \A d \in IxDoc \ contended : allIndexKeysFor(ValueNow(d), d) \subseteq markers

(* An index read returns exactly the matching rows among the documents     *)
(* that no call touched while it ran, and nothing that does not match.     *)
IndexReadExact ==
  \A s \in Scanner : scanner[s].pc = "done" =>
    /\ \A d \in scanner[s].rows : ValueAt(d, scanner[s].tail) \in scanner[s].wanted
    /\ \A d \in IxDoc \ (contended \cup scanner[s].touched) :
         ValueAt(d, scanner[s].tail) \in scanner[s].wanted => d \in scanner[s].rows

(* rebuild-index.ts, "Re-running on a healthy index is a no-op": a rebuild *)
(* that no commit runs beside and that finds the markers of the live rows  *)
(* has nothing to do.                                                      *)
HealthyRebuildIsNoOp ==
  rebuild.pc = "fix" /\ rebuild.alone
  /\ markers = UNION {allIndexKeysFor(ValueNow(d), d) : d \in IxDoc}
    => rebuild.todo = {}

(* rebuildIndex: when no commit ran beside it, the markers it leaves are   *)
(* exactly those of the live rows, whatever races came before.             *)
RebuildExact ==
  rebuild.pc = "fix" /\ rebuild.todo = {} /\ rebuild.alone =>
    markers = UNION {allIndexKeysFor(ValueNow(d), d) : d \in IxDoc}

=============================================================================
