-------------------------- MODULE CommitLog_proofs --------------------------
(***************************************************************************)
(* Proofs that the invariant of CommitLogInv is inductive, and of the      *)
(* safety properties of CommitLog that follow from it, for every number of *)
(* writers, compactors and readers and every bound; and that CommitLog     *)
(* implements AtomicStore.                                                 *)
(***************************************************************************)
EXTENDS CommitLogInv, TLAPS

(* Constants as the lemmas need them.                                      *)
LEMMA Constants ==
  /\ MaxSeq \in Nat /\ Window \in Nat /\ MaxDeletes \in Nat
  /\ NoEntry \notin Session
  /\ DocOf \in [Session -> Doc] /\ OpOf \in [Session -> {"I", "U", "D"}]
BY MaxSeqAssumption, WindowAssumption, MaxDeletesAssumption, NoEntryAssumption,
   DocOfAssumption, OpOfAssumption

-----------------------------------------------------------------------------
(* The fold                                                                *)

(* The state after n entries depends on those n entries only: extending    *)
(* the log later does not change what a prefix folds to.                   *)
LEMMA LiveDependsOnPrefix ==
  ASSUME NEW h, NEW g, NEW n \in Nat,
         \A s \in 0..(n - 1) : h[s] = g[s]
  PROVE  Live(h, n) = Live(g, n)
BY DEF Live, LastForDoc

(* Only entries of the log appear in its state.                            *)
LEMMA LiveSubset ==
  ASSUME NEW h, NEW n \in Nat, \A s \in 0..(n - 1) : h[s] \in Session
  PROVE  Live(h, n) \subseteq Session
BY DEF Live

(* foldLogEntriesOnto is incremental: folding entry n onto the state of    *)
(* the first n entries gives the state of the first n + 1.  This is what   *)
(* lets a snapshot stand in for the log prefix it replaced.                *)
LEMMA LiveStep ==
  ASSUME NEW h, NEW n \in Nat, \A s \in 0..n : h[s] \in Session
  PROVE  Live(h, n + 1) = FoldOne(Live(h, n), h[n])
<1>1. ASSUME NEW x \in Live(h, n + 1) PROVE x \in FoldOne(Live(h, n), h[n])
  <2>1. PICK s \in 0..n : /\ x = h[s] /\ OpOf[h[s]] # "D"
                          /\ \A t \in 0..n : t > s => DocOf[h[t]] # DocOf[h[s]]
    BY <1>1 DEF Live, LastForDoc
  <2>2. CASE s = n
    BY <2>1, <2>2 DEF FoldOne
  <2>3. CASE s # n
    <3>1. s \in 0..(n - 1) /\ n > s
      BY <2>3
    <3>2. x \in Live(h, n)
      BY <2>1, <3>1 DEF Live, LastForDoc
    <3>3. DocOf[x] # DocOf[h[n]]
      BY <2>1, <3>1
    <3> QED
      BY <3>2, <3>3 DEF FoldOne
  <2> QED
    BY <2>2, <2>3
<1>2. ASSUME NEW x \in FoldOne(Live(h, n), h[n]) PROVE x \in Live(h, n + 1)
  <2>1. CASE x \in Live(h, n) /\ DocOf[x] # DocOf[h[n]]
    <3>1. PICK s \in 0..(n - 1) :
                 /\ x = h[s] /\ OpOf[h[s]] # "D"
                 /\ \A t \in 0..(n - 1) : t > s => DocOf[h[t]] # DocOf[h[s]]
      BY <2>1 DEF Live, LastForDoc
    <3>2. \A t \in 0..n : t > s => DocOf[h[t]] # DocOf[h[s]]
      BY <2>1, <3>1
    <3> QED
      BY <3>1, <3>2 DEF Live, LastForDoc
  <2>2. CASE OpOf[h[n]] # "D" /\ x = h[n]
    BY <2>2 DEF Live, LastForDoc
  <2> QED
    BY <1>2, <2>1, <2>2 DEF FoldOne
<1> QED
  BY <1>1, <1>2

-----------------------------------------------------------------------------
(* Frames                                                                  *)

CommitRec == [pc : CommitPc, lo : Nat, hi : Nat, probes : Nat]

FoldRec == [pc : {"idle", "probe", "checkpoint", "walk"}, base : Manifests,
            pos : Seq0, tail : Seq0, end : Seq0, rows : SUBSET Session]

ReadRec == [pc : {"idle", "scan", "done", "error"}, base : Manifests,
            pos : Seq0, rows : SUBSET Session, need : Seq0]

(* What every step does to the history and the floor.                      *)
Grows ==
  /\ tail' >= tail
  /\ current'.log_delete_floor >= current.log_delete_floor
  /\ \A s \in Slot : s < tail => hist'[s] = hist[s]

LEMMA LiveGrows ==
  ASSUME TypeOK, TypeOK', Grows, NEW n \in Nat, n <= tail
  PROVE  Live(hist', n) = Live(hist, n)
<1>1. \A s \in 0..(n - 1) : hist'[s] = hist[s]
  BY Constants DEF TypeOK, Grows, Slot, Seq0
<1> QED
  BY <1>1, LiveDependsOnPrefix

(* A compactor, reader or commit that takes no part in a step keeps its    *)
(* part of the invariant.                                                  *)
LEMMA FoldFrame ==
  ASSUME IInv, TypeOK', Grows, NEW f \in Compactor, fold'[f] = fold[f]
  PROVE  FoldOk(f)'
<1> DEFINE x == fold[f]
<1>1. FoldOk(f) /\ TypeOK /\ x \in FoldRec
  BY DEF IInv, FoldsOk, TypeOK, FoldRec
<1>2. x.pc # "idle" => x.base.log_seq_start \in Nat /\ x.base.log_seq_start <= tail
  BY <1>1, Constants DEF FoldOk, BaseOk, FoldRec, Manifests, Seq0, TypeOK
<1>3. x.pc = "walk" => x.pos \in Nat /\ x.pos <= tail
  BY <1>1, Constants DEF FoldOk, FoldRec, Seq0, TypeOK
<1>4. x.pc # "idle" => Live(hist', x.base.log_seq_start) = Live(hist, x.base.log_seq_start)
  BY <1>1, <1>2, LiveGrows
<1>5. x.pc = "walk" => Live(hist', x.pos) = Live(hist, x.pos)
  BY <1>1, <1>3, LiveGrows
<1>6. /\ tail \in Nat /\ tail' \in Nat /\ tail <= tail'
      /\ current.log_delete_floor \in Nat /\ current'.log_delete_floor \in Nat
      /\ current.log_delete_floor <= current'.log_delete_floor
      /\ x.base.log_seq_start \in Nat /\ x.base.tail_hint \in Nat
      /\ x.base.log_delete_floor \in Nat /\ x.tail \in Nat
  BY <1>1, Constants DEF TypeOK, Grows, Manifests, Seq0, FoldRec
<1>7. BaseOk(x.base) => BaseOk(x.base)'
  BY <1>6 DEF BaseOk
<1>8. x.pc = "walk" => RowsOk(x.base, x.pos, x.rows)'
  BY <1>1, <1>5, <1>6 DEF FoldOk, RowsOk
<1> QED
  BY <1>1, <1>4, <1>6, <1>7, <1>8 DEF FoldOk, BaseOk, RowsOk

LEMMA ReadFrame ==
  ASSUME IInv, TypeOK', Grows, NEW r \in Reader, read'[r] = read[r]
  PROVE  ReadOk(r)'
<1> DEFINE x == read[r]
<1>1. ReadOk(r) /\ TypeOK /\ x \in ReadRec
  BY DEF IInv, ReadsOk, TypeOK, ReadRec
<1>3. x.pc \in {"scan", "done"} => x.pos \in Nat /\ x.pos <= tail
  BY <1>1, Constants DEF ReadOk, ReadRec, Seq0, TypeOK
<1>5. x.pc \in {"scan", "done"} => Live(hist', x.pos) = Live(hist, x.pos)
  BY <1>1, <1>3, LiveGrows
<1>6. /\ tail \in Nat /\ tail' \in Nat /\ tail <= tail'
      /\ current.log_delete_floor \in Nat /\ current'.log_delete_floor \in Nat
      /\ current.log_delete_floor <= current'.log_delete_floor
      /\ x.base.log_seq_start \in Nat /\ x.base.tail_hint \in Nat
      /\ x.base.log_delete_floor \in Nat /\ x.need \in Nat /\ x.pos \in Nat
  BY <1>1, Constants DEF TypeOK, Grows, Manifests, Seq0, ReadRec
<1> QED
  BY <1>1, <1>3, <1>5, <1>6 DEF ReadOk, BaseOk, RowsOk

LEMMA CommitFrame ==
  ASSUME IInv, TypeOK', Grows, NEW c \in Session, commit'[c] = commit[c]
  PROVE  CommitOk(c)'
<1>1. CommitOk(c) /\ TypeOK /\ commit[c] \in CommitRec
  BY DEF IInv, CommitsOk, TypeOK, CommitRec
<1>2. /\ tail \in Nat /\ tail' \in Nat /\ tail <= tail' /\ tail <= MaxSeq + 1
      /\ current.log_delete_floor \in Nat /\ current'.log_delete_floor \in Nat
      /\ current.log_delete_floor <= current'.log_delete_floor
      /\ commit[c].hi \in Nat /\ commit[c].lo \in Nat
  BY <1>1, Constants DEF TypeOK, Grows, Manifests, Seq0, CommitRec
<1>3. commit[c].hi < tail => hist'[commit[c].hi] = hist[commit[c].hi]
  BY <1>2, Constants DEF Grows, Slot
<1> QED
  BY <1>1, <1>2, <1>3 DEF CommitOk

-----------------------------------------------------------------------------
(* Steps that change one commit call's own state only                      *)

quiet == <<current, log, inflight, deletes, tail, hist, fold, read>>

SettledPc == {"resolve", "floor", "acked", "acked_unchecked", "ambiguous"}

(* Such a step keeps the invariant when the call's new state is sound by   *)
(* itself, and it does not walk away from a slot where its entry is, or    *)
(* may yet become, committed.                                              *)
LEMMA CommitSendStep ==
  ASSUME IInv, NEW c \in Session, NEW w \in CommitRec,
         commit' = [commit EXCEPT ![c] = w],
         UNCHANGED <<current, log, tail, hist, fold, read>>,
         provisioned' \in BOOLEAN,
         inflight' \subseteq (Session \X Slot),
         \A d \in Session, s \in Slot :
           d # c /\ <<d, s>> \in inflight' => <<d, s>> \in inflight,
         deletes' \subseteq Slot, DeletesOk',
         CommitOk(c)',
         \A s \in Slot : <<c, s>> \in inflight' => SendOk(c, s)',
         \A s \in Slot : hist[s] = c /\ s >= current.log_delete_floor
                           => s = w.hi /\ w.pc \in SettledPc
  PROVE  IInv'
<1>1. TypeOK'
  BY DEF IInv, TypeOK, CommitRec
<1>2. Grows
  BY Constants DEF IInv, TypeOK, Grows, Seq0, Manifests
<1>3. (HistOk /\ ManifestOrder /\ DenseLog /\ SnapshotIsFold)'
  BY DEF IInv, HistOk, ManifestOrder, DenseLog, SnapshotIsFold
<1>4. FoldsOk'
  BY <1>1, <1>2, FoldFrame DEF FoldsOk
<1>5. ReadsOk'
  BY <1>1, <1>2, ReadFrame DEF ReadsOk
<1>6. commit \in [Session -> CommitRec] /\ commit'[c] = w
      /\ \A d \in Session : d # c => commit'[d] = commit[d]
  BY DEF IInv, TypeOK, CommitRec
<1>7. CommitsOk'
  BY <1>1, <1>2, <1>6, CommitFrame DEF CommitsOk
<1>8. InflightOk'
  BY <1>6 DEF IInv, InflightOk, SendOk
<1>9. SoleSlot'
  <2> SUFFICES ASSUME NEW d \in Session, NEW s \in Slot, hist[s] = d,
                      ~(s < current.log_delete_floor)
               PROVE  s = commit'[d].hi /\ commit'[d].pc \in SettledPc
    BY DEF SoleSlot, SettledPc
  <2>1. s >= current.log_delete_floor
    BY Constants DEF IInv, TypeOK, Manifests, Seq0, Slot
  <2> QED
    BY <1>6, <2>1 DEF IInv, SoleSlot, SettledPc
<1> QED
  BY <1>1, <1>3, <1>4, <1>5, <1>7, <1>8, <1>9 DEF IInv

(* The same when the step touches nothing but the call.                    *)
LEMMA CommitOnlyStep ==
  ASSUME IInv, NEW c \in Session, NEW w \in CommitRec,
         commit' = [commit EXCEPT ![c] = w],
         UNCHANGED quiet, provisioned' \in BOOLEAN,
         CommitOk(c)',
         \A s \in Slot : <<c, s>> \in inflight => SendOk(c, s)',
         \A s \in Slot : hist[s] = c /\ s >= current.log_delete_floor
                           => s = w.hi /\ w.pc \in SettledPc
  PROVE  IInv'
<1>1. /\ inflight' \subseteq (Session \X Slot) /\ deletes' \subseteq Slot
      /\ DeletesOk'
  BY DEF IInv, TypeOK, DeletesOk, quiet
<1>2. UNCHANGED <<current, log, tail, hist, fold, read>> /\ inflight' = inflight
  BY DEF quiet
<1> QED
  BY <1>1, <1>2, CommitSendStep

(* The call's own record before the step, and what it owes.                *)
LEMMA CommitFacts ==
  ASSUME IInv, NEW c \in Session
  PROVE  /\ commit[c] \in CommitRec
         /\ commit \in [Session -> CommitRec]
         /\ CommitOk(c)
         /\ tail \in Nat /\ tail <= MaxSeq + 1
         /\ current.log_delete_floor \in Nat
         /\ commit[c].pc \notin {"resolve", "ambiguous"} =>
              \A s \in Slot : <<c, s>> \in inflight => s < tail
         /\ commit[c].pc \notin SettledPc =>
              \A s \in Slot : hist[s] = c => ~(s >= current.log_delete_floor)
         /\ \A s \in Slot : hist[s] = c /\ s >= current.log_delete_floor
              => s = commit[c].hi
         /\ \A s \in Slot : log[s] # NoEntry => s < tail
<1>1. commit[c] \in CommitRec /\ commit \in [Session -> CommitRec]
  BY DEF IInv, TypeOK, CommitRec
<1>2. tail \in Nat /\ tail <= MaxSeq + 1 /\ current.log_delete_floor \in Nat
  BY Constants DEF IInv, TypeOK, Manifests, Seq0
<1>3. CommitOk(c)
  BY DEF IInv, CommitsOk
<1>4. commit[c].pc \notin {"resolve", "ambiguous"} =>
              \A s \in Slot : <<c, s>> \in inflight => s < tail
  BY DEF IInv, InflightOk, SendOk
<1>5. \A s \in Slot : hist[s] = c /\ s >= current.log_delete_floor
              => s = commit[c].hi /\ commit[c].pc \in SettledPc
  BY <1>2, Constants DEF IInv, SoleSlot, SettledPc, Slot
<1>6. \A s \in Slot : log[s] # NoEntry => s < tail
  BY <1>2, Constants DEF IInv, DenseLog, Slot
<1> QED
  BY <1>1, <1>2, <1>3, <1>4, <1>5, <1>6

(* A call that has not sent anything to its current slot, or has seen who  *)
(* won it, may move anywhere its own soundness allows.                     *)
LEMMA UnsettledStep ==
  ASSUME IInv, NEW c \in Session, NEW w \in CommitRec,
         commit' = [commit EXCEPT ![c] = w],
         UNCHANGED quiet, provisioned' \in BOOLEAN,
         commit[c].pc \notin SettledPc,
         CommitOk(c)'
  PROVE  IInv'
<1>1. commit[c].pc \notin {"resolve", "ambiguous"}
  BY DEF SettledPc
<1>2. \A s \in Slot : <<c, s>> \in inflight => SendOk(c, s)'
  BY <1>1, CommitFacts DEF SendOk, quiet
<1>3. \A s \in Slot : hist[s] = c /\ s >= current.log_delete_floor
                           => s = w.hi /\ w.pc \in SettledPc
  BY CommitFacts
<1> QED
  BY <1>2, <1>3, CommitOnlyStep

LEMMA ProbeHeadInv ==
  ASSUME IInv, NEW c \in Session, ProbeHead(c)
  PROVE  IInv'
<1> DEFINE w == commit'[c]
<1>1. /\ commit[c] \in CommitRec /\ commit \in [Session -> CommitRec]
      /\ CommitOk(c) /\ tail \in Nat
      /\ \A s \in Slot : log[s] # NoEntry => s < tail
  BY CommitFacts
<1>2. w \in CommitRec /\ commit' = [commit EXCEPT ![c] = w]
  BY <1>1 DEF ProbeHead, CommitRec, CommitPc
<1>3. CommitOk(c)'
  BY <1>1 DEF ProbeHead, CommitOk, CommitRec, Occupied, bucketVars
<1>4. commit[c].pc \notin SettledPc /\ UNCHANGED quiet /\ provisioned' \in BOOLEAN
  BY DEF IInv, TypeOK, bucketVars, quiet, ProbeHead, SettledPc
<1> QED
  BY <1>2, <1>3, <1>4, UnsettledStep

LEMMA GallopHitInv ==
  ASSUME IInv, NEW c \in Session, GallopHit(c)
  PROVE  IInv'
<1> DEFINE w == commit'[c]
<1>1. /\ commit[c] \in CommitRec /\ commit \in [Session -> CommitRec]
      /\ CommitOk(c) /\ tail \in Nat
      /\ \A s \in Slot : log[s] # NoEntry => s < tail
  BY CommitFacts
<1>2. w \in CommitRec /\ commit' = [commit EXCEPT ![c] = w]
  BY <1>1 DEF GallopHit, Goto, CommitRec, CommitPc
<1>3. CommitOk(c)'
  BY <1>1 DEF GallopHit, Goto, CommitOk, CommitRec, Occupied, bucketVars
<1>4. commit[c].pc \notin SettledPc /\ UNCHANGED quiet /\ provisioned' \in BOOLEAN
  BY DEF IInv, TypeOK, bucketVars, quiet, GallopHit, SettledPc
<1> QED
  BY <1>2, <1>3, <1>4, UnsettledStep

LEMMA GallopMissInv ==
  ASSUME IInv, NEW c \in Session, GallopMiss(c)
  PROVE  IInv'
<1> DEFINE w == commit'[c]
<1>1. /\ commit[c] \in CommitRec /\ commit \in [Session -> CommitRec]
      /\ CommitOk(c) /\ tail \in Nat
      /\ \A s \in Slot : log[s] # NoEntry => s < tail
  BY CommitFacts
<1>2. w \in CommitRec /\ commit' = [commit EXCEPT ![c] = w]
  BY <1>1 DEF GallopMiss, Settle, CommitRec, CommitPc
<1>3. CommitOk(c)'
  BY <1>1 DEF GallopMiss, Settle, CommitOk, CommitRec, Occupied, bucketVars
<1>4. commit[c].pc \notin SettledPc /\ UNCHANGED quiet /\ provisioned' \in BOOLEAN
  BY DEF IInv, TypeOK, bucketVars, quiet, GallopMiss, SettledPc
<1> QED
  BY <1>2, <1>3, <1>4, UnsettledStep

LEMMA CreateRejectedInv ==
  ASSUME IInv, NEW c \in Session, CreateRejected(c)
  PROVE  IInv'
<1> DEFINE w == commit'[c]
<1>1. /\ commit[c] \in CommitRec /\ commit \in [Session -> CommitRec]
      /\ CommitOk(c) /\ tail \in Nat
      /\ \A s \in Slot : log[s] # NoEntry => s < tail
  BY CommitFacts
<1>2. w \in CommitRec /\ commit' = [commit EXCEPT ![c] = w]
  BY <1>1 DEF CreateRejected, Goto, CommitRec, CommitPc
<1>3. CommitOk(c)'
  BY <1>1 DEF CreateRejected, Goto, CommitOk, CommitRec, Occupied, bucketVars
<1>4. commit[c].pc \notin SettledPc /\ UNCHANGED quiet /\ provisioned' \in BOOLEAN
  BY DEF IInv, TypeOK, bucketVars, quiet, CreateRejected, SettledPc
<1> QED
  BY <1>2, <1>3, <1>4, UnsettledStep

LEMMA ProbeFailsInv ==
  ASSUME IInv, NEW c \in Session, ProbeFails(c)
  PROVE  IInv'
<1> DEFINE w == commit'[c]
<1>1. /\ commit[c] \in CommitRec /\ commit \in [Session -> CommitRec]
  BY CommitFacts
<1>2. w \in CommitRec /\ commit' = [commit EXCEPT ![c] = w] /\ w.pc = "failed"
  BY <1>1 DEF ProbeFails, Goto, CommitRec, CommitPc
<1>3. CommitOk(c)'
  BY <1>2 DEF CommitOk
<1>4. commit[c].pc \notin SettledPc /\ UNCHANGED quiet /\ provisioned' \in BOOLEAN
  BY DEF IInv, TypeOK, bucketVars, quiet, ProbeFails, SettledPc
<1> QED
  BY <1>2, <1>3, <1>4, UnsettledStep

LEMMA BisectInv ==
  ASSUME IInv, NEW c \in Session, Bisect(c)
  PROVE  IInv'
<1> DEFINE w == commit'[c]
           mid == commit[c].lo + ((commit[c].hi - commit[c].lo) \div 2)
<1>1. /\ commit[c] \in CommitRec /\ commit \in [Session -> CommitRec]
      /\ CommitOk(c) /\ tail \in Nat
      /\ \A s \in Slot : log[s] # NoEntry => s < tail
  BY CommitFacts
<1>2. /\ commit[c].lo \in Nat /\ commit[c].hi \in Nat
      /\ commit[c].hi - commit[c].lo > 1 /\ commit[c].lo < tail
  BY <1>1 DEF Bisect, CommitOk, CommitRec
<1>3. mid \in Nat /\ commit[c].lo < mid /\ mid < commit[c].hi
  BY <1>2
<1>4. /\ commit[c].pc = "bisect"
      /\ IF Occupied(mid)
         THEN commit' = [commit EXCEPT ![c].pc = Settle(mid, commit[c].hi), ![c].lo = mid]
         ELSE commit' = [commit EXCEPT ![c].pc = Settle(commit[c].lo, mid), ![c].hi = mid]
      /\ UNCHANGED <<bucketVars, fold, read>>
  BY DEF Bisect
<1> HIDE DEF mid
<1>5. w \in CommitRec /\ commit' = [commit EXCEPT ![c] = w]
  BY <1>1, <1>3, <1>4 DEF Settle, CommitRec, CommitPc
<1>6. CommitOk(c)'
  BY <1>1, <1>2, <1>3, <1>4 DEF Settle, CommitOk, CommitRec, Occupied, bucketVars
<1>7. commit[c].pc \notin SettledPc /\ UNCHANGED quiet /\ provisioned' \in BOOLEAN
  BY <1>4 DEF IInv, TypeOK, bucketVars, quiet, SettledPc
<1> QED
  BY <1>5, <1>6, <1>7, UnsettledStep

(* Reading the manifest: the probe starts at or below the tail.            *)
LEMMA StartCommitInv ==
  ASSUME IInv, NEW c \in Session, StartCommit(c)
  PROVE  IInv'
<1> DEFINE w == commit'[c]
<1>1. /\ commit[c] \in CommitRec /\ commit \in [Session -> CommitRec]
      /\ CommitOk(c) /\ tail \in Nat
  BY CommitFacts
<1>2. ProbeFloor(current) \in Nat /\ ProbeFloor(current) <= tail
  BY Constants DEF IInv, TypeOK, ManifestOrder, Manifests, Seq0, ProbeFloor, Larger
<1>3. w \in CommitRec /\ commit' = [commit EXCEPT ![c] = w]
      /\ w.pc = "head" /\ w.hi = ProbeFloor(current)
  BY <1>1, <1>2 DEF StartCommit, CommitRec, CommitPc
<1>4. commit[c].pc \notin SettledPc /\ UNCHANGED quiet /\ provisioned' \in BOOLEAN
  BY DEF StartCommit, SettledPc, quiet
<1>5. CommitOk(c)'
  BY <1>1, <1>2, <1>3, <1>4 DEF CommitOk, quiet
<1> QED
  BY <1>3, <1>4, <1>5, UnsettledStep

-----------------------------------------------------------------------------
(* Steps of a call that has sent a create                                  *)

(* An own occupant lies below the tail, and either is the committed entry  *)
(* of its slot or lies below the floor.                                    *)
LEMMA ResolveOwnInv ==
  ASSUME IInv, NEW c \in Session, ResolveOwn(c)
  PROVE  IInv'
<1> DEFINE w == commit'[c]
<1>1. /\ commit[c] \in CommitRec /\ commit \in [Session -> CommitRec]
      /\ CommitOk(c) /\ tail \in Nat /\ current.log_delete_floor \in Nat
      /\ \A s \in Slot : log[s] # NoEntry => s < tail
      /\ \A s \in Slot : hist[s] = c /\ s >= current.log_delete_floor
              => s = commit[c].hi
  BY CommitFacts
<1>2. w \in CommitRec /\ commit' = [commit EXCEPT ![c] = w]
      /\ w.pc = "floor" /\ w.hi = commit[c].hi
  BY <1>1 DEF ResolveOwn, Goto, CommitRec, CommitPc
<1>3. commit[c].hi \in Slot /\ commit[c].hi < tail
  BY <1>1, Constants DEF ResolveOwn, CommitOk
<1>4. UNCHANGED quiet /\ provisioned' \in BOOLEAN
  BY DEF IInv, TypeOK, bucketVars, quiet, ResolveOwn
<1>5. CommitOk(c)'
  BY <1>1, <1>2, <1>3, <1>4, Constants
     DEF ResolveOwn, CommitOk, CommitRec, quiet, IInv, DenseLog, Slot
<1>6. \A s \in Slot : <<c, s>> \in inflight => SendOk(c, s)'
  BY <1>2, <1>3, <1>4 DEF IInv, InflightOk, SendOk, quiet
<1> QED
  BY <1>1, <1>2, <1>4, <1>5, <1>6, CommitOnlyStep DEF SettledPc

(* A foreign occupant: if the call's own entry is committed in that slot,  *)
(* the slot was retired and re-filled, and lies below the floor.           *)
LEMMA ResolveForeignInv ==
  ASSUME IInv, NEW c \in Session, ResolveForeign(c)
  PROVE  IInv'
<1> DEFINE w == commit'[c]
<1>1. /\ commit[c] \in CommitRec /\ commit \in [Session -> CommitRec]
      /\ CommitOk(c) /\ tail \in Nat /\ current.log_delete_floor \in Nat
      /\ \A s \in Slot : log[s] # NoEntry => s < tail
      /\ \A s \in Slot : hist[s] = c /\ s >= current.log_delete_floor
              => s = commit[c].hi
  BY CommitFacts
<1>2. w \in CommitRec /\ commit' = [commit EXCEPT ![c] = w]
  BY <1>1 DEF ResolveForeign, Goto, CommitRec, CommitPc
<1>3. commit[c].hi \in Slot /\ commit[c].hi < tail
  BY <1>1, Constants DEF ResolveForeign, CommitOk
<1>4. UNCHANGED quiet /\ provisioned' \in BOOLEAN
  BY DEF IInv, TypeOK, bucketVars, quiet, ResolveForeign
<1>5. CommitOk(c)'
  BY <1>1, <1>3, <1>4 DEF ResolveForeign, Goto, CommitOk, CommitRec, quiet
<1>6. \A s \in Slot : <<c, s>> \in inflight => SendOk(c, s)'
  BY <1>3, <1>4 DEF IInv, InflightOk, SendOk, quiet
<1>7. \A s \in Slot : ~(hist[s] = c /\ s >= current.log_delete_floor)
  BY <1>1, <1>3, Constants DEF ResolveForeign, IInv, DenseLog, Slot
<1> QED
  BY <1>2, <1>4, <1>5, <1>6, <1>7, CommitOnlyStep

LEMMA ResolveAmbiguousInv ==
  ASSUME IInv, NEW c \in Session, ResolveAmbiguous(c)
  PROVE  IInv'
<1> DEFINE w == commit'[c]
<1>1. /\ commit[c] \in CommitRec /\ commit \in [Session -> CommitRec]
      /\ CommitOk(c)
      /\ \A s \in Slot : hist[s] = c /\ s >= current.log_delete_floor
              => s = commit[c].hi
  BY CommitFacts
<1>2. w \in CommitRec /\ commit' = [commit EXCEPT ![c] = w]
      /\ w.pc = "ambiguous" /\ w.hi = commit[c].hi
  BY <1>1 DEF ResolveAmbiguous, Goto, CommitRec, CommitPc
<1>4. UNCHANGED quiet /\ provisioned' \in BOOLEAN
  BY DEF IInv, TypeOK, bucketVars, quiet, ResolveAmbiguous
<1>5. CommitOk(c)'
  BY <1>2 DEF CommitOk
<1>6. \A s \in Slot : <<c, s>> \in inflight => SendOk(c, s)'
  BY <1>2, <1>4 DEF IInv, InflightOk, SendOk, quiet
<1> QED
  BY <1>1, <1>2, <1>4, <1>5, <1>6, CommitOnlyStep DEF SettledPc

(* The delete-floor check: at or above the floor the entry is the          *)
(* committed one.                                                          *)
LEMMA FloorFacts ==
  ASSUME IInv, NEW c \in Session, commit[c].pc = "floor"
  PROVE  /\ commit[c] \in CommitRec /\ commit \in [Session -> CommitRec]
         /\ commit[c].hi \in Slot /\ commit[c].hi < tail
         /\ hist[commit[c].hi] = c \/ commit[c].hi < current.log_delete_floor
         /\ \A s \in Slot : <<c, s>> \in inflight => s < tail
         /\ \A s \in Slot : hist[s] = c /\ s >= current.log_delete_floor
              => s = commit[c].hi
         /\ certifiedDeleteFloor(current) = current.log_delete_floor
         /\ current.log_delete_floor \in Nat
<1>1. /\ commit[c] \in CommitRec /\ commit \in [Session -> CommitRec]
      /\ CommitOk(c) /\ tail \in Nat /\ tail <= MaxSeq + 1
      /\ commit[c].pc \notin {"resolve", "ambiguous"} =>
              \A s \in Slot : <<c, s>> \in inflight => s < tail
      /\ \A s \in Slot : hist[s] = c /\ s >= current.log_delete_floor
              => s = commit[c].hi
      /\ current.log_delete_floor \in Nat
  BY CommitFacts
<1>2. certifiedDeleteFloor(current) = current.log_delete_floor
  BY Constants DEF IInv, ManifestOrder, TypeOK, Manifests, Seq0,
                   certifiedDeleteFloor, Smaller
<1>3. commit[c].hi \in Slot
  BY <1>1, Constants DEF CommitOk, CommitRec, Slot
<1> QED
  BY <1>1, <1>2, <1>3 DEF CommitOk

LEMMA FloorAcceptInv ==
  ASSUME IInv, NEW c \in Session, FloorAccept(c)
  PROVE  IInv'
<1> DEFINE w == commit'[c]
<1> USE FloorFacts
<1>1. commit[c].pc = "floor"
  BY DEF FloorAccept
<1>2. /\ w \in CommitRec /\ commit' = [commit EXCEPT ![c] = w]
      /\ w.pc = "acked" /\ w.hi = commit[c].hi
  BY <1>1 DEF FloorAccept, Goto, CommitRec, CommitPc
<1>3. UNCHANGED quiet /\ provisioned' \in BOOLEAN
  BY DEF IInv, TypeOK, bucketVars, quiet, FloorAccept
<1>4. hist[w.hi] = c /\ w.hi < tail
  BY <1>1, <1>2, Constants DEF FloorAccept, Slot
<1>5. CommitOk(c)'
  BY <1>2, <1>3, <1>4 DEF CommitOk, quiet
<1>6. \A s \in Slot : <<c, s>> \in inflight => SendOk(c, s)'
  BY <1>1, <1>3 DEF SendOk, quiet
<1> QED
  BY <1>1, <1>2, <1>3, <1>5, <1>6, CommitOnlyStep DEF SettledPc

LEMMA FloorSkipInv ==
  ASSUME IInv, NEW c \in Session, FloorSkip(c)
  PROVE  IInv'
<1> DEFINE w == commit'[c]
<1> USE FloorFacts
<1>1. commit[c].pc = "floor"
  BY DEF FloorSkip
<1>2. /\ w \in CommitRec /\ commit' = [commit EXCEPT ![c] = w]
      /\ w.pc = "acked_unchecked" /\ w.hi = commit[c].hi
  BY <1>1 DEF FloorSkip, Goto, CommitRec, CommitPc
<1>3. UNCHANGED quiet /\ provisioned' \in BOOLEAN
  BY DEF IInv, TypeOK, bucketVars, quiet, FloorSkip
<1>5. CommitOk(c)'
  BY <1>1, <1>2, <1>3 DEF CommitOk, quiet
<1>6. \A s \in Slot : <<c, s>> \in inflight => SendOk(c, s)'
  BY <1>1, <1>3 DEF SendOk, quiet
<1> QED
  BY <1>1, <1>2, <1>3, <1>5, <1>6, CommitOnlyStep DEF SettledPc

LEMMA FloorAbortedInv ==
  ASSUME IInv, NEW c \in Session, FloorAborted(c)
  PROVE  IInv'
<1> DEFINE w == commit'[c]
<1> USE FloorFacts
<1>1. commit[c].pc = "floor"
  BY DEF FloorAborted
<1>2. /\ w \in CommitRec /\ commit' = [commit EXCEPT ![c] = w]
      /\ w.pc = "ambiguous" /\ w.hi = commit[c].hi
  BY <1>1 DEF FloorAborted, Goto, CommitRec, CommitPc
<1>3. UNCHANGED quiet /\ provisioned' \in BOOLEAN
  BY DEF IInv, TypeOK, bucketVars, quiet, FloorAborted
<1>5. CommitOk(c)'
  BY <1>2 DEF CommitOk
<1>6. \A s \in Slot : <<c, s>> \in inflight => SendOk(c, s)'
  BY <1>1, <1>3 DEF SendOk, quiet
<1> QED
  BY <1>1, <1>2, <1>3, <1>5, <1>6, CommitOnlyStep DEF SettledPc

(* The refusal deletes only a slot the floor has passed.                   *)
LEMMA FloorRejectInv ==
  ASSUME IInv, NEW c \in Session, FloorReject(c)
  PROVE  IInv'
<1> DEFINE w == commit'[c]
<1> USE FloorFacts
<1>1. commit[c].pc = "floor" /\ commit[c].hi < current.log_delete_floor
  BY DEF FloorReject
<1>2. /\ w \in CommitRec /\ commit' = [commit EXCEPT ![c] = w]
      /\ w.pc = "ambiguous" /\ w.hi = commit[c].hi
  BY <1>1 DEF FloorReject, Goto, CommitRec, CommitPc
<1>3. /\ UNCHANGED <<current, log, tail, hist, fold, read>>
      /\ inflight' = inflight
      /\ provisioned' \in BOOLEAN /\ inflight' \subseteq (Session \X Slot)
  BY DEF IInv, TypeOK, FloorReject
<1>4. deletes' \subseteq Slot /\ DeletesOk'
  BY <1>1 DEF IInv, TypeOK, DeletesOk, FloorReject
<1>5. CommitOk(c)'
  BY <1>2 DEF CommitOk
<1>6. \A s \in Slot : <<c, s>> \in inflight' => SendOk(c, s)'
  BY <1>1, <1>3 DEF SendOk
<1> HIDE FloorFacts
<1>7. \A s \in Slot : hist[s] = c /\ s >= current.log_delete_floor => s = w.hi
  BY <1>1, <1>2, FloorFacts
<1> QED
  BY <1>2, <1>3, <1>4, <1>5, <1>6, <1>7, CommitSendStep DEF SettledPc

(* A lost or rejected answer: the PUT may still arrive, at the slot the    *)
(* call is about to read back.                                             *)
LEMMA CreateUnresolvedInv ==
  ASSUME IInv, NEW c \in Session, CreateUnresolved(c)
  PROVE  IInv'
<1> DEFINE w == commit'[c]
<1>1. /\ commit[c] \in CommitRec /\ commit \in [Session -> CommitRec]
      /\ CommitOk(c) /\ tail \in Nat
      /\ commit[c].pc \notin {"resolve", "ambiguous"} =>
              \A s \in Slot : <<c, s>> \in inflight => s < tail
      /\ commit[c].pc \notin SettledPc =>
              \A s \in Slot : hist[s] = c => ~(s >= current.log_delete_floor)
  BY CommitFacts
<1>2. /\ w \in CommitRec /\ commit' = [commit EXCEPT ![c] = w]
      /\ w.pc = "resolve" /\ w.hi = commit[c].hi /\ commit[c].pc = "create"
      /\ commit[c].hi \in Slot
  BY <1>1 DEF CreateUnresolved, CommitRec, CommitPc
<1>3. /\ UNCHANGED <<current, log, tail, hist, fold, read>>
      /\ deletes' = deletes /\ deletes' \subseteq Slot /\ DeletesOk'
      /\ provisioned' \in BOOLEAN
  BY DEF IInv, TypeOK, DeletesOk, CreateUnresolved
<1>4. /\ inflight' \subseteq (Session \X Slot)
      /\ \A d \in Session, s \in Slot :
           <<d, s>> \in inflight' =>
             <<d, s>> \in inflight \/ (d = c /\ s = commit[c].hi)
  BY <1>2 DEF IInv, TypeOK, CreateUnresolved, MaybeInflight
<1>5. CommitOk(c)'
  BY <1>1, <1>2, <1>3 DEF CommitOk
<1>6. \A s \in Slot : <<c, s>> \in inflight' => SendOk(c, s)'
  BY <1>1, <1>2, <1>3, <1>4 DEF SendOk, CommitOk, Slot
<1>7. \A s \in Slot : ~(hist[s] = c /\ s >= current.log_delete_floor)
  BY <1>1, <1>2 DEF SettledPc
<1> QED
  BY <1>2, <1>3, <1>4, <1>5, <1>6, <1>7, CommitSendStep

-----------------------------------------------------------------------------
(* Creates that reach the bucket                                           *)

(* The positions as plain numbers.                                         *)
LEMMA Positions ==
  ASSUME IInv
  PROVE  /\ tail \in Nat /\ tail <= MaxSeq + 1
         /\ current.log_delete_floor \in Nat
         /\ current.log_seq_start \in Nat /\ current.tail_hint \in Nat
         /\ \A s \in Slot : s \in Nat /\ s <= MaxSeq
BY Constants DEF IInv, TypeOK, Manifests, Seq0, Slot

(* A create that wins its slot at or below the tail either extends the log *)
(* or re-fills a slot below the floor.                                     *)
LEMMA FillCases ==
  ASSUME IInv, NEW c \in Session, NEW s \in Slot, s <= tail, Fill(c, s)
  PROVE  /\ log' = [log EXCEPT ![s] = c]
         /\ \/ /\ s = tail /\ tail' = tail + 1
               /\ hist' = [hist EXCEPT ![s] = c]
            \/ /\ s < tail /\ s < current.log_delete_floor
               /\ tail' = tail /\ hist' = hist
<1>1. CASE s = tail
  BY <1>1 DEF Fill
<1>2. CASE s # tail
  <2>1. s < tail
    BY <1>2, Constants DEF IInv, TypeOK, Slot, Seq0
  <2>2. s < current.log_delete_floor
    BY <2>1, Positions, Constants DEF Fill, IInv, DenseLog, HistOk
  <2> QED
    BY <1>2, <2>1, <2>2 DEF Fill
<1> QED
  BY <1>1, <1>2

(* Everything but the sends and the calls survives such a create.          *)
LEMMA FillInv ==
  ASSUME IInv, NEW c \in Session, NEW s \in Slot, s <= tail, Fill(c, s),
         UNCHANGED <<provisioned, current, deletes, fold, read>>,
         inflight' \subseteq (Session \X Slot),
         commit' \in [Session -> CommitRec]
  PROVE  /\ TypeOK' /\ HistOk' /\ ManifestOrder' /\ DenseLog' /\ DeletesOk'
         /\ SnapshotIsFold' /\ FoldsOk' /\ ReadsOk' /\ Grows
         /\ tail' \in Nat /\ tail \in Nat
<1>1. /\ log' = [log EXCEPT ![s] = c]
      /\ \/ /\ s = tail /\ tail' = tail + 1
            /\ hist' = [hist EXCEPT ![s] = c]
         \/ /\ s < tail /\ s < current.log_delete_floor
            /\ tail' = tail /\ hist' = hist
  BY FillCases
<1> USE Positions
<1>2. TypeOK'
  <2>1. tail' \in Seq0
    BY <1>1, Constants DEF Seq0
  <2> QED
    BY <1>1, <2>1 DEF IInv, TypeOK, CommitRec
<1>3. Grows /\ tail \in Nat /\ tail' \in Nat
  BY <1>1 DEF IInv, TypeOK, Grows
<1>4. HistOk'
  BY <1>1 DEF IInv, TypeOK, HistOk
<1>5. ManifestOrder'
  BY <1>1, Constants DEF IInv, TypeOK, ManifestOrder, Manifests, Seq0
<1>6. DenseLog'
  <2> SUFFICES ASSUME NEW u \in Slot
               PROVE  /\ current.log_delete_floor <= u /\ u < tail'
                           => log'[u] = hist'[u]
                      /\ u >= tail' => log'[u] = NoEntry
    BY DEF DenseLog
  <2>1. /\ current.log_delete_floor <= u /\ u < tail => log[u] = hist[u]
        /\ u >= tail => log[u] = NoEntry
        /\ log \in [Slot -> Session \cup {NoEntry}]
        /\ hist \in [Slot -> Session \cup {NoEntry}]
    BY DEF IInv, DenseLog, TypeOK
  <2>2. CASE u = s
    BY <1>1, <2>1, <2>2
  <2>3. CASE u # s
    <3>1. log'[u] = log[u] /\ hist'[u] = hist[u]
      BY <1>1, <2>1, <2>3
    <3>2. u < tail <=> u < tail'
      BY <1>1, <2>3
    <3> QED
      BY <2>1, <3>1, <3>2, <1>1
  <2> QED
    BY <2>2, <2>3
<1>7. DeletesOk'
  BY DEF IInv, DeletesOk
<1>8. SnapshotIsFold'
  <2>1. current.log_seq_start \in Nat /\ current.log_seq_start <= tail
    BY Constants DEF IInv, TypeOK, ManifestOrder, Manifests, Seq0
  <2> QED
    BY <1>2, <1>3, <2>1, LiveGrows DEF IInv, SnapshotIsFold
<1>9. FoldsOk' /\ ReadsOk'
  BY <1>2, <1>3, FoldFrame, ReadFrame DEF FoldsOk, ReadsOk
<1> QED
  BY <1>2, <1>3, <1>4, <1>5, <1>6, <1>7, <1>8, <1>9

(* A writer wins its slot.                                                 *)
LEMMA CreateOkInv ==
  ASSUME IInv, NEW c \in Session, CreateOk(c)
  PROVE  IInv'
<1> DEFINE s == commit[c].hi
<1>1. /\ commit[c] \in CommitRec /\ commit \in [Session -> CommitRec]
      /\ CommitOk(c) /\ tail \in Nat
      /\ commit[c].pc \notin {"resolve", "ambiguous"} =>
              \A t \in Slot : <<c, t>> \in inflight => t < tail
      /\ commit[c].pc \notin SettledPc =>
              \A t \in Slot : hist[t] = c => ~(t >= current.log_delete_floor)
      /\ current.log_delete_floor \in Nat
  BY CommitFacts
<1>2. commit[c].pc = "create" /\ s \in Slot /\ s <= tail /\ Fill(c, s)
  BY <1>1 DEF CreateOk, CommitOk
<1>3. /\ UNCHANGED <<provisioned, current, deletes, fold, read>>
      /\ commit'[c].pc = "floor" /\ commit'[c].hi = s
      /\ commit' \in [Session -> CommitRec]
      /\ \A d \in Session : d # c => commit'[d] = commit[d]
  BY <1>1 DEF CreateOk, Goto, CommitRec, CommitPc
<1>4. /\ inflight' \subseteq (Session \X Slot)
      /\ \A d \in Session, t \in Slot :
           <<d, t>> \in inflight' => <<d, t>> \in inflight \/ (d = c /\ t = s)
  BY <1>2 DEF IInv, TypeOK, CreateOk, MaybeInflight
<1>5. /\ \/ /\ s = tail /\ tail' = tail + 1
            /\ hist' = [hist EXCEPT ![s] = c]
         \/ /\ s < tail /\ s < current.log_delete_floor
            /\ tail' = tail /\ hist' = hist
      /\ hist \in [Slot -> Session \cup {NoEntry}]
  BY <1>2, FillCases DEF IInv, TypeOK
<1>6. /\ TypeOK' /\ HistOk' /\ ManifestOrder' /\ DenseLog' /\ DeletesOk'
      /\ SnapshotIsFold' /\ FoldsOk' /\ ReadsOk' /\ Grows
      /\ tail' \in Nat
  BY <1>2, <1>3, <1>4, FillInv
<1>7. CommitsOk'
  <2>1. CommitOk(c)'
    BY <1>1, <1>2, <1>3, <1>5 DEF CommitOk
  <2> QED
    BY <1>3, <1>6, <2>1, CommitFrame DEF CommitsOk
<1>8. InflightOk'
  <2> SUFFICES ASSUME NEW d \in Session, NEW t \in Slot, <<d, t>> \in inflight'
               PROVE  SendOk(d, t)'
    BY DEF InflightOk
  <2>1. CASE d = c
    BY <1>1, <1>2, <1>4, <1>5, <2>1, Constants DEF SendOk, Slot
  <2>2. CASE d # c
    <3>1. SendOk(d, t)
      BY <1>4, <2>2 DEF IInv, InflightOk
    <3> QED
      BY <1>1, <1>3, <1>5, <2>2, <3>1, Constants DEF SendOk, Slot
  <2> QED
    BY <2>1, <2>2
<1>9. SoleSlot'
  <2> SUFFICES ASSUME NEW d \in Session, NEW t \in Slot, hist'[t] = d,
                      ~(t < current.log_delete_floor)
               PROVE  t = commit'[d].hi /\ commit'[d].pc \in SettledPc
    BY <1>3 DEF SoleSlot, SettledPc
  <2>1. t >= current.log_delete_floor
    BY <1>1, Constants DEF Slot
  <2>2. CASE hist[t] = d
    <3>1. d # c
      BY <1>1, <1>2, <2>1, <2>2 DEF SettledPc
    <3> QED
      BY <1>3, <2>2, <3>1 DEF IInv, SoleSlot, SettledPc
  <2>3. CASE hist[t] # d
    <3>1. d = c /\ t = s
      BY <1>5, <2>3
    <3> QED
      BY <1>3, <3>1 DEF SettledPc
  <2> QED
    BY <2>2, <2>3
<1> QED
  BY <1>6, <1>7, <1>8, <1>9 DEF IInv

(* A delayed PUT arrives after its call has read the slot back or given up *)
(* on it.                                                                  *)
LEMMA DeliverInv ==
  ASSUME IInv, NEW c \in Session, NEW s \in Slot, Deliver(c, s)
  PROVE  IInv'
<1>1. /\ SendOk(c, s) /\ tail \in Nat
      /\ commit \in [Session -> CommitRec]
      /\ current.log_delete_floor \in Nat
  BY CommitFacts DEF IInv, InflightOk, Deliver
<1>2. /\ UNCHANGED <<provisioned, current, deletes, fold, read>>
      /\ commit' = commit
      /\ inflight' \subseteq (Session \X Slot)
      /\ inflight' \subseteq inflight
  BY DEF IInv, TypeOK, Deliver
<1>3. CASE Fill(c, s)
  <2>1. s <= tail
    BY <1>1, Constants DEF SendOk, Slot
  <2>2. /\ \/ /\ s = tail /\ tail' = tail + 1
              /\ hist' = [hist EXCEPT ![s] = c]
           \/ /\ s < tail /\ s < current.log_delete_floor
              /\ tail' = tail /\ hist' = hist
        /\ hist \in [Slot -> Session \cup {NoEntry}]
    BY <1>3, <2>1, FillCases DEF IInv, TypeOK
  <2>3. /\ TypeOK' /\ HistOk' /\ ManifestOrder' /\ DenseLog' /\ DeletesOk'
        /\ SnapshotIsFold' /\ FoldsOk' /\ ReadsOk' /\ Grows
        /\ tail' \in Nat
    BY <1>1, <1>2, <1>3, <2>1, FillInv
  <2>4. CommitsOk'
    BY <1>2, <2>3, CommitFrame DEF CommitsOk
  <2>5. InflightOk'
    <3> SUFFICES ASSUME NEW d \in Session, NEW t \in Slot, <<d, t>> \in inflight'
                 PROVE  SendOk(d, t)'
      BY DEF InflightOk
    <3>1. SendOk(d, t)
      BY <1>2 DEF IInv, InflightOk
    <3> QED
      BY <1>1, <1>2, <2>2, <3>1, Constants DEF SendOk, Slot
  <2>6. SoleSlot'
    <3> SUFFICES ASSUME NEW d \in Session, NEW t \in Slot, hist'[t] = d,
                        ~(t < current.log_delete_floor)
                 PROVE  t = commit[d].hi /\ commit[d].pc \in SettledPc
      BY <1>2 DEF SoleSlot, SettledPc
    <3>1. CASE hist[t] = d
      BY <3>1 DEF IInv, SoleSlot, SettledPc
    <3>2. CASE hist[t] # d
      <4>1. d = c /\ t = s /\ s = tail
        BY <2>2, <3>2
      <4> QED
        BY <1>1, <4>1 DEF SendOk, SettledPc
    <3> QED
      BY <3>1, <3>2
  <2> QED
    BY <2>3, <2>4, <2>5, <2>6 DEF IInv
<1>4. CASE UNCHANGED <<log, tail, hist>>
  <2>1. TypeOK' /\ Grows
    BY <1>1, <1>2, <1>4 DEF IInv, TypeOK, Grows, CommitRec
  <2>2. FoldsOk' /\ ReadsOk' /\ CommitsOk'
    BY <1>2, <2>1, FoldFrame, ReadFrame, CommitFrame
       DEF FoldsOk, ReadsOk, CommitsOk
  <2>3. InflightOk'
    BY <1>2, <1>4 DEF IInv, InflightOk, SendOk
  <2> QED
    BY <1>2, <1>4, <2>1, <2>2, <2>3
       DEF IInv, HistOk, ManifestOrder, DenseLog, DeletesOk, SoleSlot,
           SnapshotIsFold
<1> QED
  BY <1>3, <1>4 DEF Deliver

(* A DELETE executes below the floor only.                                 *)
LEMMA DeleteSlotInv ==
  ASSUME IInv, NEW s \in Slot, DeleteSlot(s)
  PROVE  IInv'
<1>1. /\ UNCHANGED <<provisioned, current, inflight, commit, fold, read, tail, hist>>
      /\ log' = [log EXCEPT ![s] = NoEntry]
      /\ deletes' \subseteq deletes /\ s < current.log_delete_floor
  BY DEF IInv, DeletesOk, DeleteSlot
<1>2. TypeOK' /\ Grows
  BY <1>1, Constants DEF IInv, TypeOK, Grows, Manifests, Seq0
<1>3. FoldsOk' /\ ReadsOk' /\ CommitsOk'
  BY <1>1, <1>2, FoldFrame, ReadFrame, CommitFrame
     DEF FoldsOk, ReadsOk, CommitsOk
<1>4. DenseLog'
  BY <1>1, Constants DEF IInv, TypeOK, DenseLog, Slot, Manifests, Seq0
<1> QED
  BY <1>1, <1>2, <1>3, <1>4
     DEF IInv, HistOk, ManifestOrder, DeletesOk, SoleSlot,
         SnapshotIsFold, InflightOk, SendOk

-----------------------------------------------------------------------------
(* Publications of current.json                                            *)

(* A publication that keeps the positions in order and does not move the   *)
(* floor back disturbs nobody else.                                        *)
LEMMA ManifestStep ==
  ASSUME IInv, current' \in Manifests,
         UNCHANGED <<provisioned, log, inflight, commit, read, tail, hist>>,
         fold' \in [Compactor -> FoldRec],
         current'.log_delete_floor >= current.log_delete_floor,
         ManifestOrder', SnapshotIsFold',
         deletes' \subseteq Slot, DeletesOk',
         TypeOK' /\ Grows => FoldsOk'
  PROVE  IInv'
<1>1. TypeOK'
  BY DEF IInv, TypeOK, FoldRec
<1>2. Grows /\ current'.log_delete_floor \in Nat
  BY Positions, Constants DEF Grows, Manifests, Seq0
<1>3. ReadsOk' /\ CommitsOk'
  BY <1>1, <1>2, ReadFrame, CommitFrame DEF ReadsOk, CommitsOk
<1>4. DenseLog' /\ SoleSlot'
  BY <1>2, Positions DEF IInv, DenseLog, SoleSlot, Grows
<1> QED
  BY <1>1, <1>2, <1>3, <1>4 DEF IInv, HistOk, InflightOk, SendOk

(* An acknowledged commit's slot is below the tail, so its tail hint is    *)
(* not past it.                                                            *)
LEMMA AckedBelowTail ==
  ASSUME IInv, NEW c \in Session, commit[c].pc \in {"acked", "acked_unchecked"}
  PROVE  commit[c].hi + 1 \in Nat /\ commit[c].hi + 1 <= tail
BY CommitFacts DEF CommitOk, CommitRec

LEMMA RefreshTailHintInv ==
  ASSUME IInv, NEW c \in Session, RefreshTailHint(c)
  PROVE  IInv'
<1> DEFINE n == commit[c].hi + 1
<1>1. /\ commit[c].pc \in {"acked", "acked_unchecked"}
      /\ current' = [current EXCEPT !.tail_hint = Larger(@, n)]
      /\ UNCHANGED <<provisioned, log, inflight, deletes, commit, fold, read,
                     tail, hist>>
  BY DEF RefreshTailHint
<1>2. n \in Nat /\ n <= tail
  BY <1>1, AckedBelowTail
<1> HIDE DEF n
<1>3. /\ current \in Manifests /\ ManifestOrder /\ SnapshotIsFold
      /\ deletes \subseteq Slot /\ DeletesOk /\ fold \in [Compactor -> FoldRec]
  BY DEF IInv, TypeOK, FoldRec
<1>4. /\ current' \in Manifests
      /\ current'.log_delete_floor = current.log_delete_floor
      /\ current'.log_seq_start = current.log_seq_start
      /\ current'.snapshot = current.snapshot
      /\ current'.tail_hint = Larger(current.tail_hint, n)
  BY <1>1, <1>2, <1>3, Positions, Constants DEF Manifests, Seq0, Larger
<1>5. ManifestOrder' /\ SnapshotIsFold' /\ DeletesOk'
  BY <1>1, <1>2, <1>3, <1>4, Positions
     DEF ManifestOrder, SnapshotIsFold, DeletesOk, Larger
<1>6. TypeOK' /\ Grows => FoldsOk'
  BY <1>1, FoldFrame DEF FoldsOk
<1>7. current'.log_delete_floor >= current.log_delete_floor
  BY <1>4, Positions
<1> QED
  BY <1>1, <1>3, <1>4, <1>5, <1>6, <1>7, ManifestStep

(* Retirement deletes exactly what it has certified.                       *)
LEMMA RetireInv ==
  ASSUME IInv, Retire
  PROVE  IInv'
<1> DEFINE a == RetirableStart(current)
           b == RetirableEnd(current)
<1>1. /\ a < b
      /\ current' = [current EXCEPT !.log_delete_floor = b]
      /\ deletes' = deletes \cup (a..(b - 1))
      /\ UNCHANGED <<provisioned, log, inflight, commit, fold, read, tail, hist>>
  BY DEF Retire
<1>2. /\ current \in Manifests /\ ManifestOrder /\ SnapshotIsFold
      /\ deletes \subseteq Slot /\ DeletesOk /\ fold \in [Compactor -> FoldRec]
  BY DEF IInv, TypeOK, FoldRec
<1>3. /\ a = current.log_delete_floor /\ a \in Nat
      /\ b \in Nat /\ b <= current.log_seq_start
  BY <1>1, <1>2, Positions, Constants
     DEF ManifestOrder, RetirableStart, RetirableEnd, certifiedDeleteFloor,
         Larger, Smaller
<1> HIDE DEF a, b
<1>4. /\ current' \in Manifests
      /\ current'.log_delete_floor = b
      /\ current'.log_seq_start = current.log_seq_start
      /\ current'.snapshot = current.snapshot
      /\ current'.tail_hint = current.tail_hint
  BY <1>1, <1>2, <1>3, Positions, Constants DEF Manifests, Seq0
<1>5. ManifestOrder' /\ SnapshotIsFold'
  BY <1>1, <1>2, <1>3, <1>4 DEF ManifestOrder, SnapshotIsFold
<1>6. b <= MaxSeq + 1
  BY <1>2, <1>3, Positions, Constants DEF ManifestOrder
<1>7. deletes' \subseteq Slot
  BY <1>1, <1>2, <1>3, <1>6, Constants DEF Slot
<1>8. DeletesOk'
  BY <1>1, <1>2, <1>3, <1>4, Positions DEF DeletesOk
<1>9. TypeOK' /\ Grows => FoldsOk'
  BY <1>1, FoldFrame DEF FoldsOk
<1>10. current'.log_delete_floor >= current.log_delete_floor
  BY <1>1, <1>3, <1>4
<1> QED
  BY <1>1, <1>2, <1>4, <1>5, <1>7, <1>8, <1>9, <1>10, ManifestStep

-----------------------------------------------------------------------------
(* compact()                                                               *)

(* A step that changes one compactor only.                                 *)
LEMMA FoldOnlyStep ==
  ASSUME IInv, NEW f \in Compactor, NEW x \in FoldRec,
         fold' = [fold EXCEPT ![f] = x],
         UNCHANGED <<bucketVars, commit, read>>,
         FoldOk(f)'
  PROVE  IInv'
<1>1. /\ fold \in [Compactor -> FoldRec] /\ fold' \in [Compactor -> FoldRec]
      /\ \A g \in Compactor : g # f => fold'[g] = fold[g]
      /\ deletes' \subseteq Slot /\ current' \in Manifests
  BY DEF IInv, TypeOK, FoldRec, bucketVars
<1>2. (ManifestOrder /\ SnapshotIsFold /\ DeletesOk)'
  BY DEF IInv, ManifestOrder, SnapshotIsFold, DeletesOk, bucketVars
<1>3. TypeOK' /\ Grows => FoldsOk'
  BY <1>1, FoldFrame DEF FoldsOk
<1>4. /\ UNCHANGED <<provisioned, log, inflight, commit, read, tail, hist>>
      /\ current'.log_delete_floor >= current.log_delete_floor
  BY Positions DEF bucketVars
<1> QED
  BY <1>1, <1>2, <1>3, <1>4, ManifestStep

(* A compactor's state before the step.                                    *)
LEMMA FoldFacts ==
  ASSUME IInv, NEW f \in Compactor
  PROVE  /\ fold[f] \in FoldRec /\ fold \in [Compactor -> FoldRec]
         /\ FoldOk(f)
         /\ fold[f].base \in Manifests
         /\ fold[f].base.log_seq_start \in Nat /\ fold[f].base.tail_hint \in Nat
         /\ fold[f].base.log_delete_floor \in Nat
         /\ fold[f].tail \in Nat /\ fold[f].pos \in Nat /\ fold[f].end \in Nat
         /\ fold[f].rows \subseteq Session
         /\ IdleFold \in FoldRec
BY Constants DEF IInv, TypeOK, FoldsOk, FoldRec, Manifests, Seq0, IdleFold,
                 ZeroManifest

LEMMA FoldAbortInv ==
  ASSUME IInv, NEW f \in Compactor, FoldAbort(f)
  PROVE  IInv'
<1>1. fold' = [fold EXCEPT ![f] = IdleFold] /\ UNCHANGED <<bucketVars, commit, read>>
  BY DEF FoldAbort, FoldGoto
<1>2. fold'[f].pc = "idle"
  BY <1>1, FoldFacts DEF IdleFold
<1>3. FoldOk(f)'
  BY <1>2 DEF FoldOk
<1> QED
  BY <1>1, <1>3, FoldFacts, FoldOnlyStep

(* Both the hint and the tail of an acknowledged commit are safe places to *)
(* start probing.                                                          *)
LEMMA FoldStartInv ==
  ASSUME IInv, NEW f \in Compactor, FoldStart(f)
  PROVE  IInv'
<1>1. PICK known \in KnownTails :
        fold' = [fold EXCEPT ![f] =
          [IdleFold EXCEPT !.pc = "probe", !.base = current,
                           !.pos = Larger(ProbeFloor(current), known),
                           !.tail = Larger(ProbeFloor(current), known)]]
  BY DEF FoldStart, FoldGoto
<1>2. known \in Nat /\ known <= tail
  BY AckedBelowTail, Positions DEF KnownTails
<1> DEFINE from == Larger(ProbeFloor(current), known)
           x == [IdleFold EXCEPT !.pc = "probe", !.base = current,
                                 !.pos = from, !.tail = from]
<1>3. /\ from \in Nat /\ from <= tail /\ current.log_seq_start <= from
      /\ from \in Seq0
  BY <1>2, Positions, Constants DEF IInv, ManifestOrder, ProbeFloor, Larger, Seq0
<1> HIDE DEF from
<1>4. /\ x.pc = "probe" /\ x.base = current /\ x.pos = from /\ x.tail = from
      /\ x \in FoldRec
  BY <1>3, FoldFacts DEF IdleFold, FoldRec, IInv, TypeOK
<1>5. fold'[f] = x /\ fold' = [fold EXCEPT ![f] = x]
  BY <1>1, FoldFacts DEF from
<1>6. UNCHANGED <<bucketVars, commit, read>>
  BY DEF FoldStart
<1> HIDE DEF x
<1>7. FoldOk(f)'
  BY <1>3, <1>4, <1>5, <1>6
     DEF FoldOk, BaseOk, bucketVars, IInv, ManifestOrder, SnapshotIsFold
<1> QED
  BY <1>4, <1>5, <1>6, <1>7, FoldOnlyStep

(* Whatever the probe found, the state it leads to is sound.               *)
LEMMA AfterProbeOk ==
  ASSUME IInv, NEW f \in Compactor, NEW n \in Nat, NEW exact \in BOOLEAN,
         fold[f].pc = "probe", fold[f].base.log_seq_start <= n, n <= tail,
         fold' = [fold EXCEPT ![f] = AfterProbe(fold[f], n, exact)],
         UNCHANGED <<bucketVars, commit, read>>
  PROVE  IInv'
<1> DEFINE x == fold[f]
           y == AfterProbe(x, n, exact)
           e == Smaller(n, x.base.log_seq_start + MaxFold)
<1> USE FoldFacts, Positions, MaxFoldAssumption
<1>1. /\ BaseOk(x.base) /\ x.base.snapshot = Live(hist, x.base.log_seq_start)
      /\ x.base.snapshot \subseteq Session
  BY DEF FoldOk, Manifests
<1>2. /\ n \in Seq0 /\ e \in Nat /\ e \in Seq0 /\ e <= n
      /\ x.base.log_seq_start <= e /\ 0 \in Seq0
      /\ x.base.log_seq_start \in Seq0
  BY Constants DEF Seq0, Smaller
<1>3. CASE n - x.base.log_seq_start >= MinToCompact
  <2>1. y = [x EXCEPT !.pc = "walk", !.pos = x.base.log_seq_start, !.tail = n,
                      !.rows = x.base.snapshot, !.end = e]
    BY <1>3 DEF AfterProbe
  <2> HIDE DEF e, y
  <2>2. /\ y \in FoldRec /\ y.pc = "walk" /\ y.pos = x.base.log_seq_start
        /\ y.tail = n /\ y.rows = x.base.snapshot /\ y.end = e /\ y.base = x.base
    BY <1>1, <1>2, <2>1 DEF FoldRec
  <2>3. fold'[f] = y /\ fold' = [fold EXCEPT ![f] = y]
    BY DEF y
  <2>4. FoldOk(f)'
    BY <1>1, <1>2, <2>2, <2>3 DEF FoldOk, BaseOk, RowsOk, bucketVars
  <2> QED
    BY <2>2, <2>3, <2>4, FoldOnlyStep
<1>4. CASE ~(n - x.base.log_seq_start >= MinToCompact) /\ exact
  <2>1. y = IdleFold
    BY <1>4 DEF AfterProbe
  <2>2. fold' = [fold EXCEPT ![f] = IdleFold] /\ fold'[f].pc = "idle"
    BY <2>1 DEF IdleFold
  <2>3. FoldOk(f)'
    BY <2>2 DEF FoldOk
  <2> QED
    BY <2>2, <2>3, FoldOnlyStep
<1>5. CASE ~(n - x.base.log_seq_start >= MinToCompact) /\ ~exact
  <2>1. y = [x EXCEPT !.pc = "checkpoint", !.pos = 0, !.tail = n]
    BY <1>5 DEF AfterProbe
  <2> HIDE DEF e, y
  <2>2. /\ y \in FoldRec /\ y.pc = "checkpoint" /\ y.tail = n /\ y.base = x.base
    BY <1>1, <1>2, <2>1 DEF FoldRec
  <2>3. fold'[f] = y /\ fold' = [fold EXCEPT ![f] = y]
    BY DEF y
  <2>4. FoldOk(f)'
    BY <1>1, <1>2, <2>2, <2>3 DEF FoldOk, BaseOk, RowsOk, bucketVars
  <2> QED
    BY <2>2, <2>3, <2>4, FoldOnlyStep
<1> QED
  BY <1>3, <1>4, <1>5

(* An occupied slot lies below the tail.                                   *)
LEMMA OccupiedBelowTail ==
  ASSUME IInv, NEW n \in Nat, Occupied(n)
  PROVE  n \in Slot /\ n < tail /\ n + 1 <= tail
BY Positions DEF Occupied, IInv, DenseLog

LEMMA FoldProbeInv ==
  ASSUME IInv, NEW f \in Compactor, FoldProbe(f)
  PROVE  IInv'
<1> DEFINE x == fold[f]
<1> USE FoldFacts, Positions
<1>1. /\ x.pc = "probe" /\ UNCHANGED <<bucketVars, commit, read>>
      /\ x.base.log_seq_start <= x.tail /\ x.tail <= tail /\ BaseOk(x.base)
      /\ x.base.snapshot = Live(hist, x.base.log_seq_start)
  BY DEF FoldProbe, FoldOk
<1>2. CASE fold' = [fold EXCEPT ![f] = AfterProbe(x, x.tail, TRUE)]
  BY <1>1, <1>2, AfterProbeOk
<1>3. CASE /\ Occupied(x.tail)
           /\ fold' = [fold EXCEPT ![f] = AfterProbe(x, x.tail + 1, FALSE)]
  <2>1. x.tail + 1 \in Nat /\ x.tail + 1 <= tail /\ x.base.log_seq_start <= x.tail + 1
    BY <1>1, <1>3, OccupiedBelowTail
  <2> QED
    BY <1>1, <1>3, <2>1, AfterProbeOk
<1>4. CASE /\ Occupied(x.tail)
           /\ fold' = [fold EXCEPT ![f] = [x EXCEPT !.tail = x.tail + 1]]
  <2> DEFINE y == [x EXCEPT !.tail = x.tail + 1]
  <2>1. x.tail + 1 \in Nat /\ x.tail + 1 <= tail /\ x.tail + 1 \in Seq0
    BY <1>1, <1>4, OccupiedBelowTail, Constants DEF Seq0
  <2>2. /\ y \in FoldRec /\ y.pc = "probe" /\ y.tail = x.tail + 1
        /\ y.base = x.base
    BY <1>1, <2>1 DEF FoldRec
  <2>3. fold'[f] = y /\ fold' = [fold EXCEPT ![f] = y]
    BY <1>4
  <2> HIDE DEF y
  <2>4. FoldOk(f)'
    BY <1>1, <2>1, <2>2, <2>3 DEF FoldOk, BaseOk, bucketVars
  <2> QED
    BY <1>1, <2>2, <2>3, <2>4, FoldOnlyStep
<1> QED
  BY <1>2, <1>3, <1>4 DEF FoldProbe, FoldGoto

(* Folding one more entry of the slice.  Above the floor the object read   *)
(* is the committed entry; below it the rows are owed nothing, because the *)
(* CAS will fail.                                                          *)
LEMMA FoldWalkInv ==
  ASSUME IInv, NEW f \in Compactor, FoldWalk(f)
  PROVE  IInv'
<1> DEFINE x == fold[f]
           e == log[x.pos]
<1> USE FoldFacts, Positions
<1>1. /\ x.pc = "walk" /\ x.pos < x.end /\ Occupied(x.pos)
      /\ UNCHANGED <<bucketVars, commit, read>>
      /\ x.base.log_seq_start <= x.pos /\ x.end <= x.tail /\ x.tail <= tail
      /\ x.base.log_seq_start <= x.tail
      /\ BaseOk(x.base) /\ RowsOk(x.base, x.pos, x.rows)
  BY DEF FoldWalk, FoldOk
<1>2. /\ x.pos \in Slot /\ x.pos < tail /\ e \in Session
      /\ x.pos + 1 \in Nat /\ x.pos + 1 \in Seq0 /\ x.pos + 1 <= x.end
      /\ x.pos \in Seq0
  BY <1>1, OccupiedBelowTail, Constants DEF Occupied, IInv, TypeOK, Seq0
<1>3. CASE fold' = [fold EXCEPT ![f] = IdleFold]
  <2>1. fold'[f].pc = "idle"
    BY <1>3 DEF IdleFold
  <2>2. FoldOk(f)'
    BY <2>1 DEF FoldOk
  <2> QED
    BY <1>1, <1>3, <2>2, FoldOnlyStep
<1>4. CASE fold' = [fold EXCEPT ![f] = [x EXCEPT !.end = x.pos]]
  <2> DEFINE y == [x EXCEPT !.end = x.pos]
  <2>1. /\ y \in FoldRec /\ y.pc = "walk" /\ y.tail = x.tail /\ y.base = x.base
        /\ y.pos = x.pos /\ y.end = x.pos /\ y.rows = x.rows
    BY <1>1, <1>2 DEF FoldRec
  <2>2. fold'[f] = y /\ fold' = [fold EXCEPT ![f] = y]
    BY <1>4
  <2> HIDE DEF y
  <2>3. FoldOk(f)'
    BY <1>1, <1>2, <2>1, <2>2 DEF FoldOk, BaseOk, RowsOk, bucketVars
  <2> QED
    BY <1>1, <2>1, <2>2, <2>3, FoldOnlyStep
<1>5. CASE fold' = [fold EXCEPT ![f] = [x EXCEPT !.rows = FoldOne(x.rows, e),
                                                 !.pos = x.pos + 1]]
  <2> DEFINE y == [x EXCEPT !.rows = FoldOne(x.rows, e), !.pos = x.pos + 1]
  <2>1. FoldOne(x.rows, e) \subseteq Session
    BY <1>2 DEF FoldOne
  <2>2. /\ y \in FoldRec /\ y.pc = "walk" /\ y.tail = x.tail /\ y.base = x.base
        /\ y.pos = x.pos + 1 /\ y.end = x.end /\ y.rows = FoldOne(x.rows, e)
    BY <1>1, <1>2, <2>1 DEF FoldRec
  <2>3. fold'[f] = y /\ fold' = [fold EXCEPT ![f] = y]
    BY <1>5
  <2>4. ASSUME current.log_delete_floor <= x.base.log_seq_start
        PROVE  FoldOne(x.rows, e) = Live(hist, x.pos + 1)
    <3>1. e = hist[x.pos] /\ x.rows = Live(hist, x.pos)
      BY <1>1, <1>2, <2>4 DEF IInv, DenseLog, RowsOk
    <3>2. \A s \in 0..x.pos : hist[s] \in Session
      BY <1>2, Constants DEF IInv, HistOk, Slot
    <3> QED
      BY <3>1, <3>2, LiveStep
  <2> HIDE DEF y, e
  <2>5. current'.log_delete_floor <= y.base.log_seq_start
          => y.rows = Live(hist', y.pos)
    BY <1>1, <2>2, <2>4 DEF bucketVars
  <2>6. FoldOk(f)'
    BY <1>1, <1>2, <2>2, <2>3, <2>5 DEF FoldOk, BaseOk, RowsOk, bucketVars
  <2> QED
    BY <1>1, <2>2, <2>3, <2>6, FoldOnlyStep
<1> QED
  BY <1>3, <1>4, <1>5 DEF FoldWalk, FoldGoto

(* A compactor that publishes does so over the manifest it read, and goes  *)
(* idle.                                                                   *)
LEMMA PublishStep ==
  ASSUME IInv, NEW f \in Compactor, NEW m \in Manifests, current' = m,
         fold' = [fold EXCEPT ![f] = IdleFold],
         UNCHANGED <<provisioned, log, inflight, deletes, commit, read, tail, hist>>,
         m.log_delete_floor = current.log_delete_floor,
         m.log_delete_floor <= m.log_seq_start, m.log_seq_start <= m.tail_hint,
         m.tail_hint <= tail, m.snapshot = Live(hist, m.log_seq_start)
  PROVE  IInv'
<1> USE FoldFacts
<1>1. fold'[f].pc = "idle" /\ fold' \in [Compactor -> FoldRec]
      /\ \A g \in Compactor : g # f => fold'[g] = fold[g]
  BY DEF IdleFold
<1>2. FoldOk(f)'
  BY <1>1 DEF FoldOk
<1>3. TypeOK' /\ Grows => FoldsOk'
  BY <1>1, <1>2, FoldFrame DEF FoldsOk
<1>4. ManifestOrder' /\ SnapshotIsFold'
  BY DEF ManifestOrder, SnapshotIsFold
<1>5. DeletesOk' /\ deletes' \subseteq Slot
  BY DEF IInv, DeletesOk, TypeOK
<1>6. current'.log_delete_floor >= current.log_delete_floor
  BY Positions
<1> QED
  BY <1>1, <1>3, <1>4, <1>5, <1>6, ManifestStep

LEMMA FoldCheckpointInv ==
  ASSUME IInv, NEW f \in Compactor, FoldCheckpoint(f)
  PROVE  IInv'
<1> DEFINE x == fold[f]
           m == [current EXCEPT !.tail_hint = Larger(@, x.tail)]
<1> USE FoldFacts, Positions
<1>1. /\ x.pc = "checkpoint" /\ current = x.base /\ current' = m
      /\ fold' = [fold EXCEPT ![f] = IdleFold]
      /\ UNCHANGED <<provisioned, log, inflight, deletes, commit, read, tail, hist>>
  BY DEF FoldCheckpoint, FoldGoto
<1>2. x.tail <= tail /\ ManifestOrder /\ SnapshotIsFold /\ current \in Manifests
      /\ Larger(current.tail_hint, x.tail) \in Seq0
  BY <1>1, Constants DEF IInv, FoldOk, TypeOK, FoldRec, Larger, Manifests
<1>3. /\ m \in Manifests /\ m.log_delete_floor = current.log_delete_floor
      /\ m.log_seq_start = current.log_seq_start /\ m.snapshot = current.snapshot
      /\ m.tail_hint = Larger(current.tail_hint, x.tail)
  BY <1>2 DEF Manifests
<1> HIDE DEF m
<1>4. /\ m.log_delete_floor <= m.log_seq_start /\ m.log_seq_start <= m.tail_hint
      /\ m.tail_hint <= tail /\ m.snapshot = Live(hist, m.log_seq_start)
  BY <1>2, <1>3 DEF ManifestOrder, SnapshotIsFold, Larger
<1> QED
  BY <1>1, <1>3, <1>4, PublishStep

(* If-Match is what makes the fold right: the manifest is still the one    *)
(* the slice was walked under, so the floor has not overtaken it.          *)
LEMMA FoldPublishInv ==
  ASSUME IInv, NEW f \in Compactor, FoldPublish(f)
  PROVE  IInv'
<1> DEFINE x == fold[f]
           m == [current EXCEPT !.snapshot = x.rows, !.log_seq_start = x.end,
                                !.tail_hint = Larger(@, x.tail)]
<1> USE FoldFacts, Positions
<1>1. /\ x.pc = "walk" /\ x.pos = x.end /\ current = x.base /\ current' = m
      /\ fold' = [fold EXCEPT ![f] = IdleFold]
      /\ UNCHANGED <<provisioned, log, inflight, deletes, commit, read, tail, hist>>
  BY DEF FoldPublish, FoldGoto
<1>2. /\ x.tail <= tail /\ ManifestOrder /\ current \in Manifests
      /\ x.base.log_seq_start <= x.end /\ x.end <= x.tail
      /\ RowsOk(x.base, x.end, x.rows)
      /\ Larger(current.tail_hint, x.tail) \in Seq0 /\ x.end \in Seq0
  BY <1>1, Constants DEF IInv, FoldOk, TypeOK, FoldRec, Larger, Manifests
<1>3. /\ m \in Manifests /\ m.log_delete_floor = current.log_delete_floor
      /\ m.log_seq_start = x.end /\ m.snapshot = x.rows
      /\ m.tail_hint = Larger(current.tail_hint, x.tail)
  BY <1>2 DEF Manifests
<1> HIDE DEF m
<1>4. /\ m.log_delete_floor <= m.log_seq_start /\ m.log_seq_start <= m.tail_hint
      /\ m.tail_hint <= tail /\ m.snapshot = Live(hist, m.log_seq_start)
  BY <1>1, <1>2, <1>3 DEF ManifestOrder, RowsOk, Larger
<1> QED
  BY <1>1, <1>3, <1>4, PublishStep

-----------------------------------------------------------------------------
(* runReadRows                                                             *)

(* A step that changes one reader only.                                    *)
LEMMA ReadOnlyStep ==
  ASSUME IInv, NEW r \in Reader, NEW x \in ReadRec,
         read' = [read EXCEPT ![r] = x],
         UNCHANGED <<bucketVars, commit, fold>>,
         ReadOk(r)'
  PROVE  IInv'
<1>1. /\ read \in [Reader -> ReadRec] /\ read' \in [Reader -> ReadRec]
      /\ \A q \in Reader : q # r => read'[q] = read[q]
  BY DEF IInv, TypeOK, ReadRec
<1>2. TypeOK' /\ Grows
  BY <1>1, Positions DEF IInv, TypeOK, ReadRec, Grows, bucketVars
<1>3. ReadsOk' /\ FoldsOk' /\ CommitsOk'
  BY <1>1, <1>2, ReadFrame, FoldFrame, CommitFrame
     DEF ReadsOk, FoldsOk, CommitsOk, bucketVars
<1> QED
  BY <1>2, <1>3
     DEF IInv, HistOk, ManifestOrder, DenseLog, DeletesOk, InflightOk, SendOk,
         SoleSlot, SnapshotIsFold, bucketVars

(* A reader's state before the step.                                       *)
LEMMA ReadFacts ==
  ASSUME IInv, NEW r \in Reader
  PROVE  /\ read[r] \in ReadRec /\ read \in [Reader -> ReadRec]
         /\ ReadOk(r)
         /\ read[r].base \in Manifests
         /\ read[r].base.log_seq_start \in Nat /\ read[r].base.tail_hint \in Nat
         /\ read[r].base.log_delete_floor \in Nat
         /\ read[r].need \in Nat /\ read[r].pos \in Nat
         /\ read[r].rows \subseteq Session
BY Constants DEF IInv, TypeOK, ReadsOk, ReadRec, Manifests, Seq0

LEMMA ReadStartInv ==
  ASSUME IInv, NEW r \in Reader, ReadStart(r)
  PROVE  IInv'
<1> USE ReadFacts, Positions
<1>1. UNCHANGED <<bucketVars, commit, fold>>
  BY DEF ReadStart
<1>2. CASE provisioned
  <2> DEFINE x == [pc |-> "scan", base |-> current,
                   pos |-> current.log_seq_start, rows |-> current.snapshot,
                   need |-> tail]
  <2>1. read' = [read EXCEPT ![r] = x] /\ read'[r] = x
    BY <1>2 DEF ReadStart
  <2>2. /\ x \in ReadRec /\ x.pc = "scan" /\ x.base = current
        /\ x.pos = current.log_seq_start /\ x.rows = current.snapshot
        /\ x.need = tail
    BY DEF IInv, TypeOK, ReadRec, Manifests
  <2> HIDE DEF x
  <2>3. BaseOk(current) /\ RowsOk(current, current.log_seq_start, current.snapshot)
        /\ current.log_seq_start <= tail
    BY DEF BaseOk, RowsOk, IInv, ManifestOrder, SnapshotIsFold
  <2>4. ReadOk(r)'
    BY <1>1, <2>1, <2>2, <2>3 DEF ReadOk, BaseOk, RowsOk, bucketVars
  <2> QED
    BY <1>1, <2>1, <2>2, <2>4, ReadOnlyStep
<1>3. CASE ~provisioned
  <2> DEFINE x == [IdleRead EXCEPT !.pc = "done"]
  <2>1. read' = [read EXCEPT ![r] = x] /\ read'[r] = x
    BY <1>3 DEF ReadStart
  <2>2. /\ x \in ReadRec /\ x.pc = "done" /\ x.base = ZeroManifest
        /\ x.pos = 0 /\ x.rows = {} /\ x.need = 0
    BY Constants DEF IdleRead, ReadRec, Manifests, ZeroManifest, Seq0
  <2> HIDE DEF x
  <2>3. Live(hist, 0) = {}
    BY DEF Live
  <2>4. /\ x.base.log_seq_start = 0 /\ x.base.tail_hint = 0
        /\ x.base.log_delete_floor = 0
    BY <2>2 DEF ZeroManifest
  <2>5. ReadOk(r)'
    <3>1. x.rows = Live(hist', x.pos)
      BY <1>1, <2>2, <2>3 DEF bucketVars
    <3>2. /\ tail' = tail /\ x.base.tail_hint <= tail' /\ x.pos <= tail'
          /\ x.need <= tail' /\ x.need <= x.pos
      BY <1>1, <2>2, <2>4 DEF bucketVars
    <3> QED
      BY <2>1, <2>2, <2>4, <3>1, <3>2 DEF ReadOk, BaseOk, RowsOk
  <2> QED
    BY <1>1, <2>1, <2>2, <2>5, ReadOnlyStep
<1> QED
  BY <1>2, <1>3

LEMMA ReadEntryInv ==
  ASSUME IInv, NEW r \in Reader, ReadEntry(r)
  PROVE  IInv'
<1> DEFINE x == read[r]
           e == log[x.pos]
           y == [x EXCEPT !.rows = FoldOne(x.rows, e), !.pos = x.pos + 1]
<1> USE ReadFacts, Positions
<1>1. /\ x.pc = "scan" /\ Occupied(x.pos)
      /\ UNCHANGED <<bucketVars, commit, fold>>
      /\ read' = [read EXCEPT ![r] = y] /\ read'[r] = y
  BY DEF ReadEntry
<1>2. /\ x.base.log_seq_start <= x.pos /\ BaseOk(x.base) /\ x.need <= tail
      /\ RowsOk(x.base, x.pos, x.rows)
  BY <1>1 DEF ReadOk
<1>3. /\ x.pos \in Slot /\ x.pos < tail /\ e \in Session
      /\ x.pos + 1 \in Nat /\ x.pos + 1 \in Seq0 /\ x.pos + 1 <= tail
  BY <1>1, OccupiedBelowTail, Constants DEF Occupied, IInv, TypeOK, Seq0
<1>4. FoldOne(x.rows, e) \subseteq Session
  BY <1>3 DEF FoldOne
<1>5. /\ y \in ReadRec /\ y.pc = "scan" /\ y.base = x.base /\ y.need = x.need
      /\ y.pos = x.pos + 1 /\ y.rows = FoldOne(x.rows, e)
  BY <1>1, <1>3, <1>4 DEF ReadRec
<1>6. ASSUME current.log_delete_floor <= x.base.log_seq_start
      PROVE  FoldOne(x.rows, e) = Live(hist, x.pos + 1)
  <2>1. e = hist[x.pos] /\ x.rows = Live(hist, x.pos)
    BY <1>2, <1>3, <1>6 DEF IInv, DenseLog, RowsOk
  <2>2. \A s \in 0..x.pos : hist[s] \in Session
    BY <1>3, Constants DEF IInv, HistOk, Slot
  <2> QED
    BY <2>1, <2>2, LiveStep
<1> HIDE DEF y, e
<1>7. current'.log_delete_floor <= y.base.log_seq_start
        => y.rows = Live(hist', y.pos)
  BY <1>1, <1>5, <1>6 DEF bucketVars
<1>8. ReadOk(r)'
  BY <1>1, <1>2, <1>3, <1>5, <1>7 DEF ReadOk, BaseOk, RowsOk, bucketVars
<1> QED
  BY <1>1, <1>5, <1>8, ReadOnlyStep

LEMMA ReadHoleInv ==
  ASSUME IInv, NEW r \in Reader, ReadHole(r)
  PROVE  IInv'
<1> DEFINE y == [read[r] EXCEPT !.pc = "error"]
<1> USE ReadFacts
<1>1. /\ UNCHANGED <<bucketVars, commit, fold>>
      /\ read' = [read EXCEPT ![r] = y] /\ read'[r] = y
  BY DEF ReadHole
<1>2. y \in ReadRec /\ y.pc = "error"
  BY DEF ReadRec
<1> HIDE DEF y
<1>3. ReadOk(r)'
  BY <1>1, <1>2 DEF ReadOk
<1> QED
  BY <1>1, <1>2, <1>3, ReadOnlyStep

(* At or above the floor, the first empty slot is the tail.                *)
LEMMA ReadEndInv ==
  ASSUME IInv, NEW r \in Reader, ReadEnd(r)
  PROVE  IInv'
<1> DEFINE x == read[r]
           y == [x EXCEPT !.pc = "done"]
<1> USE ReadFacts, Positions
<1>1. /\ x.pc = "scan" /\ ~Occupied(x.pos)
      /\ UNCHANGED <<bucketVars, commit, fold>>
      /\ read' = [read EXCEPT ![r] = y] /\ read'[r] = y
  BY DEF ReadEnd
<1>2. /\ y \in ReadRec /\ y.pc = "done" /\ y.base = x.base /\ y.need = x.need
      /\ y.pos = x.pos /\ y.rows = x.rows
  BY DEF ReadRec
<1>3. /\ x.base.log_seq_start <= x.pos /\ x.pos <= tail /\ BaseOk(x.base)
      /\ x.need <= tail /\ RowsOk(x.base, x.pos, x.rows)
  BY <1>1 DEF ReadOk
<1>4. ASSUME current.log_delete_floor <= x.base.log_seq_start
      PROVE  x.need <= x.pos
  <2>1. ASSUME x.pos < tail PROVE FALSE
    <3>1. x.pos \in Slot
      BY <2>1, Constants DEF Slot
    <3>2. log[x.pos] = hist[x.pos] /\ hist[x.pos] \in Session
      BY <1>3, <1>4, <2>1, <3>1 DEF IInv, DenseLog, HistOk
    <3> QED
      BY <1>1, <3>1, <3>2, Constants DEF Occupied
  <2> QED
    BY <1>3, <2>1
<1> HIDE DEF y
<1>5. ReadOk(r)'
  BY <1>1, <1>2, <1>3, <1>4 DEF ReadOk, BaseOk, RowsOk, bucketVars
<1> QED
  BY <1>1, <1>2, <1>5, ReadOnlyStep

-----------------------------------------------------------------------------
(* The theorems                                                            *)

LEMMA InitInv == Init => IInv
<1> SUFFICES ASSUME Init PROVE IInv
  OBVIOUS
<1> USE Constants
<1>1. 0 \in Seq0 /\ ZeroManifest \in Manifests
  BY DEF Seq0, ZeroManifest, Manifests
<1>2. IdleFold \in FoldRec /\ IdleRead \in ReadRec /\ IdleCommit \in CommitRec
  BY <1>1 DEF IdleFold, FoldRec, IdleRead, ReadRec, IdleCommit, CommitRec,
              CommitPc
<1>3. TypeOK
  BY <1>1, <1>2 DEF Init, TypeOK, FoldRec, ReadRec, CommitRec
<1>4. HistOk /\ ManifestOrder /\ DenseLog /\ DeletesOk /\ InflightOk
  BY DEF Init, HistOk, ManifestOrder, DenseLog, DeletesOk, InflightOk,
         ZeroManifest, Slot
<1>5. CommitsOk
  BY DEF Init, CommitsOk, CommitOk, IdleCommit
<1>6. SoleSlot
  BY DEF Init, SoleSlot
<1>7. SnapshotIsFold
  BY DEF Init, SnapshotIsFold, ZeroManifest, Live
<1>8. FoldsOk /\ ReadsOk
  BY DEF Init, FoldsOk, FoldOk, ReadsOk, ReadOk, IdleFold, IdleRead
<1> QED
  BY <1>3, <1>4, <1>5, <1>6, <1>7, <1>8 DEF IInv

(* Every step of every actor keeps the invariant.                          *)
LEMMA NextInv == IInv /\ [Next]_vars => IInv'
<1> SUFFICES ASSUME IInv, [Next]_vars PROVE IInv'
  OBVIOUS
<1>1. ASSUME NEW c \in Session, CommitStep(c) PROVE IInv'
  BY <1>1, ProbeHeadInv, GallopHitInv, GallopMissInv, BisectInv, CreateOkInv,
     CreateRejectedInv, CreateUnresolvedInv, ResolveOwnInv, ResolveForeignInv,
     ResolveAmbiguousInv, FloorAcceptInv, FloorRejectInv, FloorSkipInv,
     FloorAbortedInv, ProbeFailsInv
     DEF CommitStep, CommitAnswered
<1>2. ASSUME NEW f \in Compactor, FoldStep(f) PROVE IInv'
  BY <1>2, FoldStartInv, FoldProbeInv, FoldCheckpointInv, FoldWalkInv,
     FoldPublishInv, FoldAbortInv DEF FoldStep
<1>3. ASSUME NEW r \in Reader, ReadStep(r) PROVE IInv'
  BY <1>3, ReadStartInv, ReadEntryInv, ReadHoleInv, ReadEndInv DEF ReadStep
<1>4. CASE UNCHANGED vars
  BY <1>4 DEF vars, IInv, TypeOK, HistOk, ManifestOrder, DenseLog, DeletesOk,
              InflightOk, SendOk, CommitsOk, CommitOk, SoleSlot,
              SnapshotIsFold, FoldsOk, FoldOk, ReadsOk, ReadOk, BaseOk, RowsOk
<1> QED
  BY <1>1, <1>2, <1>3, <1>4, StartCommitInv, RefreshTailHintInv, DeliverInv,
     DeleteSlotInv, RetireInv DEF Next

(* The invariant of CommitLogInv holds in every state any number of        *)
(* writers, compactors, readers and retirement passes can reach.           *)
THEOREM Invariant == Spec => []IInv
BY InitInv, NextInv, PTL DEF Spec

(* Every variable keeps its type; in particular no probe, hint or fold     *)
(* position leaves the log.                                                *)
THEOREM TypeCorrect == Spec => []TypeOK
<1>1. IInv => TypeOK
  BY DEF IInv
<1> QED
  BY <1>1, Invariant, PTL

(* No publication lets delete floor, live floor, hint and tail cross.      *)
THEOREM PositionsInOrder == Spec => []ManifestOrder
<1>1. IInv => ManifestOrder
  BY DEF IInv
<1> QED
  BY <1>1, Invariant, PTL

(* The log has neither holes nor overwrites above the delete floor.        *)
THEOREM LogIsDense == Spec => []DenseLog
<1>1. IInv => DenseLog
  BY DEF IInv
<1> QED
  BY <1>1, Invariant, PTL

(* A checked acknowledgement is never given for an entry that a concurrent *)
(* retirement has put out of sight.                                        *)
THEOREM AcksAreCommitted == Spec => []AckedIsCommitted
<1>1. IInv => AckedIsCommitted
  BY DEF IInv, AckedIsCommitted, CommitsOk, CommitOk
<1> QED
  BY <1>1, Invariant, PTL

(* Lost answers and delayed PUTs never leave one commit twice in the part  *)
(* of the log that is not yet retired.                                     *)
THEOREM NoDuplicateLiveEntry == Spec => []OneLiveEntryPerCommit
<1>1. IInv => OneLiveEntryPerCommit
  <2> SUFFICES ASSUME IInv, NEW s \in Slot, NEW t \in Slot, s < t,
                      hist[s] # NoEntry, hist[s] = hist[t]
               PROVE  s < current.log_delete_floor
    BY DEF OneLiveEntryPerCommit
  <2>1. hist[s] \in Session
    BY DEF IInv, TypeOK
  <2>2. s \in Nat /\ t \in Nat /\ current.log_delete_floor \in Nat
    BY Positions
  <2> QED
    BY <2>1, <2>2 DEF IInv, SoleSlot
<1> QED
  BY <1>1, Invariant, PTL

(* A definitive failure leaves nothing behind that could still be folded.  *)
THEOREM FailuresAreNotLive == Spec => []FailedIsNotLive
<1>1. IInv => FailedIsNotLive
  BY DEF IInv, FailedIsNotLive, SoleSlot
<1> QED
  BY <1>1, Invariant, PTL

(* A published snapshot is the fold of the log prefix it stands for,       *)
(* however slow the compactor and whatever was retired meanwhile.          *)
THEOREM SnapshotsAreFolds == Spec => []SnapshotIsFold
<1>1. IInv => SnapshotIsFold
  BY DEF IInv
<1> QED
  BY <1>1, Invariant, PTL

(* A full scan that retirement does not overtake returns a committed       *)
(* prefix holding all that was committed when it began.                    *)
THEOREM ReadsAreFresh == Spec => []ReadIsFreshPrefix
<1>1. IInv => ReadIsFreshPrefix
  BY DEF IInv, ReadIsFreshPrefix, ReadsOk, ReadOk, RowsOk
<1> QED
  BY <1>1, Invariant, PTL

(* No publication, not even one by a compactor that was paused since       *)
(* before other publications, takes the manifest back; and the live floor  *)
(* moves with the snapshot.                                                *)
THEOREM ManifestIsMonotone == Spec => ManifestMonotone
<1> DEFINE Forward ==
             /\ current'.tail_hint >= current.tail_hint
             /\ current'.log_delete_floor >= current.log_delete_floor
             /\ current'.log_seq_start >= current.log_seq_start
             /\ (current'.snapshot # current.snapshot
                   => current'.log_seq_start > current.log_seq_start)
<1>1. IInv /\ [Next]_vars => [Forward]_vars
  <2> SUFFICES ASSUME IInv, Next PROVE Forward
    BY DEF vars
  <2> USE Positions
  <2>1. current \in Manifests
    BY DEF IInv, TypeOK
  <2>2. CASE current' = current
    BY <2>2
  <2>3. ASSUME NEW c \in Session, RefreshTailHint(c) PROVE Forward
    <3>1. commit[c].hi + 1 \in Nat
      BY <2>3, AckedBelowTail DEF RefreshTailHint
    <3> QED
      BY <2>1, <2>3, <3>1 DEF RefreshTailHint, Manifests, Larger
  <2>4. CASE Retire
    BY <2>1, <2>4 DEF Retire, Manifests, assertCurrentJsonTransition
  <2>5. ASSUME NEW f \in Compactor, FoldCheckpoint(f) PROVE Forward
    BY <2>1, <2>5, FoldFacts DEF FoldCheckpoint, Manifests, Larger
  <2>6. ASSUME NEW f \in Compactor, FoldPublish(f) PROVE Forward
    <3> DEFINE x == fold[f]
    <3> USE FoldFacts
    <3>1. /\ x.pc = "walk" /\ x.pos = x.end /\ current = x.base
          /\ current' = [current EXCEPT !.snapshot = x.rows,
                           !.log_seq_start = x.end,
                           !.tail_hint = Larger(@, x.tail)]
      BY <2>6 DEF FoldPublish
    <3>2. /\ current.log_seq_start <= x.end
          /\ x.rows = Live(hist, x.end)
          /\ current.snapshot = Live(hist, current.log_seq_start)
      BY <3>1 DEF IInv, FoldOk, RowsOk, ManifestOrder, SnapshotIsFold
    <3>3. /\ current'.log_delete_floor = current.log_delete_floor
          /\ current'.log_seq_start = x.end /\ current'.snapshot = x.rows
          /\ current'.tail_hint = Larger(current.tail_hint, x.tail)
      BY <2>1, <3>1 DEF Manifests
    <3>4. CASE current.log_seq_start = x.end
      BY <3>2, <3>3, <3>4 DEF Larger
    <3>5. CASE current.log_seq_start # x.end
      BY <3>2, <3>3, <3>5 DEF Larger
    <3> QED
      BY <3>4, <3>5
  <2>7. ASSUME NEW c \in Session, StartCommit(c) \/ CommitStep(c)
        PROVE  current' = current
    BY <2>7 DEF StartCommit, CommitStep, CommitAnswered, ProbeHead, GallopHit, GallopMiss,
                Bisect, CreateOk, CreateRejected, CreateUnresolved, ResolveOwn,
                ResolveForeign, ResolveAmbiguous, FloorAccept, FloorReject,
                FloorSkip, FloorAborted, ProbeFails, bucketVars
  <2>8. ASSUME NEW f \in Compactor,
               FoldStart(f) \/ FoldProbe(f) \/ FoldWalk(f) \/ FoldAbort(f)
        PROVE  current' = current
    BY <2>8 DEF FoldStart, FoldProbe, FoldWalk, FoldAbort, bucketVars
  <2>9. ASSUME NEW r \in Reader, ReadStep(r) PROVE current' = current
    BY <2>9 DEF ReadStep, ReadStart, ReadEntry, ReadHole, ReadEnd, bucketVars
  <2>10. ASSUME NEW s \in Slot,
                DeleteSlot(s) \/ \E c \in Session : Deliver(c, s)
         PROVE  current' = current
    BY <2>10 DEF DeleteSlot, Deliver
  <2> QED
    BY <2>2, <2>3, <2>4, <2>5, <2>6, <2>7, <2>8, <2>9, <2>10
       DEF Next, FoldStep
<1> QED
  BY <1>1, Invariant, PTL DEF Spec, ManifestMonotone

-----------------------------------------------------------------------------
(* CommitLog implements AtomicStore.                                       *)
(*                                                                         *)
(* The argument: under the invariant, what a reader of the bucket would    *)
(* see is the fold of the whole history.  So a step that does not extend   *)
(* the history is invisible, and one that does applies exactly the commit  *)
(* it appends.                                                             *)

(* Under the invariant the readable suffix is [log_seq_start, tail), and   *)
(* each of its objects is the entry the history holds there.               *)
LEMMA SuffixIsHistory ==
  ASSUME IInv
  PROVE  /\ Suffix = {s \in Slot : current.log_seq_start <= s /\ s < tail}
         /\ \A s \in Slot : current.log_seq_start <= s /\ s < tail
              => log[s] = hist[s] /\ hist[s] \in Session
<1> USE Positions
<1>1. \A s \in Slot : current.log_seq_start <= s /\ s < tail
        => log[s] = hist[s] /\ hist[s] \in Session
  BY DEF IInv, DenseLog, HistOk, ManifestOrder
<1>2. ASSUME NEW s \in Slot, current.log_seq_start <= s, s < tail
      PROVE  s \in Suffix
  <2> SUFFICES ASSUME NEW t \in current.log_seq_start..s PROVE log[t] # NoEntry
    BY <1>2 DEF Suffix
  <2>1. t \in Slot /\ current.log_seq_start <= t /\ t < tail
    BY <1>2, Constants DEF Slot
  <2> QED
    BY <1>1, <2>1, Constants
<1>3. ASSUME NEW s \in Suffix
      PROVE  s \in Slot /\ current.log_seq_start <= s /\ s < tail
  <2>1. s \in Slot /\ current.log_seq_start <= s /\ log[s] # NoEntry
    BY <1>3 DEF Suffix, Slot
  <2> QED
    BY <2>1 DEF IInv, DenseLog
<1> QED
  BY <1>1, <1>2, <1>3

(* What a reader would see is the state of the committed history.          *)
LEMMA VisibleIsLive ==
  ASSUME IInv
  PROVE  VisibleRows = Live(hist, tail)
<1> DEFINE n == current.log_seq_start
<1> USE Positions
<1>1. n \in Nat /\ n <= tail /\ current.snapshot = Live(hist, n)
  BY DEF IInv, ManifestOrder, SnapshotIsFold
<1>2. \A s : s \in Suffix <=> s \in Slot /\ n <= s /\ s < tail
  BY SuffixIsHistory
<1>3. \A s \in Suffix : log[s] = hist[s] /\ hist[s] \in Session
  BY SuffixIsHistory
<1>4. \A s : s \in 0..(tail - 1) => s \in Slot
  BY Constants DEF Slot
<1>5. ASSUME NEW x \in VisibleRows PROVE x \in Live(hist, tail)
  <2>1. CASE x \in current.snapshot /\ \A s \in Suffix : DocOf[log[s]] # DocOf[x]
    <3>1. PICK s \in 0..(n - 1) :
            /\ x = hist[s] /\ OpOf[hist[s]] # "D"
            /\ \A t \in 0..(n - 1) : t > s => DocOf[hist[t]] # DocOf[hist[s]]
      BY <1>1, <2>1 DEF Live, LastForDoc
    <3>2. \A t \in 0..(tail - 1) : t > s => DocOf[hist[t]] # DocOf[hist[s]]
      <4> SUFFICES ASSUME NEW t \in 0..(tail - 1), t > s
                   PROVE  DocOf[hist[t]] # DocOf[hist[s]]
        OBVIOUS
      <4>1. CASE t < n
        BY <1>1, <3>1, <4>1
      <4>2. CASE t >= n
        <5>1. t \in Suffix
          BY <1>2, <1>4, <4>2
        <5> QED
          BY <1>3, <2>1, <3>1, <5>1
      <4> QED
        BY <1>1, <4>1, <4>2
    <3>3. s \in 0..(tail - 1)
      BY <1>1
    <3> QED
      BY <3>1, <3>2, <3>3 DEF Live, LastForDoc
  <2>2. CASE \E s \in Suffix :
               /\ x = log[s] /\ OpOf[log[s]] # "D"
               /\ \A u \in Suffix : u > s => DocOf[log[u]] # DocOf[log[s]]
    <3>1. PICK s \in Suffix :
               /\ x = log[s] /\ OpOf[log[s]] # "D"
               /\ \A u \in Suffix : u > s => DocOf[log[u]] # DocOf[log[s]]
      BY <2>2
    <3>2. s \in 0..(tail - 1) /\ x = hist[s] /\ OpOf[hist[s]] # "D"
      BY <1>2, <1>3, <3>1
    <3>3. \A t \in 0..(tail - 1) : t > s => DocOf[hist[t]] # DocOf[hist[s]]
      <4> SUFFICES ASSUME NEW t \in 0..(tail - 1), t > s
                   PROVE  DocOf[hist[t]] # DocOf[hist[s]]
        OBVIOUS
      <4>1. t \in Suffix
        BY <1>1, <1>2, <1>4, <3>2
      <4> QED
        BY <1>3, <3>1, <4>1
    <3> QED
      BY <3>2, <3>3 DEF Live, LastForDoc
  <2> QED
    BY <1>5, <2>1, <2>2 DEF VisibleRows
<1>6. ASSUME NEW x \in Live(hist, tail) PROVE x \in VisibleRows
  <2>1. PICK s \in 0..(tail - 1) :
          /\ x = hist[s] /\ OpOf[hist[s]] # "D"
          /\ \A t \in 0..(tail - 1) : t > s => DocOf[hist[t]] # DocOf[hist[s]]
    BY <1>6 DEF Live, LastForDoc
  <2>2. CASE s < n
    <3>1. x \in Live(hist, n)
      <4>1. s \in 0..(n - 1)
        BY <1>1, <2>2
      <4>2. \A t \in 0..(n - 1) : t > s => DocOf[hist[t]] # DocOf[hist[s]]
        BY <1>1, <2>1
      <4> QED
        BY <2>1, <4>1, <4>2 DEF Live, LastForDoc
    <3>2. \A u \in Suffix : DocOf[log[u]] # DocOf[x]
      <4> SUFFICES ASSUME NEW u \in Suffix PROVE DocOf[log[u]] # DocOf[x]
        OBVIOUS
      <4>1. u \in 0..(tail - 1) /\ u > s /\ log[u] = hist[u]
        BY <1>1, <1>2, <1>3, <2>2
      <4> QED
        BY <2>1, <4>1
    <3> QED
      BY <1>1, <3>1, <3>2 DEF VisibleRows
  <2>3. CASE s >= n
    <3>1. s \in Suffix /\ x = log[s] /\ OpOf[log[s]] # "D"
      BY <1>2, <1>3, <1>4, <2>1, <2>3
    <3>2. \A u \in Suffix : u > s => DocOf[log[u]] # DocOf[log[s]]
      BY <1>2, <1>3, <2>1, <3>1
    <3> QED
      BY <3>1, <3>2 DEF VisibleRows
  <2> QED
    BY <1>1, <2>2, <2>3
<1> QED
  BY <1>5, <1>6

-----------------------------------------------------------------------------
(* Steps                                                                   *)

(* The same after a step.                                                  *)
LEMMA VisibleIsLiveNext == IInv' => VisibleRows' = Live(hist, tail)'
<1> DEFINE Good == VisibleRows = Live(hist, tail)
<1>1. IInv => Good
  BY VisibleIsLive
<1> HIDE DEF Good
<1>2. IInv' => Good'
  BY <1>1, PTL
<1> QED
  BY <1>2 DEF Good

(* A step that leaves the history alone shows a reader nothing new.        *)
LEMMA Invisible ==
  ASSUME IInv, IInv', tail' = tail, hist' = hist
  PROVE  VisibleRows' = VisibleRows /\ Applied' = Applied
<1>1. VisibleRows' = Live(hist', tail')
  BY VisibleIsLiveNext
<1> QED
  BY <1>1, VisibleIsLive DEF Applied

(* The first fill of a slot applies its commit, and only that.             *)
LEMMA FillApplies ==
  ASSUME IInv, IInv', NEW c \in Session, tail \in Slot, tail' = tail + 1,
         hist' = [hist EXCEPT ![tail] = c], Outcomes' = Outcomes,
         Outcomes[c] \in {"open", "unknown"}
  PROVE  Store!Apply(c)
<1> USE Positions
<1>1. hist \in [Slot -> Session \cup {NoEntry}]
  BY DEF IInv, TypeOK
<1>2. \A s \in 0..(tail - 1) : s \in Slot /\ hist'[s] = hist[s]
  BY <1>1, Constants DEF Slot
<1>3. hist'[tail] = c
  BY <1>1
<1>4. \A s \in 0..tail : hist'[s] \in Session
  BY <1>2, <1>3 DEF IInv, HistOk
<1>5. VisibleRows' = FoldOne(VisibleRows, c)
  <2>1. VisibleRows' = Live(hist', tail + 1)
    BY VisibleIsLiveNext
  <2>2. Live(hist', tail + 1) = FoldOne(Live(hist', tail), c)
    BY <1>3, <1>4, LiveStep
  <2>3. Live(hist', tail) = Live(hist, tail)
    BY <1>2 DEF Live, LastForDoc
  <2> QED
    BY <2>1, <2>2, <2>3, VisibleIsLive
<1>6. Applied' = Applied \cup {c}
  <2>1. \A s : s \in 0..(tail' - 1) <=> s \in 0..(tail - 1) \/ s = tail
    OBVIOUS
  <2> QED
    BY <1>2, <1>3, <2>1 DEF Applied
<1> QED
  BY <1>5, <1>6 DEF Store!Apply, Store!FoldOne, FoldOne

StoreStep == [Store!StoreNext]_(Store!storeVars)

(* A step that touches neither the history nor a commit call.              *)
LEMMA StutterStep ==
  ASSUME IInv, IInv', tail' = tail, hist' = hist, commit' = commit
  PROVE  StoreStep
<1>1. VisibleRows' = VisibleRows /\ Applied' = Applied
  BY Invisible
<1>2. Outcomes' = Outcomes
  BY DEF Outcomes, OutcomeOf
<1> QED
  BY <1>1, <1>2 DEF StoreStep, Store!storeVars

(* What a step of call c does to the outcomes.                             *)
LEMMA OutcomeStep ==
  ASSUME IInv, NEW c \in Session, NEW w \in CommitRec,
         commit' = [commit EXCEPT ![c] = w]
  PROVE  /\ Outcomes' = [Outcomes EXCEPT ![c] = OutcomeOf(w.pc)]
         /\ Outcomes[c] = OutcomeOf(commit[c].pc)
<1>1. commit \in [Session -> CommitRec]
  BY CommitFacts
<1>2. commit'[c] = w /\ \A d \in Session : d # c => commit'[d] = commit[d]
  BY <1>1
<1>3. \A d \in Session :
        Outcomes'[d] = IF d = c THEN OutcomeOf(w.pc) ELSE Outcomes[d]
  BY <1>2 DEF Outcomes, OutcomeOf
<1>4. Outcomes' = [d \in Session |-> Outcomes'[d]]
  BY DEF Outcomes
<1>5. Outcomes[c] = OutcomeOf(commit[c].pc) /\ Outcomes = [d \in Session |-> Outcomes[d]]
  BY DEF Outcomes
<1> QED
  BY <1>3, <1>4, <1>5

(* A step of an open call that fills no new slot: the call goes on, or     *)
(* returns.                                                                *)
LEMMA CallStep ==
  ASSUME IInv, IInv', NEW c \in Session, NEW w \in CommitRec,
         commit' = [commit EXCEPT ![c] = w],
         tail' = tail, hist' = hist,
         commit[c].pc \in {"idle", "head", "gallop", "bisect", "create",
                           "resolve", "floor"},
         w.pc = "acked" => c \in Applied
  PROVE  StoreStep
<1>1. VisibleRows' = VisibleRows /\ Applied' = Applied
  BY Invisible
<1>2. /\ Outcomes' = [Outcomes EXCEPT ![c] = OutcomeOf(w.pc)]
      /\ Outcomes[c] = "open"
  BY OutcomeStep DEF OutcomeOf
<1>3. Outcomes \in [Session -> {"open", "acked", "failed", "unknown"}]
  BY DEF Outcomes, OutcomeOf
<1>4. w.pc \in CommitPc
  BY DEF CommitRec
<1>5. CASE w.pc = "acked"
  <2>1. OutcomeOf(w.pc) = "acked"
    BY <1>5 DEF OutcomeOf
  <2>2. Store!Return(c)
    BY <1>1, <1>2, <1>5, <2>1 DEF Store!Return
  <2> QED
    BY <2>2 DEF StoreStep, Store!StoreNext
<1>6. CASE w.pc = "failed"
  <2>1. OutcomeOf(w.pc) = "failed"
    BY <1>6 DEF OutcomeOf
  <2>2. Store!Return(c)
    BY <1>1, <1>2, <2>1 DEF Store!Return
  <2> QED
    BY <2>2 DEF StoreStep, Store!StoreNext
<1>7. CASE w.pc \in {"ambiguous", "acked_unchecked"}
  <2>1. OutcomeOf(w.pc) = "unknown"
    BY <1>7 DEF OutcomeOf
  <2>2. Store!Return(c)
    BY <1>1, <1>2, <2>1 DEF Store!Return
  <2> QED
    BY <2>2 DEF StoreStep, Store!StoreNext
<1>8. CASE w.pc \notin {"acked", "failed", "ambiguous", "acked_unchecked"}
  <2>1. OutcomeOf(w.pc) = "open"
    BY <1>8 DEF OutcomeOf
  <2>2. Outcomes' = Outcomes
    BY <1>2, <1>3, <2>1
  <2> QED
    BY <1>1, <2>2 DEF StoreStep, Store!storeVars
<1> QED
  BY <1>5, <1>6, <1>7, <1>8

(* A commit call's own steps.                                              *)
LEMMA CommitSteps ==
  ASSUME IInv, IInv', NEW c \in Session, StartCommit(c) \/ CommitStep(c)
  PROVE  StoreStep
<1> DEFINE w == commit'[c]
<1>1. /\ commit[c] \in CommitRec /\ commit \in [Session -> CommitRec]
      /\ CommitOk(c) /\ tail \in Nat /\ tail <= MaxSeq + 1
  BY CommitFacts
<1>2. w \in CommitRec
  BY DEF IInv, TypeOK, CommitRec
<1>3. commit' = [commit EXCEPT ![c] = w]
  BY <1>1 DEF StartCommit, CommitStep, CommitAnswered, ProbeHead, GallopHit, GallopMiss, Bisect,
              CreateOk, CreateRejected, CreateUnresolved, ResolveOwn,
              ResolveForeign, ResolveAmbiguous, FloorAccept, FloorReject,
              FloorSkip, FloorAborted, ProbeFails, Goto
<1>4. commit[c].pc \in {"idle", "head", "gallop", "bisect", "create",
                        "resolve", "floor"}
  BY DEF StartCommit, CommitStep, CommitAnswered, ProbeHead, GallopHit, GallopMiss, Bisect,
         CreateOk, CreateRejected, CreateUnresolved, ResolveOwn,
         ResolveForeign, ResolveAmbiguous, FloorAccept, FloorReject, FloorSkip,
         FloorAborted, ProbeFails
<1>5. ASSUME w.pc = "acked", tail' = tail, hist' = hist PROVE c \in Applied
  <2>1. CommitOk(c)'
    BY DEF IInv, CommitsOk
  <2>2. hist[w.hi] = c /\ w.hi < tail /\ w.hi \in Nat
    BY <1>2, <1>5, <2>1 DEF CommitOk, CommitRec
  <2> QED
    BY <1>1, <2>2 DEF Applied
<1>6. CASE tail' = tail /\ hist' = hist
  BY <1>2, <1>3, <1>4, <1>5, <1>6, CallStep
<1>7. CASE ~(tail' = tail /\ hist' = hist)
  <2>1. CreateOk(c)
    BY <1>7 DEF StartCommit, CommitStep, CommitAnswered, ProbeHead, GallopHit, GallopMiss,
                Bisect, CreateRejected, CreateUnresolved, ResolveOwn,
                ResolveForeign, ResolveAmbiguous, FloorAccept, FloorReject,
                FloorSkip, FloorAborted, ProbeFails, bucketVars
  <2>2. /\ commit[c].hi \in Slot /\ commit[c].hi <= tail
        /\ Fill(c, commit[c].hi) /\ commit[c].pc = "create" /\ w.pc = "floor"
    BY <1>1, <2>1 DEF CreateOk, CommitOk, Goto, CommitRec
  <2>3. /\ tail \in Slot /\ tail' = tail + 1
        /\ hist' = [hist EXCEPT ![tail] = c]
    BY <1>7, <2>2, FillCases
  <2>4. Outcomes' = Outcomes /\ Outcomes[c] = "open"
    <3>1. /\ Outcomes' = [Outcomes EXCEPT ![c] = OutcomeOf(w.pc)]
          /\ Outcomes[c] = OutcomeOf(commit[c].pc)
      BY <1>2, <1>3, OutcomeStep
    <3>2. OutcomeOf(w.pc) = "open" /\ OutcomeOf(commit[c].pc) = "open"
      BY <2>2 DEF OutcomeOf
    <3>3. Outcomes = [d \in Session |-> Outcomes[d]]
      BY DEF Outcomes
    <3> QED
      BY <3>1, <3>2, <3>3
  <2>5. Store!Apply(c)
    BY <2>3, <2>4, FillApplies
  <2> QED
    BY <2>5 DEF StoreStep, Store!StoreNext
<1> QED
  BY <1>6, <1>7

(* A delayed PUT that lands at the tail applies its commit, whose call is  *)
(* still open or has returned an unknown outcome.                          *)
LEMMA DeliverStep ==
  ASSUME IInv, IInv', NEW c \in Session, NEW s \in Slot, Deliver(c, s)
  PROVE  StoreStep
<1>1. SendOk(c, s) /\ commit' = commit
  BY DEF IInv, InflightOk, Deliver
<1>2. s <= tail
  BY <1>1, Positions DEF SendOk
<1>3. CASE tail' = tail /\ hist' = hist
  BY <1>1, <1>3, StutterStep
<1>4. CASE ~(tail' = tail /\ hist' = hist)
  <2>1. Fill(c, s)
    BY <1>4 DEF Deliver
  <2>2. /\ s = tail /\ tail' = tail + 1
        /\ hist' = [hist EXCEPT ![tail] = c]
    BY <1>2, <1>4, <2>1, FillCases
  <2>3. commit[c].pc \in {"resolve", "ambiguous"}
    BY <1>1, <2>2, Positions DEF SendOk
  <2>4. Outcomes[c] \in {"open", "unknown"}
    BY <2>3 DEF Outcomes, OutcomeOf
  <2>5. Outcomes' = Outcomes
    BY <1>1 DEF Outcomes, OutcomeOf
  <2>6. Store!Apply(c)
    BY <2>2, <2>4, <2>5, FillApplies
  <2> QED
    BY <2>6 DEF StoreStep, Store!StoreNext
<1> QED
  BY <1>3, <1>4

(* Every step of the protocol is one step of the store, or none.           *)
LEMMA StepRefines == IInv /\ IInv' /\ [Next]_vars => StoreStep
<1> SUFFICES ASSUME IInv, IInv', [Next]_vars PROVE StoreStep
  OBVIOUS
<1>1. ASSUME NEW f \in Compactor, FoldStep(f)
      PROVE  tail' = tail /\ hist' = hist /\ commit' = commit
  BY <1>1 DEF FoldStep, FoldStart, FoldProbe, FoldCheckpoint, FoldWalk,
              FoldPublish, FoldAbort, bucketVars
<1>2. ASSUME NEW r \in Reader, ReadStep(r)
      PROVE  tail' = tail /\ hist' = hist /\ commit' = commit
  BY <1>2 DEF ReadStep, ReadStart, ReadEntry, ReadHole, ReadEnd, bucketVars
<1>3. ASSUME \/ Retire
             \/ \E s \in Slot : DeleteSlot(s)
             \/ \E c \in Session : RefreshTailHint(c)
             \/ UNCHANGED vars
      PROVE  tail' = tail /\ hist' = hist /\ commit' = commit
  BY <1>3 DEF Retire, DeleteSlot, RefreshTailHint, vars
<1> QED
  BY <1>1, <1>2, <1>3, StutterStep, CommitSteps, DeliverStep DEF Next

LEMMA InitRefines == Init => Store!StoreInit
<1> SUFFICES ASSUME Init PROVE Store!StoreInit
  OBVIOUS
<1>1. Suffix = {}
  BY Constants DEF Init, Suffix, ZeroManifest, Slot
<1>2. VisibleRows = {}
  BY <1>1 DEF Init, VisibleRows, ZeroManifest
<1>3. Applied = {}
  BY DEF Init, Applied
<1>4. Outcomes = [c \in Session |-> "open"]
  BY DEF Init, Outcomes, OutcomeOf, IdleCommit
<1> QED
  BY <1>2, <1>3, <1>4 DEF Store!StoreInit

(* The commit protocol with its compaction, retirement, lost answers and   *)
(* crashes implements the atomic document store.                           *)
THEOREM ImplementsAtomicStore == Spec => IsAtomicStore
<1>1. IInv /\ IInv' /\ [Next]_vars => [Store!StoreNext]_(Store!storeVars)
  BY StepRefines DEF StoreStep
<1> QED
  BY <1>1, Invariant, InitRefines, PTL
  DEF Spec, IsAtomicStore, Store!StoreSpec

=============================================================================
