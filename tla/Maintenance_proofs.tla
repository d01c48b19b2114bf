-------------------------- MODULE Maintenance_proofs -------------------------
(***************************************************************************)
(* Background maintenance, for any number of compactors, passes, readers   *)
(* and isolates, any clocks and any intervals: the snapshot current.json   *)
(* names is never deleted and, if clocks agree, the grace covers readers   *)
(* (SnapshotGc); neither tail_hint nor garbage collection falls behind     *)
(* (MaintenanceTick).                                                      *)
(***************************************************************************)
EXTENDS SnapshotGc, MaintenanceTick, Listing_proofs

Folds == [pc : {"idle", "put", "cas"}, base : Manifests, key : Key \cup {NoKey}]

(* The types the argument needs; the ledger's contents do not matter.      *)
GcTypes ==
  /\ current \in Manifests
  /\ data \in Data
  /\ sweep \in [Pass -> SUBSET Key]
  /\ stray \subseteq Key
  /\ fold \in [Compactor -> Folds]

(* The DELETEs under way, of passes that go on and of passes that threw.   *)
Deleting == stray \cup UNION {sweep[p] : p \in Pass}

(* Only snapshots below the floor are being deleted.                       *)
DeletesBelowFloor == \A k \in Deleting : k.at < current.floor

(* The live snapshot is at the floor, and it exists.                       *)
LiveAtFloor ==
  current.snapshot # NoKey =>
    current.snapshot.at = current.floor /\ current.snapshot \in objects

(* A fold works on the present generation or on an earlier one.  It never  *)
(* folds backwards, and the snapshot it has written is still there as long *)
(* as it could be published.                                               *)
FoldsAhead ==
  \A f \in Compactor : fold[f].pc # "idle" =>
    /\ fold[f].key \in Key
    /\ fold[f].key.at >= fold[f].base.floor
    /\ fold[f].base.generation <= current.generation
    /\ (/\ fold[f].pc = "cas"
        /\ fold[f].base.generation = current.generation
        /\ fold[f].key.at >= current.floor) => fold[f].key \in objects

GcInv == GcTypes /\ DeletesBelowFloor /\ LiveAtFloor /\ FoldsAhead

-----------------------------------------------------------------------------
(* What a pass decides to delete is below the floor of the manifest as it  *)
(* is at that moment: a due, classified candidate forces the second read.  *)
LEMMA SweptBelowFloor ==
  ASSUME NEW p \in Pass, NEW cands
  PROVE  LET fence   == IF HasDueSnapshot(p, cands) THEN current ELSE pass[p].base
             dropped == Dropped(p, cands, fence)
         IN  \A k \in Swept(p, cands, fence, dropped) :
               k \in Key /\ k.at < current.floor
<1> DEFINE fence   == IF HasDueSnapshot(p, cands) THEN current ELSE pass[p].base
           dropped == Dropped(p, cands, fence)
<1> SUFFICES ASSUME NEW k \in Swept(p, cands, fence, dropped)
             PROVE  k \in Key /\ k.at < current.floor
  OBVIOUS
<1>1. PICK j \in DOMAIN cands :
        k = cands[j].key /\ Sweepable(p, cands[j], fence, dropped)
  BY DEF Swept
<1>2. cands[j] \in Range(cands)
  BY DEF Range
<1>3. cands[j].key \notin Opaque
  BY <1>1, <1>2 DEF Dropped, Sweepable
<1>4. HasDueSnapshot(p, cands)
  BY <1>1, <1>2, <1>3 DEF HasDueSnapshot, Sweepable
<1>5. fence = current
  BY <1>4
<1>6. QED
  BY <1>1, <1>5 DEF Sweepable

-----------------------------------------------------------------------------
LEMMA GcInvInit == Init => GcInv
<1> SUFFICES ASSUME Init PROVE GcInv
  OBVIOUS
<1>1. ZeroManifest \in Manifests
  BY MaxPosAssumption, MaxGenAssumption DEF ZeroManifest, Manifests
<1>2. GcTypes
  BY <1>1 DEF Init, GcTypes, Folds, IdleFold
<1>3. DeletesBelowFloor
  BY DEF Init, DeletesBelowFloor, Deleting
<1>4. LiveAtFloor
  BY DEF Init, LiveAtFloor, ZeroManifest
<1>5. FoldsAhead
  BY DEF Init, FoldsAhead, IdleFold
<1>6. QED
  BY <1>2, <1>3, <1>4, <1>5 DEF GcInv

-----------------------------------------------------------------------------
(* The steps of compact()                                                  *)

LEMMA FoldBeginInv ==
  ASSUME GcInv, NEW f \in Compactor, FoldBegin(f) PROVE GcInv'
<1> USE DEF GcInv
<1>1. PICK end \in current.floor..MaxPos :
        fold' = [fold EXCEPT ![f] = [pc |-> "put", base |-> current,
                                     key |-> [at |-> end, body |-> data]]]
  BY DEF FoldBegin
<1>2. /\ current' = current /\ data' = data /\ objects' = objects
      /\ sweep' = sweep /\ stray' = stray
  BY DEF FoldBegin
<1>3. [at |-> end, body |-> data] \in Key /\ end >= current.floor
  BY MaxPosAssumption DEF GcTypes, Key, Manifests
<1>4. GcTypes'
  BY <1>1, <1>2, <1>3 DEF GcTypes, Folds
<1>5. DeletesBelowFloor' /\ LiveAtFloor'
  BY <1>2 DEF DeletesBelowFloor, Deleting, LiveAtFloor
<1>6. FoldsAhead'
  <2> SUFFICES ASSUME NEW g \in Compactor, fold'[g].pc # "idle"
               PROVE  /\ fold'[g].key \in Key
                      /\ fold'[g].key.at >= fold'[g].base.floor
                      /\ fold'[g].base.generation <= current'.generation
                      /\ (/\ fold'[g].pc = "cas"
                          /\ fold'[g].base.generation = current'.generation
                          /\ fold'[g].key.at >= current'.floor)
                           => fold'[g].key \in objects'
    BY DEF FoldsAhead
  <2>1. CASE g = f
    BY <2>1, <1>1, <1>2, <1>3, MaxGenAssumption DEF GcTypes, Manifests
  <2>2. CASE g # f
    BY <2>2, <1>1, <1>2 DEF FoldsAhead, GcTypes
  <2>3. QED
    BY <2>1, <2>2
<1>7. QED
  BY <1>4, <1>5, <1>6

LEMMA FoldPutInv ==
  ASSUME GcInv, NEW f \in Compactor, FoldPut(f) PROVE GcInv'
<1> USE DEF GcInv
<1>1. /\ current' = current /\ data' = data /\ sweep' = sweep /\ stray' = stray
      /\ objects' = objects \cup {fold[f].key}
      /\ fold' = [fold EXCEPT ![f].pc = "cas"]
      /\ fold[f].pc = "put"
  BY DEF FoldPut
<1>2. GcTypes'
  BY <1>1 DEF GcTypes, Folds
<1>3. DeletesBelowFloor' /\ LiveAtFloor'
  BY <1>1 DEF DeletesBelowFloor, Deleting, LiveAtFloor
<1>4. FoldsAhead'
  BY <1>1 DEF FoldsAhead, GcTypes, Folds
<1>5. QED
  BY <1>2, <1>3, <1>4

LEMMA FoldCasInv ==
  ASSUME GcInv, NEW f \in Compactor, FoldCas(f) PROVE GcInv'
<1> USE DEF GcInv
<1>1. /\ data' = data /\ sweep' = sweep /\ stray' = stray /\ objects' = objects
      /\ fold[f].pc = "cas" /\ current = fold[f].base
      /\ current' = [current EXCEPT !.snapshot = fold[f].key,
                                    !.floor = fold[f].key.at]
      /\ fold' = [fold EXCEPT ![f] = IdleFold]
  BY DEF FoldCas
<1>2. /\ fold[f].key \in Key /\ fold[f].key.at >= current.floor
      /\ fold[f].key.at \in 0..MaxPos
      /\ fold[f].key \in objects
  BY <1>1, MaxGenAssumption DEF FoldsAhead, GcTypes, Manifests, Key
<1>3. /\ current' \in Manifests
      /\ current'.generation = current.generation
      /\ current'.floor = fold[f].key.at
      /\ current'.snapshot = fold[f].key
      /\ current.floor \in 0..MaxPos
  BY <1>1, <1>2 DEF GcTypes, Manifests
<1>4. IdleFold \in Folds
  BY MaxPosAssumption, MaxGenAssumption
     DEF IdleFold, Folds, ZeroManifest, Manifests
<1>5. GcTypes'
  BY <1>1, <1>3, <1>4 DEF GcTypes
<1>6. DeletesBelowFloor'
  <2>1. \A k \in Deleting : k \in Key /\ k.at \in 0..MaxPos
    BY DEF Deleting, GcTypes, Key
  <2>2. QED
    BY <2>1, <1>1, <1>2, <1>3, MaxPosAssumption DEF DeletesBelowFloor, Deleting
<1>7. LiveAtFloor'
  BY <1>1, <1>2, <1>3 DEF LiveAtFloor
<1>8. FoldsAhead'
  <2> SUFFICES ASSUME NEW g \in Compactor, fold'[g].pc # "idle"
               PROVE  /\ fold'[g].key \in Key
                      /\ fold'[g].key.at >= fold'[g].base.floor
                      /\ fold'[g].base.generation <= current'.generation
                      /\ (/\ fold'[g].pc = "cas"
                          /\ fold'[g].base.generation = current'.generation
                          /\ fold'[g].key.at >= current'.floor)
                           => fold'[g].key \in objects'
    BY DEF FoldsAhead
  <2>1. g # f /\ fold'[g] = fold[g]
    BY <1>1 DEF GcTypes, IdleFold
  <2>2. fold[g].key \in Key /\ fold[g].key.at \in 0..MaxPos
    BY <2>1 DEF FoldsAhead, Key
  <2>3. QED
    BY <2>1, <2>2, <1>1, <1>2, <1>3, MaxPosAssumption DEF FoldsAhead
<1>9. QED
  BY <1>5, <1>6, <1>7, <1>8

LEMMA FoldEndInv ==
  ASSUME GcInv, NEW f \in Compactor, FoldEnd(f) PROVE GcInv'
<1> USE DEF GcInv
<1>1. /\ current' = current /\ data' = data /\ sweep' = sweep /\ stray' = stray
      /\ objects' = objects /\ fold' = [fold EXCEPT ![f] = IdleFold]
  BY DEF FoldEnd
<1>2. IdleFold \in Folds
  BY MaxPosAssumption, MaxGenAssumption
     DEF IdleFold, Folds, ZeroManifest, Manifests
<1>3. GcTypes'
  BY <1>1, <1>2 DEF GcTypes
<1>4. DeletesBelowFloor' /\ LiveAtFloor'
  BY <1>1 DEF DeletesBelowFloor, Deleting, LiveAtFloor
<1>5. FoldsAhead'
  BY <1>1 DEF FoldsAhead, GcTypes, IdleFold
<1>6. QED
  BY <1>3, <1>4, <1>5

-----------------------------------------------------------------------------
(* The steps of runGc() and of restore                                     *)

LEMMA GcGateInv ==
  ASSUME GcInv, NEW p \in Pass, GcGate(p) PROVE GcInv'
<1> USE DEF GcInv
<1> DEFINE cands   == pass[p].old \o pass[p].new
           fence   == IF HasDueSnapshot(p, cands) THEN current ELSE pass[p].base
           dropped == Dropped(p, cands, fence)
           swept   == Swept(p, cands, fence, dropped)
<1>1. /\ current' = current /\ data' = data /\ objects' = objects
      /\ stray' = stray /\ fold' = fold
      /\ sweep' = [sweep EXCEPT ![p] = swept]
  BY DEF GcGate
<1>2. \A k \in swept : k \in Key /\ k.at < current.floor
  BY SweptBelowFloor
<1> HIDE DEF swept
<1>3. GcTypes'
  BY <1>1, <1>2 DEF GcTypes
<1>4. \A q \in Pass : sweep'[q] \subseteq sweep[q] \cup swept
  BY <1>1 DEF GcTypes
<1>5. DeletesBelowFloor'
  BY <1>1, <1>2, <1>4 DEF DeletesBelowFloor, Deleting
<1>6. LiveAtFloor' /\ FoldsAhead'
  BY <1>1 DEF LiveAtFloor, FoldsAhead
<1>7. QED
  BY <1>3, <1>5, <1>6

(* A DELETE of a snapshot below the floor harms nobody.                    *)
LEMMA DeleteInv ==
  ASSUME GcInv, NEW k \in Deleting,
         objects' = objects \ {k}, current' = current, data' = data,
         fold' = fold, GcTypes', Deleting' \subseteq Deleting
  PROVE  GcInv'
<1> USE DEF GcInv
<1>1. k \in Key /\ k.at \in 0..MaxPos /\ k.at < current.floor
      /\ current.floor \in 0..MaxPos
  BY DEF Deleting, GcTypes, Key, DeletesBelowFloor, Manifests
<1>2. DeletesBelowFloor'
  BY DEF DeletesBelowFloor
<1>3. LiveAtFloor'
  BY <1>1, MaxPosAssumption DEF LiveAtFloor
<1>4. FoldsAhead'
  <2>1. ASSUME NEW f \in Compactor, fold[f].key.at >= current.floor
        PROVE  fold[f].key # k
    BY <2>1, <1>1, MaxPosAssumption
  <2>2. QED
    BY <2>1 DEF FoldsAhead
<1>5. QED
  BY <1>2, <1>3, <1>4

LEMMA GcDeleteInv ==
  ASSUME GcInv, NEW p \in Pass, NEW k \in Key, GcDelete(p, k) PROVE GcInv'
<1>1. /\ current' = current /\ data' = data /\ objects' = objects \ {k}
      /\ stray' = stray /\ fold' = fold /\ k \in sweep[p]
      /\ sweep' = [sweep EXCEPT ![p] = @ \ {k}]
  BY DEF GcDelete
<1>2. GcTypes'
  BY <1>1 DEF GcInv, GcTypes
<1>3. k \in Deleting /\ Deleting' \subseteq Deleting
  BY <1>1 DEF Deleting, GcInv, GcTypes
<1>4. QED
  BY <1>1, <1>2, <1>3, DeleteInv

LEMMA StrayDeleteInv ==
  ASSUME GcInv, NEW k \in Key, StrayDelete(k) PROVE GcInv'
<1>1. /\ current' = current /\ data' = data /\ objects' = objects \ {k}
      /\ sweep' = sweep /\ fold' = fold /\ k \in stray /\ stray' = stray \ {k}
  BY DEF StrayDelete
<1>2. GcTypes'
  BY <1>1 DEF GcInv, GcTypes
<1>3. k \in Deleting /\ Deleting' \subseteq Deleting
  BY <1>1 DEF Deleting
<1>4. QED
  BY <1>1, <1>2, <1>3, DeleteInv

LEMMA GcFailInv ==
  ASSUME GcInv, NEW p \in Pass, GcFail(p) PROVE GcInv'
<1> USE DEF GcInv
<1>1. /\ current' = current /\ data' = data /\ objects' = objects /\ fold' = fold
      /\ stray' = stray \cup sweep[p] /\ sweep' = [sweep EXCEPT ![p] = {}]
  BY DEF GcFail
<1>2. GcTypes'
  BY <1>1 DEF GcTypes
<1>3. Deleting' \subseteq Deleting
  BY <1>1 DEF Deleting, GcTypes
<1>4. DeletesBelowFloor'
  BY <1>1, <1>3 DEF DeletesBelowFloor
<1>5. LiveAtFloor' /\ FoldsAhead'
  BY <1>1 DEF LiveAtFloor, FoldsAhead
<1>6. QED
  BY <1>2, <1>4, <1>5

(* A restore may lower the floor, while nothing is being deleted; every    *)
(* fold then belongs to an earlier generation.                             *)
LEMMA RestoreReseedInv ==
  ASSUME GcInv, RestoreReseed PROVE GcInv'
<1> USE DEF GcInv
<1>1. PICK base \in 0..MaxPos :
        current' = [generation |-> current.generation + 1, floor |-> base,
                    snapshot |-> NoKey]
  BY DEF RestoreReseed
<1>2. /\ objects' = objects /\ sweep' = sweep /\ stray' = stray /\ fold' = fold
      /\ data' \in Data /\ current.generation < MaxGen
      /\ Deleting = {}
  BY DEF RestoreReseed, Exclusive, Deleting
<1>3. current.generation \in 0..MaxGen
  BY DEF GcTypes, Manifests
<1>4. GcTypes'
  BY <1>1, <1>2, <1>3, MaxGenAssumption DEF GcTypes, Manifests
<1>5. DeletesBelowFloor' /\ LiveAtFloor'
  BY <1>1, <1>2 DEF DeletesBelowFloor, Deleting, LiveAtFloor
<1>6. \A f \in Compactor : fold[f].base.generation \in 0..MaxGen
  BY DEF GcTypes, Folds, Manifests
<1>7. FoldsAhead'
  BY <1>1, <1>2, <1>3, <1>6, MaxGenAssumption DEF FoldsAhead
<1>8. QED
  BY <1>4, <1>5, <1>7

-----------------------------------------------------------------------------
(* Steps that touch neither a snapshot, nor the manifest, nor a fold.      *)
LEMMA OtherInv ==
  ASSUME GcInv,
         UNCHANGED <<current, data, objects, sweep, stray, fold>>
  PROVE  GcInv'
BY DEF GcInv, GcTypes, DeletesBelowFloor, Deleting, LiveAtFloor, FoldsAhead

LEMMA GcInvNext == GcInv /\ [Next]_gcVars => GcInv'
<1> SUFFICES ASSUME GcInv, [Next]_gcVars PROVE GcInv'
  OBVIOUS
<1>1. ASSUME NEW f \in Compactor,
             FoldBegin(f) \/ FoldPut(f) \/ FoldCas(f) \/ FoldEnd(f)
      PROVE  GcInv'
  BY <1>1, FoldBeginInv, FoldPutInv, FoldCasInv, FoldEndInv
<1>2. ASSUME NEW p \in Pass, GcStep(p) PROVE GcInv'
  <2>1. CASE GcGate(p)
    BY <2>1, GcGateInv
  <2>2. CASE GcStart(p) \/ GcLoad(p) \/ GcMark(p) \/ GcMerge(p)
    <3>1. UNCHANGED <<current, data, objects, sweep, stray, fold>>
      BY <2>2 DEF GcStart, GcLoad, GcMark, GcMerge
    <3>2. QED
      BY <3>1, OtherInv
  <2>3. QED
    BY <1>2, <2>1, <2>2 DEF GcStep
<1>3. ASSUME NEW p \in Pass, GcFail(p) PROVE GcInv'
  BY <1>3, GcFailInv
<1>4. ASSUME NEW p \in Pass, NEW k \in Key, GcDelete(p, k) PROVE GcInv'
  BY <1>4, GcDeleteInv
<1>5. ASSUME NEW k \in Key, StrayDelete(k) PROVE GcInv'
  BY <1>5, StrayDeleteInv
<1>6. CASE RestoreReseed
  BY <1>6, RestoreReseedInv
<1>7. CASE \/ GraceElapses \/ RestoreClear
           \/ \E r \in Reader : ReadHead(r) \/ ReadLoad(r)
           \/ UNCHANGED gcVars
  <2>1. UNCHANGED <<current, data, objects, sweep, stray, fold>>
    BY <1>7 DEF GraceElapses, RestoreClear, ReadHead, ReadLoad, gcVars
  <2>2. QED
    BY <2>1, OtherInv
<1>8. QED
  BY <1>1, <1>2, <1>3, <1>4, <1>5, <1>6, <1>7 DEF Next

-----------------------------------------------------------------------------
(* The snapshot current.json names exists, whatever the grace and whatever *)
(* the clocks: the floor proof of the sweep alone protects it.             *)
THEOREM LiveSnapshotIsNeverSwept == Spec => []LiveSnapshotExists
<1>1. GcInv => LiveSnapshotExists
  BY DEF GcInv, LiveAtFloor, LiveSnapshotExists
<1>2. QED
  BY GcInvInit, GcInvNext, <1>1, PTL DEF Spec

-----------------------------------------------------------------------------
(* The ledger of marks: bounded, so that what survives a merge always fits. *)

Candidates == [key : Key \cup Opaque, due : BOOLEAN, generation : 0..MaxGen]

Passes ==
  [pc : {"idle", "load", "mark", "gate", "merge"}, base : Manifests, ahead : BOOLEAN,
   old : Seq(Candidates), new : Seq(Candidates), resolved : SUBSET (Key \cup Opaque)]

Ledgers == [exists : BOOLEAN, candidates : {s \in Seq(Candidates) : Len(s) <= MaxCandidates}]

LedgerInv ==
  /\ objects \subseteq Key /\ IsFiniteSet(objects)
  /\ pending \in Ledgers
  /\ pass \in [Pass -> Passes]

(* The three parts of a merge: what it keeps is a bounded list, and of the *)
(* latest ledger only what the pass resolved is gone.                      *)
LEMMA WithoutFilters ==
  ASSUME NEW s \in Seq(Candidates), NEW keys
  PROVE  /\ Without(s, keys) \in Seq(Candidates)
         /\ Len(Without(s, keys)) <= Len(s)
         /\ \A k \in KeysOf(s) \ keys : k \in KeysOf(Without(s, keys))
<1> DEFINE I == {i \in DOMAIN s : s[i].key \notin keys}
           t == Keep(s, I)
           n == Cardinality(I)
<1>1. I \in SUBSET (1 .. Len(s)) /\ I \in SUBSET Int /\ DOMAIN s = 1 .. Len(s) /\ Len(s) \in Nat
  OBVIOUS
<1>2. IsFiniteSet(1 .. Len(s)) /\ Cardinality(1 .. Len(s)) = Len(s)
  BY <1>1, FS_Interval
<1>3. IsFiniteSet(I) /\ n <= Len(s)
  BY <1>1, <1>2, FS_Subset
<1>4. /\ n \in Nat /\ DOMAIN t = 1 .. n
      /\ \A m \in 1 .. n : \E i \in I : t[m] = s[i]
      /\ \A i \in I : \E m \in 1 .. n : t[m] = s[i]
  BY <1>1, <1>3, KeepFilters
<1>5. t = [m \in 1 .. n |-> t[m]]
  BY <1>4 DEF Keep
<1>6. Without(s, keys) = t
  BY DEF Without
<1>7. ASSUME NEW k \in KeysOf(s) \ keys PROVE k \in KeysOf(t)
  <2>1. PICK i \in DOMAIN s : k = s[i].key
    BY DEF KeysOf, Range
  <2>2. i \in I
    BY <2>1
  <2> HIDE DEF t, n, I
  <2>3. PICK m \in 1 .. n : t[m] = s[i]
    BY <1>4, <2>2
  <2>4. m \in DOMAIN t /\ t[m].key = k
    BY <1>4, <2>1, <2>3
  <2>5. QED
    BY <2>4 DEF KeysOf, Range
<1> HIDE DEF t, n
<1>8. \A m \in 1 .. n : t[m] \in Candidates
  BY <1>4, <1>1
<1>9. t \in Seq(Candidates) /\ Len(t) = n
  <2>1. n \in Nat /\ t \in [1 .. n -> Candidates]
    BY <1>4, <1>5, <1>8
  <2>2. QED
    BY <2>1
<1>10. QED
  BY <1>3, <1>6, <1>7, <1>9

LEMMA MergeKeeps ==
  ASSUME LedgerInv, NEW p \in Pass
  PROVE  LET latest == pending.candidates
             merged == mergeGcPending(latest, p)
         IN  /\ merged \in Seq(Candidates) /\ Len(merged) <= MaxCandidates
             /\ \A k \in KeysOf(latest) : k \in pass[p].resolved \/ k \in KeysOf(merged)
<1> DEFINE latest    == pending.candidates
           surviving == Without(latest, pass[p].resolved)
           appended  == Without(pass[p].new, pass[p].resolved \cup KeysOf(surviving))
           all       == surviving \o appended
           n         == Min({Len(all), MaxCandidates})
<1>1. /\ latest \in Seq(Candidates) /\ Len(latest) <= MaxCandidates
      /\ pass[p].new \in Seq(Candidates)
  BY DEF LedgerInv, Ledgers, Passes
<1>2. mergeGcPending(latest, p) = SubSeq(all, 1, n)
  BY DEF mergeGcPending
<1>3. /\ surviving \in Seq(Candidates) /\ Len(surviving) <= Len(latest)
      /\ \A k \in KeysOf(latest) \ pass[p].resolved : k \in KeysOf(surviving)
  BY <1>1, WithoutFilters
<1>4. appended \in Seq(Candidates)
  BY <1>1, WithoutFilters
<1> HIDE DEF surviving, appended, latest
<1>5. /\ all \in Seq(Candidates) /\ Len(all) \in Nat /\ Len(surviving) \in Nat
      /\ Len(surviving) <= Len(all) /\ Len(latest) \in Nat
      /\ \A i \in 1 .. Len(surviving) : all[i] = surviving[i]
  BY <1>1, <1>3, <1>4
<1> HIDE DEF all
<1>6. n \in Nat /\ n <= Len(all) /\ n <= MaxCandidates /\ Len(surviving) <= n
  BY <1>1, <1>3, <1>5, CapAssumption, MinOfTwo
<1> HIDE DEF n
<1>7. /\ SubSeq(all, 1, n) \in Seq(Candidates) /\ Len(SubSeq(all, 1, n)) = n
      /\ \A i \in 1 .. n : SubSeq(all, 1, n)[i] = all[i]
  BY <1>5, <1>6
<1>8. ASSUME NEW k \in KeysOf(surviving) PROVE k \in KeysOf(SubSeq(all, 1, n))
  <2>1. PICK i \in 1 .. Len(surviving) : k = surviving[i].key
    BY <1>3 DEF KeysOf, Range
  <2>2. i \in DOMAIN SubSeq(all, 1, n) /\ SubSeq(all, 1, n)[i].key = k
    BY <1>5, <1>6, <1>7, <2>1
  <2>3. QED
    BY <2>2 DEF KeysOf, Range
<1>9. QED
  BY <1>2, <1>3, <1>6, <1>7, <1>8 DEF latest

LEMMA MarksType ==
  ASSUME LedgerInv, NEW p \in Pass PROVE Marks(p) \in Seq(Candidates)
<1> DEFINE listed  == {k \in objects : Cardinality({l \in objects : Before(l, k)}) < MaxMarks}
           orphans == {k \in listed : k # pass[p].base.snapshot /\ k \notin KeysOf(pass[p].old)}
           R       == {kl \in orphans \X orphans : Before(kl[1], kl[2])}
           inOrder == InOrder(orphans, R)
<1>1. orphans \in SUBSET objects /\ orphans \in SUBSET Key /\ IsFiniteSet(objects)
  BY DEF LedgerInv
<1>2. IsFiniteSet(orphans)
  BY <1>1, FS_Subset
<1>3. Marks(p) = [i \in DOMAIN inOrder |-> Candidate(inOrder[i], pass[p].base.generation)]
  BY DEF Marks
<1>4. \A x, y \in orphans : <<x, y>> \in R <=> Before(x, y)
  OBVIOUS
<1> HIDE DEF listed, orphans, R
<1>5. Orders(R, orphans)
  <2>1. \A x \in orphans : /\ x = [at |-> x.at, body |-> x.body]
                           /\ x.at \in Int /\ x.body \in Int
    <3> SUFFICES ASSUME NEW x \in orphans
                 PROVE  x = [at |-> x.at, body |-> x.body] /\ x.at \in Int /\ x.body \in Int
      OBVIOUS
    <3>1. x \in [at : 0..MaxPos, body : Data]
      BY <1>1 DEF Key
    <3>2. x = [at |-> x.at, body |-> x.body] /\ x.at \in 0..MaxPos /\ x.body \in Data
      BY <3>1
    <3>3. QED
      BY <3>2, DataAssumption
  <2>2. ASSUME NEW x \in orphans PROVE <<x, x>> \notin R
    BY <1>4, <2>1 DEF Before
  <2>3. ASSUME NEW x \in orphans, NEW y \in orphans, NEW z \in orphans,
               <<x, y>> \in R, <<y, z>> \in R
        PROVE  <<x, z>> \in R
    <3>1. {x.at, x.body, y.at, y.body, z.at, z.body} \subseteq Int
      BY <2>1
    <3>2. /\ x.at < y.at \/ (x.at = y.at /\ x.body < y.body)
          /\ y.at < z.at \/ (y.at = z.at /\ y.body < z.body)
      BY <1>4, <2>3 DEF Before
    <3>3. x.at < z.at \/ (x.at = z.at /\ x.body < z.body)
      BY <3>1, <3>2
    <3>4. QED
      BY <1>4, <3>3 DEF Before
  <2>4. ASSUME NEW x \in orphans, NEW y \in orphans, x # y
        PROVE  <<x, y>> \in R \/ <<y, x>> \in R
    <3>1. {x.at, x.body, y.at, y.body} \subseteq Int /\ (x.at # y.at \/ x.body # y.body)
      BY <2>1, <2>4
    <3>2. \/ x.at < y.at \/ (x.at = y.at /\ x.body < y.body)
          \/ y.at < x.at \/ (y.at = x.at /\ y.body < x.body)
      BY <3>1
    <3>3. QED
      BY <1>4, <3>2 DEF Before
  <2>5. QED
    BY <2>2, <2>3, <2>4 DEF Orders
<1>6. Cardinality(orphans) \in Nat /\ inOrder \in [1 .. Cardinality(orphans) -> orphans]
  BY <1>2, <1>5, InOrderLists
<1> HIDE DEF inOrder
<1>7. pass[p].base.generation \in 0..MaxGen
  BY DEF LedgerInv, Passes, Manifests
<1>8. \A i \in DOMAIN inOrder : Candidate(inOrder[i], pass[p].base.generation) \in Candidates
  BY <1>1, <1>6, <1>7 DEF Candidate, Candidates
<1>9. QED
  BY <1>3, <1>6, <1>8

LEMMA LedgerInit == Init => LedgerInv
<1> SUFFICES ASSUME Init PROVE LedgerInv
  OBVIOUS
<1>1. objects \subseteq Key /\ IsFiniteSet(objects)
  BY FS_EmptySet DEF Init
<1>2. ZeroManifest \in Manifests
  BY MaxPosAssumption, MaxGenAssumption DEF ZeroManifest, Manifests
<1>3. pass \in [Pass -> Passes]
  BY <1>2 DEF Init, Passes, IdlePass
<1>4. PICK s \in LegacyLedgers : pending = [exists |-> s # <<>>, candidates |-> s]
  BY DEF Init
<1>5. PICK t \in SeqOf(Opaque, MaxCandidates) : s = [i \in DOMAIN t |-> Candidate(t[i], 0)]
  BY <1>4 DEF LegacyLedgers
<1>6. PICK m \in 0 .. MaxCandidates : t \in [1 .. m -> Opaque]
  BY <1>5 DEF SeqOf
<1>7. \A i \in 1 .. m : Candidate(t[i], 0) \in Candidates
  BY <1>6, MaxGenAssumption DEF Candidate, Candidates
<1>8. m \in Nat /\ m <= MaxCandidates /\ DOMAIN t = 1 .. m
  BY <1>6, CapAssumption
<1>9. s \in Seq(Candidates) /\ Len(s) <= MaxCandidates
  BY <1>5, <1>7, <1>8
<1>10. pending \in Ledgers
  BY <1>4, <1>9 DEF Ledgers
<1>11. QED
  BY <1>1, <1>3, <1>10 DEF LedgerInv

(* What a step of a pass does to the ledger's invariant.                   *)
LEMMA PassLedger ==
  ASSUME GcInv, LedgerInv, NEW p \in Pass, GcStep(p) \/ GcFail(p)
  PROVE  LedgerInv'
<1> USE DEF LedgerInv
<1>1. pass[p] \in Passes /\ pass \in [Pass -> Passes]
  OBVIOUS
<1>2. current \in Manifests
  BY DEF GcInv, GcTypes
<1>3. IdlePass \in Passes
  BY MaxPosAssumption, MaxGenAssumption DEF IdlePass, Passes, ZeroManifest, Manifests
<1>4. CASE GcStart(p)
  <2>1. PICK ahead \in ClockSkew :
          pass' = [pass EXCEPT ![p] = [IdlePass EXCEPT !.pc = "load",
                                       !.base = current, !.ahead = ahead]]
    BY <1>4 DEF GcStart
  <2>2. [IdlePass EXCEPT !.pc = "load", !.base = current, !.ahead = ahead] \in Passes
    BY <1>2, <1>3, SkewAssumption DEF Passes
  <2>3. pass' \in [Pass -> Passes]
    BY <1>1, <2>1, <2>2
  <2>4. objects' = objects /\ pending' = pending
    BY <1>4 DEF GcStart
  <2>5. QED
    BY <2>3, <2>4
<1>5. CASE GcLoad(p)
  <2>1. /\ pass' = [pass EXCEPT ![p].pc = "mark", ![p].old = pending.candidates]
        /\ pending' = [pending EXCEPT !.exists = TRUE] /\ objects' = objects
    BY <1>5 DEF GcLoad
  <2>2. pending' \in Ledgers /\ pending.candidates \in Seq(Candidates)
    BY <2>1 DEF Ledgers
  <2>3. pass' \in [Pass -> Passes]
    BY <1>1, <2>1, <2>2 DEF Passes
  <2>4. QED
    BY <2>1, <2>2, <2>3
<1>6. CASE GcMark(p)
  <2>1. /\ pass' = [pass EXCEPT ![p].pc = "gate", ![p].new = Marks(p)]
        /\ pending' = pending /\ objects' = objects
    BY <1>6 DEF GcMark
  <2>2. Marks(p) \in Seq(Candidates)
    BY MarksType
  <2>3. pass' \in [Pass -> Passes]
    BY <1>1, <2>1, <2>2 DEF Passes
  <2>4. QED
    BY <2>1, <2>3
<1>7. CASE GcGate(p)
  <2> DEFINE cands   == pass[p].old \o pass[p].new
             fence   == IF HasDueSnapshot(p, cands) THEN current ELSE pass[p].base
             dropped == Dropped(p, cands, fence)
             swept   == Swept(p, cands, fence, dropped)
  <2>1. /\ pass' = [pass EXCEPT ![p].pc = "merge", ![p].resolved = swept \cup dropped]
        /\ pending' = pending /\ objects' = objects
    BY <1>7 DEF GcGate
  <2>2. cands \in Seq(Candidates)
    BY <1>1 DEF Passes
  <2> HIDE DEF cands
  <2>3. \A i \in DOMAIN cands : cands[i].key \in Key \cup Opaque
    <3>1. \A i \in DOMAIN cands : cands[i] \in Candidates
      BY <2>2
    <3>2. \A c \in Candidates : c.key \in Key \cup Opaque
      BY DEF Candidates
    <3>3. QED
      BY <3>1, <3>2
  <2>4. \A c \in Range(cands) : c.key \in Key \cup Opaque
    BY <2>3 DEF Range
  <2> HIDE DEF fence
  <2>5. dropped \in SUBSET (Key \cup Opaque)
    BY <2>4 DEF Dropped
  <2> HIDE DEF dropped
  <2>6. swept \in SUBSET (Key \cup Opaque)
    BY <2>3 DEF Swept
  <2> HIDE DEF swept
  <2>7. pass' \in [Pass -> Passes]
    BY <1>1, <2>1, <2>5, <2>6 DEF Passes
  <2>8. QED
    BY <2>1, <2>7
<1>8. CASE GcMerge(p)
  <2>1. /\ pass' = [pass EXCEPT ![p] = IdlePass] /\ objects' = objects
        /\ pending' = IF pending.exists
                      THEN [pending EXCEPT !.candidates = mergeGcPending(@, p)]
                      ELSE pending
    BY <1>8 DEF GcMerge
  <2>2. /\ mergeGcPending(pending.candidates, p) \in Seq(Candidates)
        /\ Len(mergeGcPending(pending.candidates, p)) <= MaxCandidates
    BY MergeKeeps
  <2>3. pending' \in Ledgers
    BY <2>1, <2>2 DEF Ledgers
  <2>4. pass' \in [Pass -> Passes]
    BY <1>1, <1>3, <2>1
  <2>5. QED
    BY <2>1, <2>3, <2>4
<1>9. CASE GcFail(p)
  <2>1. pass' = [pass EXCEPT ![p] = IdlePass] /\ objects' = objects /\ pending' = pending
    BY <1>9 DEF GcFail
  <2>2. pass' \in [Pass -> Passes]
    BY <1>1, <1>3, <2>1
  <2>3. QED
    BY <2>1, <2>2
<1>10. QED
  BY <1>4, <1>5, <1>6, <1>7, <1>8, <1>9 DEF GcStep

(* Time makes candidates due and changes nothing else about them.          *)
LEMMA AgedKeeps ==
  ASSUME NEW s \in Seq(Candidates)
  PROVE  /\ Aged(s) \in Seq(Candidates) /\ Len(Aged(s)) = Len(s)
         /\ KeysOf(Aged(s)) = KeysOf(s)
<1>1. \A i \in DOMAIN s : /\ [s[i] EXCEPT !.due = TRUE] \in Candidates
                          /\ [s[i] EXCEPT !.due = TRUE].key = s[i].key
  <2>1. \A i \in DOMAIN s : s[i] \in Candidates
    OBVIOUS
  <2>2. \A c \in Candidates : /\ [c EXCEPT !.due = TRUE] \in Candidates
                             /\ [c EXCEPT !.due = TRUE].key = c.key
    BY DEF Candidates
  <2>3. QED
    BY <2>1, <2>2
<1>2. Aged(s) = [i \in 1 .. Len(s) |-> [s[i] EXCEPT !.due = TRUE]] /\ Len(s) \in Nat
      /\ DOMAIN s = 1 .. Len(s)
  BY DEF Aged
<1>3. Aged(s) \in Seq(Candidates) /\ Len(Aged(s)) = Len(s)
  BY <1>1, <1>2
<1>4. DOMAIN Aged(s) = DOMAIN s /\ \A i \in DOMAIN s : Aged(s)[i].key = s[i].key
  BY <1>1, <1>2
<1>5. QED
  BY <1>3, <1>4 DEF KeysOf, Range

LEMMA LedgerNext == ASSUME GcInv, LedgerInv, [Next]_gcVars PROVE LedgerInv'
<1> USE DEF LedgerInv
<1>1. CASE UNCHANGED gcVars
  BY <1>1 DEF gcVars
<1>2. ASSUME NEW f \in Compactor, FoldBegin(f) \/ FoldPut(f) \/ FoldCas(f) \/ FoldEnd(f)
      PROVE  LedgerInv'
  <2>1. pending' = pending /\ pass' = pass
    BY <1>2 DEF FoldBegin, FoldPut, FoldCas, FoldEnd
  <2>2. CASE FoldPut(f)
    <3>1. objects' = objects \cup {fold[f].key} /\ fold[f].pc = "put"
      BY <2>2 DEF FoldPut
    <3>2. fold[f].key \in Key
      BY <3>1 DEF GcInv, FoldsAhead
    <3>3. IsFiniteSet(objects')
      BY <3>1, FS_AddElement
    <3>4. QED
      BY <2>1, <3>1, <3>2, <3>3
  <2>3. CASE ~FoldPut(f)
    <3>1. objects' = objects
      BY <1>2, <2>3 DEF FoldBegin, FoldCas, FoldEnd
    <3>2. QED
      BY <2>1, <3>1
  <2>4. QED
    BY <2>2, <2>3
<1>3. ASSUME NEW p \in Pass, GcStep(p) \/ GcFail(p) PROVE LedgerInv'
  BY <1>3, PassLedger
<1>4. ASSUME NEW k \in Key, StrayDelete(k) \/ \E p \in Pass : GcDelete(p, k) PROVE LedgerInv'
  <2>1. objects' = objects \ {k} /\ pending' = pending /\ pass' = pass
    BY <1>4 DEF StrayDelete, GcDelete
  <2>2. IsFiniteSet(objects \ {k})
    BY FS_RemoveElement
  <2>3. QED
    BY <2>1, <2>2
<1>5. CASE GraceElapses
  <2>1. /\ pending' = [pending EXCEPT !.candidates = Aged(@)]
        /\ objects' = objects /\ pass' = pass
    BY <1>5 DEF GraceElapses
  <2>2. pending.candidates \in Seq(Candidates) /\ Len(pending.candidates) <= MaxCandidates
    BY DEF Ledgers
  <2>3. Aged(pending.candidates) \in Seq(Candidates)
        /\ Len(Aged(pending.candidates)) = Len(pending.candidates)
    BY <2>2, AgedKeeps
  <2>4. pending' \in Ledgers
    BY <2>1, <2>2, <2>3 DEF Ledgers
  <2>5. QED
    BY <2>1, <2>4
<1>6. CASE RestoreReseed
  BY <1>6 DEF RestoreReseed
<1>7. CASE RestoreClear
  <2>1. /\ pending' = [exists |-> FALSE, candidates |-> <<>>]
        /\ objects' = objects /\ pass' = pass
    BY <1>7 DEF RestoreClear
  <2>2. pending' \in Ledgers
    BY <2>1, CapAssumption DEF Ledgers
  <2>3. QED
    BY <2>1, <2>2
<1>8. ASSUME NEW r \in Reader, ReadHead(r) \/ ReadLoad(r) PROVE LedgerInv'
  BY <1>8 DEF ReadHead, ReadLoad
<1>9. QED
  BY <1>1, <1>2, <1>3, <1>4, <1>5, <1>6, <1>7, <1>8 DEF Next

(* Only a merge or a restore takes candidates out of the ledger.           *)
LEMMA MarksStep ==
  ASSUME LedgerInv, [Next]_gcVars
  PROVE  \A k \in KeysOf(pending.candidates) :
           \/ k \in KeysOf(pending'.candidates)
           \/ ~pending'.exists
           \/ \E p \in Pass : k \in pass[p].resolved
<1> SUFFICES ASSUME pending' # pending, NEW k \in KeysOf(pending.candidates)
             PROVE  \/ k \in KeysOf(pending'.candidates)
                    \/ ~pending'.exists
                    \/ \E p \in Pass : k \in pass[p].resolved
  OBVIOUS
<1>1. pending \in Ledgers
  BY DEF LedgerInv
<1>2. ASSUME NEW p \in Pass, GcLoad(p) PROVE k \in KeysOf(pending'.candidates)
  <2>1. pending' = [pending EXCEPT !.exists = TRUE]
    BY <1>2 DEF GcLoad
  <2>2. pending'.candidates = pending.candidates
    BY <1>1, <2>1 DEF Ledgers
  <2>3. QED
    BY <2>2
<1>3. ASSUME NEW p \in Pass, GcMerge(p)
      PROVE  k \in pass[p].resolved \/ k \in KeysOf(pending'.candidates)
  <2>1. pending' = [pending EXCEPT !.candidates = mergeGcPending(@, p)]
    BY <1>3 DEF GcMerge
  <2>2. pending'.candidates = mergeGcPending(pending.candidates, p)
    BY <1>1, <2>1 DEF Ledgers
  <2>3. QED
    BY <2>2, MergeKeeps
<1>4. CASE GraceElapses
  <2>1. pending' = [pending EXCEPT !.candidates = Aged(@)]
    BY <1>4 DEF GraceElapses
  <2>2. pending'.candidates = Aged(pending.candidates) /\ pending.candidates \in Seq(Candidates)
    BY <1>1, <2>1 DEF Ledgers
  <2>3. QED
    BY <2>2, AgedKeeps
<1>5. CASE RestoreClear
  BY <1>5 DEF RestoreClear
<1>6. \/ \E p \in Pass : GcLoad(p) \/ GcMerge(p)
      \/ GraceElapses \/ RestoreClear
  BY DEF Next, gcVars, FoldBegin, FoldPut, FoldCas, FoldEnd, GcStep, GcStart, GcMark, GcGate,
         GcFail, GcDelete, StrayDelete, RestoreReseed, ReadHead, ReadLoad
<1>7. QED
  BY <1>2, <1>3, <1>4, <1>5, <1>6

(* A candidate leaves the ledger only because a pass resolved it or a      *)
(* restore deleted the ledger: casUpdateGcPending merges into what         *)
(* concurrent passes have written, and the cap of mergeGcPending only ever *)
(* cuts new marks.                                                         *)
THEOREM MarksAreKept == Spec => MarksSurvive
<1>1. LedgerInv /\ [Next]_gcVars
        => [ \A k \in KeysOf(pending.candidates) :
               \/ k \in KeysOf(pending'.candidates)
               \/ ~pending'.exists
               \/ \E p \in Pass : k \in pass[p].resolved ]_gcVars
  BY MarksStep
<1>2. GcInv /\ LedgerInv /\ [Next]_gcVars => LedgerInv'
  BY LedgerNext
<1>3. QED
  BY GcInvInit, GcInvNext, LedgerInit, <1>1, <1>2, PTL DEF Spec, MarksSurvive

-----------------------------------------------------------------------------
(* Readers.  Clocks agree here, so that a mark a pass makes is not due in  *)
(* that pass; and the snapshot of a read that is shorter than the grace    *)
(* stays: it is in the bucket, no DELETE of it is under way and no mark of *)
(* it is due.                                                              *)
Reads == [pc : {"idle", "load", "missing"}, snapshot : Key \cup {NoKey},
          aged : BOOLEAN, suspect : BOOLEAN]

FreshMarks ==
  \A p \in Pass : ~pass[p].ahead /\ \A i \in DOMAIN pass[p].new : ~pass[p].new[i].due

Stays(k) == k \in objects /\ k \notin Deleting /\ ~MarkIsDue(k)

Covered(x) ==
  /\ x.pc = "missing" => x.aged \/ x.suspect
  /\ x.pc = "load" => x.aged \/ x.suspect \/ Stays(x.snapshot)

ReadInv == read \in [Reader -> Reads] /\ FreshMarks /\ \A r \in Reader : Covered(read[r])

(* No candidate of the list s for the key k is due.                        *)
NoneDue(s, k) == \A i \in DOMAIN s : s[i].key = k => ~s[i].due

LEMMA MarkIsDueMeans ==
  ASSUME NEW k
  PROVE  MarkIsDue(k) <=> ~(NoneDue(pending.candidates, k) /\ \A p \in Pass : NoneDue(pass[p].old, k))
BY DEF MarkIsDue, NoneDue, Range

(* A filtered list holds nothing that the list does not.                   *)
LEMMA WithoutTakesFrom ==
  ASSUME NEW s \in Seq(Candidates), NEW keys
  PROVE  \A m \in DOMAIN Without(s, keys) : \E i \in DOMAIN s : Without(s, keys)[m] = s[i]
<1> DEFINE I == {i \in DOMAIN s : s[i].key \notin keys}
<1>1. I \in SUBSET (1 .. Len(s)) /\ I \in SUBSET Int /\ Len(s) \in Nat
  OBVIOUS
<1>2. IsFiniteSet(I)
  BY <1>1, FS_Interval, FS_Subset
<1>3. /\ DOMAIN Keep(s, I) = 1 .. Cardinality(I)
      /\ \A m \in 1 .. Cardinality(I) : \E i \in I : Keep(s, I)[m] = s[i]
  BY <1>1, <1>2, KeepFilters
<1>4. QED
  BY <1>3 DEF Without

(* A merge makes no mark due: what it keeps was there, what it adds is new. *)
LEMMA MergeNoneDue ==
  ASSUME LedgerInv, FreshMarks, NEW p \in Pass, NEW k, NoneDue(pending.candidates, k)
  PROVE  NoneDue(mergeGcPending(pending.candidates, p), k)
<1> DEFINE latest    == pending.candidates
           surviving == Without(latest, pass[p].resolved)
           appended  == Without(pass[p].new, pass[p].resolved \cup KeysOf(surviving))
           all       == surviving \o appended
           n         == Min({Len(all), MaxCandidates})
<1>1. latest \in Seq(Candidates) /\ pass[p].new \in Seq(Candidates)
  BY DEF LedgerInv, Ledgers, Passes
<1>2. mergeGcPending(latest, p) = SubSeq(all, 1, n)
  BY DEF mergeGcPending
<1>3. surviving \in Seq(Candidates) /\ appended \in Seq(Candidates)
  BY <1>1, WithoutFilters
<1>4. \A m \in DOMAIN surviving : \E i \in DOMAIN latest : surviving[m] = latest[i]
  BY <1>1, WithoutTakesFrom
<1>5. \A m \in DOMAIN appended : \E i \in DOMAIN pass[p].new : appended[m] = pass[p].new[i]
  BY <1>1, WithoutTakesFrom
<1>6. \A m \in DOMAIN surviving : surviving[m].key = k => ~surviving[m].due
  BY <1>4 DEF NoneDue
<1>7. \A m \in DOMAIN appended : ~appended[m].due
  BY <1>5 DEF FreshMarks
<1> HIDE DEF surviving, appended, latest
<1>8. /\ all \in Seq(Candidates) /\ Len(all) \in Nat
      /\ \A m \in 1 .. Len(all) : \/ m \in DOMAIN surviving /\ all[m] = surviving[m]
                                  \/ \E i \in DOMAIN appended : all[m] = appended[i]
  <2>1. Len(all) = Len(surviving) + Len(appended) /\ all \in Seq(Candidates)
    BY <1>3
  <2>2. ASSUME NEW m \in 1 .. Len(all), m > Len(surviving)
        PROVE  m - Len(surviving) \in DOMAIN appended /\ all[m] = appended[m - Len(surviving)]
    BY <1>3, <2>1, <2>2
  <2>3. ASSUME NEW m \in 1 .. Len(all), m <= Len(surviving)
        PROVE  m \in DOMAIN surviving /\ all[m] = surviving[m]
    BY <1>3, <2>1, <2>3
  <2>4. QED
    BY <1>3, <2>1, <2>2, <2>3
<1>9. \A m \in 1 .. Len(all) : all[m].key = k => ~all[m].due
  BY <1>6, <1>7, <1>8
<1> HIDE DEF all
<1>10. n \in Nat /\ n <= Len(all)
  BY <1>8, CapAssumption, MinOfTwo
<1> HIDE DEF n
<1>11. DOMAIN SubSeq(all, 1, n) = 1 .. n /\ \A m \in 1 .. n : SubSeq(all, 1, n)[m] = all[m]
  BY <1>8, <1>10
<1>12. QED
  BY <1>2, <1>9, <1>10, <1>11 DEF NoneDue, latest

(* What a pass decides to delete has a mark that is due.                   *)
LEMMA SweptIsDue ==
  ASSUME LedgerInv, FreshMarks, NEW p \in Pass, NEW k, ~MarkIsDue(k), NEW fence, NEW dropped
  PROVE  k \notin Swept(p, pass[p].old \o pass[p].new, fence, dropped)
<1> DEFINE old == pass[p].old  new == pass[p].new  cands == old \o new
<1>1. old \in Seq(Candidates) /\ new \in Seq(Candidates)
  BY DEF LedgerInv, Passes
<1>2. \A i \in DOMAIN old : old[i].key = k => ~old[i].due
  BY MarkIsDueMeans DEF NoneDue
<1>3. ~pass[p].ahead /\ \A i \in DOMAIN new : ~new[i].due
  BY DEF FreshMarks
<1> HIDE DEF old, new
<1>4. ASSUME NEW m \in DOMAIN cands, cands[m].key = k PROVE ~cands[m].due
  <2>1. Len(cands) = Len(old) + Len(new) /\ DOMAIN cands = 1 .. Len(cands)
    BY <1>1
  <2>2. CASE m <= Len(old)
    BY <1>1, <1>2, <1>4, <2>1, <2>2
  <2>3. CASE m > Len(old)
    <3>1. m - Len(old) \in DOMAIN new /\ cands[m] = new[m - Len(old)]
      BY <1>1, <2>1, <2>3
    <3>2. QED
      BY <1>3, <3>1
  <2>4. QED
    BY <1>1, <2>1, <2>2, <2>3
<1> HIDE DEF cands
<1>5. \A j \in DOMAIN cands : Sweepable(p, cands[j], fence, dropped) => cands[j].key # k
  BY <1>3, <1>4 DEF Sweepable, IsDue
<1>6. k \notin Swept(p, cands, fence, dropped)
  BY <1>5 DEF Swept
<1>7. QED
  BY <1>6 DEF cands, old, new

(* Until the grace is over, nothing makes a snapshot go that stays so far. *)
LEMMA StaysNext ==
  ASSUME GcInv, LedgerInv, FreshMarks, [Next]_gcVars, ~GraceElapses, NEW k, Stays(k)
  PROVE  Stays(k)'
<1> DEFINE Kept  == k \in objects' /\ k \notin stray' /\ \A p \in Pass : k \notin sweep'[p]
           Unmarked == NoneDue(pending'.candidates, k) /\ \A p \in Pass : NoneDue(pass'[p].old, k)
<1>1. k \in objects /\ k \notin stray /\ \A p \in Pass : k \notin sweep[p]
  BY DEF Stays, Deleting
<1>2. NoneDue(pending.candidates, k) /\ \A p \in Pass : NoneDue(pass[p].old, k)
  BY MarkIsDueMeans DEF Stays
<1>3. sweep \in [Pass -> SUBSET Key] /\ pass \in [Pass -> Passes] /\ pending \in Ledgers
  BY DEF GcInv, GcTypes, LedgerInv
<1>4. Unmarked => ~MarkIsDue(k)'
  BY DEF MarkIsDue, NoneDue, Range
<1>5. Kept /\ Unmarked => Stays(k)'
  BY <1>4 DEF Stays, Deleting
<1>6. NoneDue(<<>>, k)
  BY DEF NoneDue
<1>7. CASE UNCHANGED <<objects, sweep, stray, pending, pass>>
  BY <1>1, <1>2, <1>5, <1>7
<1>8. ASSUME NEW f \in Compactor, FoldPut(f) PROVE Stays(k)'
  BY <1>1, <1>2, <1>5, <1>8 DEF FoldPut
<1>9. ASSUME NEW p \in Pass, GcStart(p) \/ GcLoad(p) \/ GcMark(p) PROVE Stays(k)'
  <2>1. Kept
    BY <1>1, <1>9 DEF GcStart, GcLoad, GcMark
  <2>2. NoneDue(pending'.candidates, k)
    <3>1. pending'.candidates = pending.candidates
      BY <1>3, <1>9 DEF GcStart, GcLoad, GcMark, Ledgers
    <3>2. QED
      BY <1>2, <3>1
  <2>3. CASE GcStart(p)
    <3>1. \A q \in Pass : pass'[q].old = pass[q].old \/ pass'[q].old = <<>>
      BY <1>3, <2>3 DEF GcStart, IdlePass, Passes
    <3>2. QED
      BY <1>2, <1>5, <1>6, <2>1, <2>2, <3>1
  <2>4. CASE GcLoad(p)
    <3>1. \A q \in Pass : pass'[q].old = pass[q].old \/ pass'[q].old = pending.candidates
      BY <1>3, <2>4 DEF GcLoad, Passes
    <3>2. QED
      BY <1>2, <1>5, <2>1, <2>2, <3>1
  <2>5. CASE GcMark(p)
    <3>1. \A q \in Pass : pass'[q].old = pass[q].old
      BY <1>3, <2>5 DEF GcMark, Passes
    <3>2. QED
      BY <1>2, <1>5, <2>1, <2>2, <3>1
  <2>6. QED
    BY <1>9, <2>3, <2>4, <2>5
<1>10. ASSUME NEW p \in Pass, GcGate(p) PROVE Stays(k)'
  <2> DEFINE cands   == pass[p].old \o pass[p].new
             fence   == IF HasDueSnapshot(p, cands) THEN current ELSE pass[p].base
             dropped == Dropped(p, cands, fence)
             swept   == Swept(p, cands, fence, dropped)
  <2>1. /\ pass' = [pass EXCEPT ![p].pc = "merge", ![p].resolved = swept \cup dropped]
        /\ sweep' = [sweep EXCEPT ![p] = swept]
        /\ UNCHANGED <<objects, stray, pending>>
    BY <1>10 DEF GcGate
  <2>2. ~MarkIsDue(k)
    BY DEF Stays
  <2>3. k \notin swept
    BY <2>2, SweptIsDue
  <2> HIDE DEF swept, dropped
  <2>4. \A q \in Pass : pass'[q].old = pass[q].old
    BY <1>3, <2>1 DEF Passes
  <2>5. QED
    BY <1>1, <1>2, <1>3, <1>5, <2>1, <2>3, <2>4
<1>11. ASSUME NEW p \in Pass, GcMerge(p) \/ GcFail(p) PROVE Stays(k)'
  <2>1. pass' = [pass EXCEPT ![p] = IdlePass] /\ objects' = objects
    BY <1>11 DEF GcMerge, GcFail
  <2>2. \A q \in Pass : pass'[q].old = pass[q].old \/ pass'[q].old = <<>>
    BY <1>3, <2>1 DEF IdlePass
  <2>3. k \notin stray' /\ \A q \in Pass : k \notin sweep'[q]
    BY <1>1, <1>3, <1>11 DEF GcMerge, GcFail
  <2>4. NoneDue(mergeGcPending(pending.candidates, p), k)
    BY <1>2, MergeNoneDue
  <2>5. \/ pending'.candidates = pending.candidates
        \/ pending'.candidates = mergeGcPending(pending.candidates, p)
    BY <1>3, <1>11 DEF GcMerge, GcFail, Ledgers
  <2>6. QED
    BY <1>1, <1>2, <1>5, <1>6, <2>1, <2>2, <2>3, <2>4, <2>5
<1>12. ASSUME NEW j \in Key, StrayDelete(j) \/ \E p \in Pass : GcDelete(p, j) PROVE Stays(k)'
  <2>1. j # k /\ objects' = objects \ {j} /\ UNCHANGED <<pending, pass>>
    BY <1>1, <1>12 DEF StrayDelete, GcDelete
  <2>2. k \notin stray' /\ \A q \in Pass : k \notin sweep'[q]
    BY <1>1, <1>3, <1>12 DEF StrayDelete, GcDelete
  <2>3. QED
    BY <1>1, <1>2, <1>5, <2>1, <2>2
<1>13. CASE RestoreClear
  <2>1. pending'.candidates = <<>> /\ UNCHANGED <<objects, sweep, stray, pass>>
    BY <1>13 DEF RestoreClear
  <2>2. QED
    BY <1>1, <1>2, <1>5, <1>6, <2>1
<1>14. QED
  BY <1>7, <1>8, <1>9, <1>10, <1>11, <1>12, <1>13
  DEF Next, gcVars, GcStep, FoldBegin, FoldCas, FoldEnd, RestoreReseed, ReadHead, ReadLoad

(* Clocks agree: no mark is due in the pass that makes it.                 *)
LEMMA FreshMarksNext ==
  ASSUME LedgerInv, FreshMarks, TRUE \notin ClockSkew, [Next]_gcVars
  PROVE  FreshMarks'
<1>1. pass \in [Pass -> Passes]
  BY DEF LedgerInv
<1>2. ~IdlePass.ahead /\ IdlePass.new = <<>>
  BY DEF IdlePass
<1>3. ASSUME NEW p \in Pass, GcStart(p) PROVE FreshMarks'
  <2>1. PICK ahead \in ClockSkew :
          pass' = [pass EXCEPT ![p] = [IdlePass EXCEPT !.pc = "load", !.base = current, !.ahead = ahead]]
    BY <1>3 DEF GcStart
  <2>2. ~ahead
    BY SkewAssumption
  <2>3. \A q \in Pass : (q = p /\ ~pass'[q].ahead /\ pass'[q].new = <<>>) \/ pass'[q] = pass[q]
    BY <1>1, <2>1, <2>2 DEF IdlePass
  <2>4. QED
    BY <2>3 DEF FreshMarks
<1>4. ASSUME NEW p \in Pass, GcMark(p) PROVE FreshMarks'
  <2>1. pass' = [pass EXCEPT ![p].pc = "gate", ![p].new = Marks(p)]
    BY <1>4 DEF GcMark
  <2>2. \A i \in DOMAIN Marks(p) : ~Marks(p)[i].due
    BY DEF Marks, Candidate
  <2>3. \A q \in Pass : /\ pass'[q].ahead = pass[q].ahead
                        /\ (q = p /\ pass'[q].new = Marks(p)) \/ pass'[q].new = pass[q].new
    BY <1>1, <2>1 DEF Passes
  <2>4. QED
    BY <2>2, <2>3 DEF FreshMarks
<1>5. ASSUME NEW p \in Pass, GcLoad(p) \/ GcGate(p) PROVE FreshMarks'
  <2>1. \/ pass' = [pass EXCEPT ![p].pc = "mark", ![p].old = pending.candidates]
        \/ \E resolved : pass' = [pass EXCEPT ![p].pc = "merge", ![p].resolved = resolved]
    BY <1>5 DEF GcLoad, GcGate
  <2>2. \A q \in Pass : pass'[q].ahead = pass[q].ahead /\ pass'[q].new = pass[q].new
    <3>1. pass[p] \in Passes
      BY <1>1
    <3>2. ASSUME NEW x
          PROVE  /\ [pass[p] EXCEPT !.pc = "mark", !.old = x].ahead = pass[p].ahead
                 /\ [pass[p] EXCEPT !.pc = "mark", !.old = x].new = pass[p].new
                 /\ [pass[p] EXCEPT !.pc = "merge", !.resolved = x].ahead = pass[p].ahead
                 /\ [pass[p] EXCEPT !.pc = "merge", !.resolved = x].new = pass[p].new
      BY <3>1 DEF Passes
    <3>3. \A q \in Pass : \/ pass'[q] = pass[q]
                          \/ q = p /\ \E x : \/ pass'[q] = [pass[p] EXCEPT !.pc = "mark", !.old = x]
                                            \/ pass'[q] = [pass[p] EXCEPT !.pc = "merge", !.resolved = x]
      BY <1>1, <2>1
    <3>4. ASSUME NEW q \in Pass, pass'[q] # pass[q]
          PROVE  pass'[q].ahead = pass[q].ahead /\ pass'[q].new = pass[q].new
      <4>1. q = p
        BY <3>3, <3>4
      <4>2. PICK x : \/ pass'[q] = [pass[p] EXCEPT !.pc = "mark", !.old = x]
                     \/ pass'[q] = [pass[p] EXCEPT !.pc = "merge", !.resolved = x]
        BY <3>3, <3>4
      <4>3. QED
        BY <3>2, <4>1, <4>2
    <3>5. QED
      BY <3>4
  <2>3. QED
    BY <2>2 DEF FreshMarks
<1>6. ASSUME NEW p \in Pass, GcMerge(p) \/ GcFail(p) PROVE FreshMarks'
  <2>1. \A q \in Pass : pass'[q] = pass[q] \/ pass'[q] = IdlePass
    BY <1>1, <1>6 DEF GcMerge, GcFail
  <2>2. QED
    BY <1>2, <2>1 DEF FreshMarks
<1>7. CASE UNCHANGED pass
  BY <1>7 DEF FreshMarks
<1>8. QED
  BY <1>3, <1>4, <1>5, <1>6, <1>7
  DEF Next, gcVars, GcStep, FoldBegin, FoldPut, FoldCas, FoldEnd, GcDelete, StrayDelete,
      GraceElapses, RestoreReseed, RestoreClear, ReadHead, ReadLoad

LEMMA ReadInvNext ==
  ASSUME GcInv, LedgerInv, ReadInv, TRUE \notin ClockSkew, [Next]_gcVars
  PROVE  ReadInv'
<1> USE DEF ReadInv
<1>1. FreshMarks'
  BY FreshMarksNext
<1>2. ASSUME NEW r \in Reader, ReadHead(r) PROVE ReadInv'
  <2>1. /\ current.snapshot # NoKey
        /\ read' = [read EXCEPT ![r] = [pc |-> "load", snapshot |-> current.snapshot,
                                        aged |-> FALSE, suspect |-> MarkIsDue(current.snapshot)]]
        /\ UNCHANGED <<objects, sweep, stray, pending, pass>>
    BY <1>2 DEF ReadHead
  <2>2. current.snapshot \in Key \cup {NoKey} /\ current.snapshot \in objects
        /\ current.snapshot.at = current.floor /\ current.floor \in Int
    BY <2>1 DEF GcInv, GcTypes, Manifests, LiveAtFloor
  <2>3. current.snapshot \notin Deleting
    BY <2>2 DEF GcInv, DeletesBelowFloor
  <2>4. MarkIsDue(current.snapshot) \in BOOLEAN
    BY DEF MarkIsDue
  <2>5. \A k : Stays(k)' <=> Stays(k)
    BY <2>1 DEF Stays, Deleting, MarkIsDue
  <2>6. read' \in [Reader -> Reads]
    BY <2>1, <2>2, <2>4 DEF Reads
  <2>7. ASSUME NEW q \in Reader PROVE Covered(read[q])'
    BY <2>1, <2>2, <2>3, <2>5 DEF Covered, Stays
  <2>8. QED
    BY <1>1, <2>6, <2>7
<1>3. CASE GraceElapses
  <2>1. read' = [r \in Reader |-> [read[r] EXCEPT !.aged = @ \/ read[r].pc = "load"]]
    BY <1>3 DEF GraceElapses
  <2>2. read' \in [Reader -> Reads]
    BY <2>1 DEF Reads
  <2>3. ASSUME NEW q \in Reader PROVE Covered(read[q])'
    BY <2>1 DEF Covered, Reads
  <2>4. QED
    BY <1>1, <2>2, <2>3
<1>4. ASSUME NEW r \in Reader, ReadLoad(r) PROVE ReadInv'
  <2>1. /\ read[r].pc = "load"
        /\ read' = [read EXCEPT ![r] = IF read[r].snapshot \in objects THEN IdleRead
                                       ELSE [read[r] EXCEPT !.pc = "missing"]]
        /\ UNCHANGED <<objects, sweep, stray, pending, pass>>
    BY <1>4 DEF ReadLoad
  <2>2. IdleRead \in Reads /\ IdleRead.pc = "idle"
    BY DEF IdleRead, Reads
  <2>3. \A k : Stays(k)' <=> Stays(k)
    BY <2>1 DEF Stays, Deleting, MarkIsDue
  <2>4. read' \in [Reader -> Reads]
    BY <2>1, <2>2 DEF Reads
  <2>5. read[r].snapshot \notin objects => read[r].aged \/ read[r].suspect
    BY <2>1 DEF Covered, Stays
  <2>6. ASSUME NEW q \in Reader PROVE Covered(read[q])'
    <3>1. CASE q # r
      BY <2>1, <2>3, <3>1 DEF Covered
    <3>2. CASE q = r /\ read[r].snapshot \in objects
      BY <2>1, <2>2, <3>2 DEF Covered
    <3>3. CASE q = r /\ read[r].snapshot \notin objects
      BY <2>1, <2>5, <3>3 DEF Covered, Reads
    <3>4. QED
      BY <3>1, <3>2, <3>3
  <2>7. QED
    BY <1>1, <2>4, <2>6
<1>5. CASE UNCHANGED read /\ ~GraceElapses
  <2>1. ASSUME NEW q \in Reader PROVE Covered(read[q])'
    <3>1. \A k : Stays(k) => Stays(k)'
      BY <1>5, StaysNext
    <3>2. QED
      BY <1>5, <3>1 DEF Covered
  <2>2. QED
    BY <1>1, <1>5, <2>1
<1>6. QED
  BY <1>2, <1>3, <1>4, <1>5
  DEF Next, gcVars, FoldBegin, FoldPut, FoldCas, FoldEnd, GcStep, GcStart, GcLoad,
      GcMark, GcGate, GcMerge, GcFail, GcDelete, StrayDelete, RestoreReseed, RestoreClear

(* If the clocks of passes agree, a read shorter than the grace finds the  *)
(* snapshot it was pointed to, unless a mark of it was due when it began:  *)
(* computeDueAt counts the grace from the mark.                            *)
THEOREM GraceCoversReads ==
  ASSUME TRUE \notin ClockSkew PROVE Spec => []GraceCoversRead
<1>1. Init => ReadInv
  BY DEF Init, ReadInv, Reads, IdleRead, IdlePass, FreshMarks, Covered
<1>2. ReadInv => GraceCoversRead
  BY DEF ReadInv, Covered, GraceCoversRead
<1>3. GcInv /\ LedgerInv /\ [Next]_gcVars => LedgerInv'
  BY LedgerNext
<1>4. GcInv /\ LedgerInv /\ ReadInv /\ [Next]_gcVars => ReadInv'
  BY ReadInvNext
<1>5. QED
  BY GcInvInit, GcInvNext, LedgerInit, <1>1, <1>2, <1>3, <1>4, PTL DEF Spec

-----------------------------------------------------------------------------
(* The write tick: what ticks still owe accounts for what lags.            *)

Phases == {"idle", "read", "finally", "fold", "signal", "gc", "retire", "put"}

Ticks ==
  [pc : Phases, prev : Nat, next : Nat, lagging : BOOLEAN, warnDue : BOOLEAN, gcDue : BOOLEAN,
   published : BOOLEAN, stamp : BOOLEAN, unchanged : BOOLEAN, then : Phases]

Currents == [start : Nat, hint : Nat, floor : Nat, warned : Int]

TickTypes ==
  /\ phases \in {"single", "both", "disabled"} /\ logTail \in Nat
  /\ cur \in Currents
  /\ cur.start <= logTail /\ cur.hint <= logTail
  /\ tick \in [Isolate -> Ticks] /\ \A w \in Isolate : tick[w].next <= logTail
  /\ gcAt \in Nat /\ tickFaults \in Nat

(* A commit that crosses a multiple of the interval dispatches a tick; with *)
(* the phases disabled, every commit does, once the hint lags.             *)
Interval == IF phases = "disabled" THEN 1 ELSE GcInterval

(* The tick has still to decide whether to refresh tail_hint, or will.     *)
Owing(t) ==
  t.pc # "idle" /\ (t.pc \in {"read", "put"} \/ (t.lagging /\ ~t.published))

OwingFrom(m) == {w \in Isolate : Owing(tick[w]) /\ tick[w].next >= m}

(* Beyond the refresh gap, the boundaries from any one on are no more than *)
(* the faults so far and the ticks that started no lower and still owe.    *)
LagIsOwed ==
  \A j, k \in Nat :
    cur.hint + RefreshGap <= j * Interval /\ j <= k /\ k * Interval <= logTail =>
      k - j + 1 <= tickFaults + Cardinality(OwingFrom(j * Interval))

(* The tick will run a GC pass.                                            *)
WillCollect(t) ==
  \/ t.pc = "read" /\ \E j \in Nat : t.prev < j * HardInterval /\ j * HardInterval <= t.next
  \/ t.pc = "gc"
  \/ t.pc = "fold" /\ phases = "both" /\ t.gcDue
  \/ t.pc = "signal" /\ ((t.then = "idle" /\ t.gcDue) \/ t.then = "gc")
  \/ t.pc = "put" /\ t.then = "gc"

Collectors == {w \in Isolate : WillCollect(tick[w])}

(* The hard boundaries since the last GC pass are no more than the faults  *)
(* so far and the ticks that will run one.                                 *)
GcIsOwed ==
  phases # "disabled" =>
    \A j, k \in Nat :
      gcAt < j * HardInterval /\ j <= k /\ k * HardInterval <= logTail =>
        k - j + 1 <= tickFaults + Cardinality(Collectors)

TickInv == TickTypes /\ LagIsOwed /\ GcIsOwed

-----------------------------------------------------------------------------
(* Arithmetic of boundaries.                                               *)

LEMMA TickFacts ==
  /\ GcInterval \in Nat /\ GcInterval >= 1 /\ StarveGuard \in Nat /\ StarveGuard >= 1
  /\ RefreshGap \in Nat /\ RefreshGap >= 1 /\ FoldMax \in Nat
  /\ IsFiniteSet(Isolate)
BY TickAssumption

LEMMA TimesMonotone ==
  ASSUME NEW i \in Nat, NEW j \in Nat, NEW d \in Nat, i <= j PROVE i * d <= j * d
OBVIOUS

LEMMA TimesType == ASSUME NEW i \in Nat, NEW d \in Nat PROVE i * d \in Nat
OBVIOUS

LEMMA DivBounds ==
  ASSUME NEW n \in Nat, NEW d \in Nat, d >= 1
  PROVE  /\ n \div d \in Nat
         /\ (n \div d) * d <= n /\ n < (n \div d) * d + d
OBVIOUS

(* An interval that holds a multiple of d crosses a boundary.              *)
LEMMA MultipleIsCrossed ==
  ASSUME NEW m \in Nat, NEW n \in Nat, NEW d \in Nat, d >= 1, NEW j \in Nat,
         m < j * d, j * d <= n
  PROVE  crossesGcBoundary(m, n, d)
<1> SUFFICES ASSUME m \div d = n \div d PROVE FALSE
  BY DEF crossesGcBoundary
<1>1. PICK q \in Nat : q = m \div d /\ q * d <= m /\ n < q * d + d
  BY DivBounds
<1>2. CASE j <= q
  BY <1>1, <1>2, TimesMonotone, TimesType
<1>3. CASE j >= q + 1
  <2>1. (q + 1) * d <= j * d
    BY <1>3, TimesMonotone
  <2>2. (q + 1) * d = q * d + d
    OBVIOUS
  <2>3. QED
    BY <1>1, <2>1, <2>2, TimesType
<1>4. QED
  BY <1>2, <1>3

LEMMA HardFacts ==
  /\ HardInterval \in Nat /\ HardInterval >= 1
  /\ \A j \in Nat : \E i \in Nat : j * HardInterval = i * GcInterval
<1>1. PICK g \in Nat : g = GcInterval /\ g >= 1
  BY TickFacts
<1>2. PICK s \in Nat : s = StarveGuard /\ s >= 1
  BY TickFacts
<1>3. g * s \in Nat
  BY TimesType
<1>4. 1 * g <= s * g
  BY <1>1, <1>2, TimesMonotone
<1>5. ASSUME NEW j \in Nat PROVE \E i \in Nat : j * (g * s) = i * g
  <2>1. j * s \in Nat
    BY TimesType
  <2>2. j * (g * s) = (j * s) * g
    OBVIOUS
  <2>3. QED
    BY <2>1, <2>2
<1>6. g * s >= 1
  BY <1>1, <1>4
<1>7. QED
  BY <1>1, <1>2, <1>3, <1>5, <1>6 DEF HardInterval

(* From a base, if more than c + 1 intervals lie below the tail, then more *)
(* than c boundaries do.                                                   *)
LEMMA BoundariesFit ==
  ASSUME NEW base \in Nat, NEW tail \in Nat, NEW c \in Nat, NEW d \in Nat, d >= 1,
         base + d * (1 + c) <= tail,
         \A j, k \in Nat : base < j * d /\ j <= k /\ k * d <= tail => k - j + 1 <= c
  PROVE  FALSE
<1>1. PICK b \in Nat : b * d <= base /\ base < b * d + d
  BY DivBounds
<1>2. PICK k \in Nat : k * d <= tail /\ tail < k * d + d
  BY DivBounds
<1>3. (b + 1) * d = b * d + d /\ b + 1 \in Nat /\ b * d \in Nat /\ k * d \in Nat
  BY TimesType
<1>4. c * d \in Nat /\ d * (1 + c) = d + c * d
  BY TimesType
<1>5. CASE b + 1 <= k
  <2>1. k - (b + 1) + 1 <= c
    BY <1>1, <1>2, <1>3, <1>5
  <2>2. k <= b + c
    BY <2>1
  <2>3. k * d <= (b + c) * d
    BY <2>2, TimesMonotone
  <2>4. (b + c) * d = b * d + c * d
    OBVIOUS
  <2>5. QED
    BY <1>1, <1>2, <1>3, <1>4, <2>3, <2>4
<1>6. CASE k <= b
  <2>1. k * d <= b * d
    BY <1>6, TimesMonotone
  <2>2. QED
    BY <1>1, <1>2, <1>3, <1>4, <2>1
<1>7. QED
  BY <1>5, <1>6

-----------------------------------------------------------------------------
(* Counting ticks.                                                         *)

LEMMA CountGrows ==
  ASSUME NEW S, NEW T \in SUBSET Isolate, S \subseteq T
  PROVE  Cardinality(S) \in Nat /\ Cardinality(T) \in Nat /\ Cardinality(S) <= Cardinality(T)
<1>1. IsFiniteSet(T)
  BY TickFacts, FS_Subset
<1>2. IsFiniteSet(S) /\ Cardinality(S) <= Cardinality(T)
  BY <1>1, FS_Subset
<1>3. QED
  BY <1>1, <1>2, FS_CardinalityType

LEMMA CountLosesOne ==
  ASSUME NEW S, NEW T \in SUBSET Isolate, NEW w, S \subseteq T \cup {w}
  PROVE  Cardinality(S) \in Nat /\ Cardinality(T) \in Nat /\ Cardinality(S) <= Cardinality(T) + 1
<1>1. IsFiniteSet(T) /\ Cardinality(T) \in Nat
  BY CountGrows, TickFacts, FS_Subset
<1>2. /\ IsFiniteSet(T \cup {w})
      /\ Cardinality(T \cup {w}) = IF w \in T THEN Cardinality(T) ELSE Cardinality(T) + 1
  BY <1>1, FS_AddElement
<1>3. IsFiniteSet(S) /\ Cardinality(S) <= Cardinality(T \cup {w})
  BY <1>2, FS_Subset
<1>4. Cardinality(S) \in Nat
  BY <1>3, FS_CardinalityType
<1>5. QED
  BY <1>1, <1>2, <1>3, <1>4

LEMMA CountWins ==
  ASSUME NEW S, NEW T \in SUBSET Isolate, NEW w \in T, S \subseteq T, w \notin S
  PROVE  Cardinality(S) \in Nat /\ Cardinality(T) \in Nat /\ Cardinality(S) + 1 <= Cardinality(T)
<1>1. IsFiniteSet(T) /\ Cardinality(T) \in Nat
  BY CountGrows, TickFacts, FS_Subset
<1>2. IsFiniteSet(S) /\ Cardinality(S) \in Nat
  BY <1>1, FS_Subset, FS_CardinalityType
<1>3. IsFiniteSet(S \cup {w}) /\ Cardinality(S \cup {w}) = Cardinality(S) + 1
  BY <1>2, FS_AddElement
<1>4. Cardinality(S \cup {w}) <= Cardinality(T)
  BY <1>1, FS_Subset
<1>5. QED
  BY <1>1, <1>2, <1>3, <1>4

LEMMA IntervalFacts ==
  ASSUME phases \in {"single", "both", "disabled"}
  PROVE  Interval \in Nat /\ Interval >= 1 /\ Interval <= GcInterval
BY TickFacts DEF Interval

-----------------------------------------------------------------------------
(* Steps in which no commit happens.                                       *)

(* All but one tick keep what they owe.                                    *)
OthersKeep(w) ==
  \A v \in Isolate \ {w} : /\ Owing(tick[v]) => Owing(tick'[v])
                           /\ tick'[v].next = tick[v].next
                           /\ WillCollect(tick[v]) => WillCollect(tick[v])'

(* The hint's account stays settled if the tick w still owes, if a fault   *)
(* is counted, or if the hint has caught up with the tick.                 *)
LEMMA LagStep ==
  ASSUME TickTypes, LagIsOwed, NEW w, OthersKeep(w), UNCHANGED <<phases, logTail>>,
         cur'.hint \in Nat, cur.hint <= cur'.hint, tickFaults' \in Nat,
         tick' \in [Isolate -> Ticks],
         \/ tickFaults + 1 <= tickFaults'
         \/ /\ tickFaults <= tickFaults'
            /\ w \in Isolate =>
                 \/ ~Owing(tick[w])
                 \/ Owing(tick'[w]) /\ tick[w].next <= tick'[w].next
                 \/ tick[w].next < cur'.hint + RefreshGap
  PROVE  LagIsOwed'
<1>1. PICK d \in Nat : d = Interval /\ Interval' = d
  BY IntervalFacts DEF TickTypes, Interval
<1> SUFFICES ASSUME NEW j \in Nat, NEW k \in Nat,
                    cur'.hint + RefreshGap <= j * d, j <= k, k * d <= logTail
             PROVE  k - j + 1 <= tickFaults' + Cardinality(OwingFrom(j * d)')
  BY <1>1 DEF LagIsOwed, TickTypes
<1>2. PICK m \in Nat : m = j * d
  BY TimesType
<1> DEFINE S == {v \in Isolate : Owing(tick[v]) /\ tick[v].next >= m}
           T == {v \in Isolate : Owing(tick'[v]) /\ tick'[v].next >= m}
<1>3. /\ RefreshGap \in Nat /\ cur.hint \in Nat /\ logTail \in Nat /\ tickFaults \in Nat
      /\ \A v \in Isolate : tick[v].next \in Nat /\ tick'[v].next \in Nat
  BY TickFacts DEF TickTypes, Ticks, Currents
<1>4. k - j + 1 <= tickFaults + Cardinality(S)
  <2>1. cur.hint + RefreshGap <= j * d
    BY <1>2, <1>3
  <2>2. OwingFrom(j * d) = S
    BY <1>2 DEF OwingFrom
  <2>3. QED
    BY <1>1, <2>1, <2>2 DEF LagIsOwed
<1>5. OwingFrom(j * d)' = T
  BY <1>1, <1>2 DEF OwingFrom, Owing
<1>6. S \subseteq T \cup {w} /\ T \subseteq Isolate
  BY DEF OthersKeep
<1>7. CASE tickFaults + 1 <= tickFaults'
  <2>1. Cardinality(S) \in Nat /\ Cardinality(T) \in Nat /\ Cardinality(S) <= Cardinality(T) + 1
    BY <1>6, CountLosesOne
  <2> HIDE DEF S, T
  <2>2. k - j + 1 <= tickFaults' + Cardinality(T)
    BY <1>3, <1>4, <1>7, <2>1
  <2>3. QED
    BY <1>5, <2>2
<1>8. CASE tickFaults <= tickFaults' /\ ~(tickFaults + 1 <= tickFaults')
  <2>1. w \in S => w \in T
    <3> SUFFICES ASSUME w \in S PROVE w \in T
      OBVIOUS
    <3>1. ~(tick[w].next < cur'.hint + RefreshGap)
      BY <1>2, <1>3
    <3>2. Owing(tick'[w]) /\ tick[w].next <= tick'[w].next
      BY <1>8, <3>1
    <3>3. QED
      BY <1>3, <3>2
  <2>2. S \subseteq T
    BY <1>6, <2>1
  <2>3. Cardinality(S) \in Nat /\ Cardinality(T) \in Nat /\ Cardinality(S) <= Cardinality(T)
    BY <1>6, <2>2, CountGrows
  <2> HIDE DEF S, T
  <2>4. k - j + 1 <= tickFaults' + Cardinality(T)
    BY <1>3, <1>4, <1>8, <2>3
  <2>5. QED
    BY <1>5, <2>4
<1>9. QED
  BY <1>7, <1>8

(* GC's account stays settled if the tick w will still collect, if a fault *)
(* is counted, or if a pass has just begun.                                *)
LEMMA OwedGcStep ==
  ASSUME TickTypes, GcIsOwed, NEW w, OthersKeep(w), UNCHANGED <<phases, logTail>>,
         tickFaults' \in Nat, tick' \in [Isolate -> Ticks],
         \/ gcAt' = logTail
         \/ gcAt' = gcAt /\ tickFaults + 1 <= tickFaults'
         \/ /\ gcAt' = gcAt /\ tickFaults <= tickFaults'
            /\ w \in Isolate /\ phases # "disabled" /\ WillCollect(tick[w]) => WillCollect(tick[w])'
  PROVE  GcIsOwed'
<1>1. PICK d \in Nat : d = HardInterval
  BY HardFacts
<1> SUFFICES ASSUME phases # "disabled", NEW j \in Nat, NEW k \in Nat,
                    gcAt' < j * d, j <= k, k * d <= logTail
             PROVE  k - j + 1 <= tickFaults' + Cardinality(Collectors')
  BY <1>1 DEF GcIsOwed, HardInterval
<1>2. logTail \in Nat /\ tickFaults \in Nat /\ j * d <= k * d /\ j * d \in Nat /\ k * d \in Nat
  BY TimesMonotone, TimesType DEF TickTypes
<1>3. gcAt' = gcAt
  BY <1>2
<1>4. k - j + 1 <= tickFaults + Cardinality(Collectors)
  BY <1>1, <1>3 DEF GcIsOwed
<1> DEFINE S == Collectors
           T == Collectors'
<1>6. S \subseteq T \cup {w} /\ T \subseteq Isolate
  BY DEF OthersKeep, Collectors
<1>7. CASE tickFaults + 1 <= tickFaults'
  <2>1. Cardinality(S) \in Nat /\ Cardinality(T) \in Nat /\ Cardinality(S) <= Cardinality(T) + 1
    BY <1>6, CountLosesOne
  <2>2. QED
    BY <1>2, <1>4, <1>7, <2>1
<1>8. CASE tickFaults <= tickFaults' /\ ~(tickFaults + 1 <= tickFaults')
  <2>1. w \in S => w \in T
    BY <1>2, <1>3, <1>8 DEF Collectors
  <2>2. S \subseteq T
    BY <1>6, <2>1
  <2>3. Cardinality(S) \in Nat /\ Cardinality(T) \in Nat /\ Cardinality(S) <= Cardinality(T)
    BY <1>6, <2>2, CountGrows
  <2>4. QED
    BY <1>2, <1>4, <1>8, <2>3
<1>9. QED
  BY <1>2, <1>3, <1>7, <1>8

(* A step of the tick w to t, in which current.json may be overwritten     *)
(* with c.                                                                 *)
LEMMA TickStep ==
  ASSUME TickInv, NEW w \in Isolate, NEW t \in Ticks, NEW c \in Currents,
         UNCHANGED <<phases, logTail>>, Overwrite(c, [tick EXCEPT ![w] = t]),
         c.start <= logTail, c.hint <= logTail, cur.hint <= c.hint, t.next <= logTail,
         gcAt' \in Nat, tickFaults' \in Nat,
         \/ tickFaults + 1 <= tickFaults'
         \/ /\ tickFaults <= tickFaults'
            /\ \/ ~Owing(tick[w])
               \/ Owing(t) /\ tick[w].next <= t.next
               \/ tick[w].next < c.hint + RefreshGap,
         \/ gcAt' = logTail
         \/ gcAt' = gcAt /\ tickFaults + 1 <= tickFaults'
         \/ /\ gcAt' = gcAt /\ tickFaults <= tickFaults'
            /\ phases # "disabled" /\ WillCollect(tick[w]) => WillCollect(t)
  PROVE  TickInv'
<1> DEFINE u == [t EXCEPT !.unchanged = FALSE]
<1>1. tick \in [Isolate -> Ticks] /\ cur' = c /\ TickTypes /\ LagIsOwed /\ GcIsOwed
  BY DEF Overwrite, TickInv, TickTypes
<1>2. /\ u \in Ticks /\ u.pc = t.pc /\ u.next = t.next /\ u.lagging = t.lagging
      /\ u.published = t.published /\ u.prev = t.prev /\ u.gcDue = t.gcDue /\ u.then = t.then
  BY DEF Ticks
<1>3. (Owing(u) <=> Owing(t)) /\ (WillCollect(u) <=> WillCollect(t))
  BY <1>2 DEF Owing, WillCollect
<1>4. tick' \in [Isolate -> Ticks] /\ tick'[w] \in {t, u}
  <2>1. CASE c = cur
    BY <1>1, <2>1 DEF Overwrite
  <2>2. CASE c # cur
    BY <1>1, <1>2, <2>2 DEF Overwrite, Ticks
  <2>3. QED
    BY <2>1, <2>2
<1>5. \A v \in Isolate \ {w} :
        /\ tick'[v].pc = tick[v].pc /\ tick'[v].next = tick[v].next
        /\ tick'[v].lagging = tick[v].lagging /\ tick'[v].published = tick[v].published
        /\ tick'[v].prev = tick[v].prev /\ tick'[v].gcDue = tick[v].gcDue
        /\ tick'[v].then = tick[v].then
  <2>1. CASE c = cur
    BY <1>1, <2>1 DEF Overwrite
  <2>2. CASE c # cur
    BY <1>1, <2>2 DEF Overwrite, Ticks
  <2>3. QED
    BY <2>1, <2>2
<1>6. OthersKeep(w)
  BY <1>5 DEF OthersKeep, Owing, WillCollect
<1>7. /\ Owing(tick'[w]) <=> Owing(t)
      /\ WillCollect(tick[w])' <=> WillCollect(t)
      /\ tick'[w].next = t.next
  BY <1>2, <1>3, <1>4 DEF WillCollect
<1>8. c.hint \in Nat /\ c.start \in Nat
  BY DEF Currents
<1>9. TickTypes'
  <2>1. \A v \in Isolate : tick'[v].next <= logTail
    BY <1>1, <1>5, <1>7 DEF TickTypes
  <2>2. QED
    BY <1>1, <1>4, <1>8, <2>1 DEF TickTypes
<1>10. LagIsOwed'
  BY <1>1, <1>4, <1>6, <1>7, <1>8, LagStep
<1>11. GcIsOwed'
  BY <1>1, <1>4, <1>6, <1>7, OwedGcStep
<1>12. QED
  BY <1>9, <1>10, <1>11 DEF TickInv

LEMMA TickMaxOfThree ==
  ASSUME NEW m \in Nat, NEW n \in Nat, NEW k \in Nat
  PROVE  /\ Max({m, n, k}) \in {m, n, k}
         /\ m <= Max({m, n, k}) /\ n <= Max({m, n, k}) /\ k <= Max({m, n, k})
<1>1. \E x \in {m, n, k} : \A y \in {m, n, k} : x >= y
  OBVIOUS
<1>2. QED
  BY <1>1 DEF Max

(* The same, when current.json is left alone.                              *)
LEMMA LocalStep ==
  ASSUME TickInv, NEW w \in Isolate, NEW t \in Ticks,
         UNCHANGED <<phases, logTail, cur>>, tick' = [tick EXCEPT ![w] = t], t.next <= logTail,
         gcAt' \in Nat, tickFaults' \in Nat,
         \/ tickFaults + 1 <= tickFaults'
         \/ /\ tickFaults <= tickFaults'
            /\ \/ ~Owing(tick[w])
               \/ Owing(t) /\ tick[w].next <= t.next
               \/ tick[w].next < cur.hint + RefreshGap,
         \/ gcAt' = logTail
         \/ gcAt' = gcAt /\ tickFaults + 1 <= tickFaults'
         \/ /\ gcAt' = gcAt /\ tickFaults <= tickFaults'
            /\ phases # "disabled" /\ WillCollect(tick[w]) => WillCollect(t)
  PROVE  TickInv'
<1>1. Overwrite(cur, [tick EXCEPT ![w] = t])
  BY DEF Overwrite
<1>2. cur \in Currents /\ cur.start <= logTail /\ cur.hint <= logTail /\ cur.hint \in Nat
  BY DEF TickInv, TickTypes, Currents
<1>3. cur.hint <= cur.hint
  BY <1>2
<1>4. QED
  BY <1>1, <1>2, <1>3, TickStep

(* What the invariant says of the tick of w.                               *)
LEMMA OwnTick ==
  ASSUME TickInv, NEW w \in Isolate
  PROVE  /\ tick[w] \in Ticks /\ tick[w].next \in Nat /\ tick[w].prev \in Nat
         /\ tick[w].next <= logTail /\ logTail \in Nat /\ gcAt \in Nat /\ tickFaults \in Nat
         /\ cur \in Currents /\ cur.start \in Nat /\ cur.hint \in Nat /\ cur.start <= logTail
         /\ cur.hint <= logTail /\ phases \in {"single", "both", "disabled"}
         /\ tick \in [Isolate -> Ticks]
BY DEF TickInv, TickTypes, Ticks, Currents

LEMMA FreshTick ==
  ASSUME NEW pc \in Phases, NEW next \in Nat, NEW lagging \in BOOLEAN, NEW warnDue \in BOOLEAN,
         NEW gcDue \in BOOLEAN
  PROVE  [Idle EXCEPT !.next = next, !.lagging = lagging, !.warnDue = warnDue,
                      !.gcDue = gcDue, !.pc = pc] \in Ticks
BY DEF Idle, Ticks, Phases

LEMMA NewTick ==
  ASSUME NEW prev \in Nat, NEW n \in Nat
  PROVE  LET t == [Idle EXCEPT !.pc = "read", !.prev = prev, !.next = n] IN
         t \in Ticks /\ t.pc = "read" /\ t.prev = prev /\ t.next = n
BY DEF Idle, Ticks, Phases

LEMMA IdleTick == Idle \in Ticks /\ Idle.pc = "idle" /\ Idle.next = 0
BY DEF Idle, Ticks, Phases

-----------------------------------------------------------------------------
(* The actions.                                                            *)

LEMMA TickReadInv == ASSUME TickInv, NEW w \in Isolate, TickRead(w) PROVE TickInv'
<1>1. PICK o \in Ticks : o = tick[w] /\ o.pc = "read" /\ o.next \in Nat /\ o.prev \in Nat /\ o.next <= logTail
  BY OwnTick DEF TickRead
<1>2. PICK next \in Nat : /\ next = Max({o.next, cur.start, cur.hint})
                          /\ o.next <= next /\ next <= logTail
  <2>1. cur.start \in Nat /\ cur.hint \in Nat /\ cur.start <= logTail /\ cur.hint <= logTail
    BY OwnTick
  <2>2. /\ Max({o.next, cur.start, cur.hint}) \in {o.next, cur.start, cur.hint}
        /\ o.next <= Max({o.next, cur.start, cur.hint})
    BY <1>1, <2>1, TickMaxOfThree
  <2>3. QED
    BY <1>1, <2>1, <2>2
<1>3. PICK hot \in BOOLEAN, viable \in BOOLEAN :
        tick' = [tick EXCEPT ![w] =
            [Idle EXCEPT
               !.next = next,
               !.lagging = next - cur.hint >= RefreshGap,
               !.warnDue = cur.warned = NeverWarned \/ next - cur.warned >= WarnGap,
               !.gcDue = crossesGcBoundary(o.prev, next, GcInterval),
               !.pc = FirstPhase(next, o.prev, cur, hot, viable)]]
  BY <1>1, <1>2 DEF TickRead
<1> DEFINE pc == FirstPhase(next, o.prev, cur, hot, viable)
           lagging == next - cur.hint >= RefreshGap
           gcDue == crossesGcBoundary(o.prev, next, GcInterval)
           warnDue == cur.warned = NeverWarned \/ next - cur.warned >= WarnGap
<1>4. pc \in Phases \ {"idle"}
  BY DEF FirstPhase, Phases
<1>5. lagging \in BOOLEAN /\ gcDue \in BOOLEAN /\ warnDue \in BOOLEAN
  BY DEF crossesGcBoundary
<1>6. phases # "disabled" /\ WillCollect(o) =>
        \/ pc = "gc"
        \/ pc \in {"fold", "signal"} /\ phases = "both" /\ gcDue
  <2> SUFFICES ASSUME phases # "disabled", WillCollect(o)
               PROVE  pc = "gc" \/ (pc \in {"fold", "signal"} /\ phases = "both" /\ gcDue)
    OBVIOUS
  <2>1. PICK j \in Nat : o.prev < j * HardInterval /\ j * HardInterval <= o.next
    BY <1>1 DEF WillCollect
  <2>2. PICK h \in Nat : h = HardInterval /\ h >= 1
    BY HardFacts
  <2>3. j * h \in Nat /\ j * h <= next /\ o.prev < j * h
    BY <1>1, <1>2, <2>1, <2>2, TimesType
  <2>4. crossesGcBoundary(o.prev, next, HardInterval)
    BY <1>1, <2>2, <2>3, MultipleIsCrossed
  <2>5. PICK i \in Nat : j * HardInterval = i * GcInterval
    BY HardFacts
  <2>6. gcDue
    BY <1>1, <2>2, <2>3, <2>5, TickFacts, MultipleIsCrossed
  <2>7. phases \in {"single", "both"}
    BY OwnTick
  <2> HIDE DEF gcDue
  <2>8. pc = IF phases = "single" THEN "gc"
             ELSE IF hot /\ next - cur.start >= FoldFloor
                  THEN IF viable THEN "fold" ELSE "signal" ELSE "gc"
    BY <2>4, <2>6, <2>7 DEF FirstPhase, gcDue
  <2>9. QED
    BY <2>6, <2>7, <2>8
<1> HIDE DEF pc, lagging, gcDue, warnDue
<1>7. PICK la \in BOOLEAN, wa \in BOOLEAN, gc \in BOOLEAN :
         la = lagging /\ wa = warnDue /\ gc = gcDue
  BY <1>5, Zenon
<1>8. PICK ph \in Phases : ph = pc /\ ph # "idle"
  BY <1>4
<1> DEFINE t == [Idle EXCEPT !.next = next, !.lagging = la, !.warnDue = wa, !.gcDue = gc, !.pc = ph]
<1>9. /\ t \in Ticks /\ t.pc = ph /\ t.next = next /\ t.lagging = la /\ t.published = FALSE
      /\ t.gcDue = gc /\ t.then = "idle"
  <2>1. /\ t.pc = ph /\ t.next = next /\ t.lagging = la /\ t.published = FALSE
        /\ t.gcDue = gc /\ t.then = "idle"
    BY DEF Idle
  <2>2. t \in Ticks
    BY FreshTick
  <2>3. QED
    BY <2>1, <2>2
<1>10. tick' = [tick EXCEPT ![w] = t]
  BY <1>3, <1>7, <1>8, Zenon DEF pc, lagging, gcDue, warnDue
<1> HIDE DEF t
<1>11. Owing(t) \/ o.next < cur.hint + RefreshGap
  <2>1. CASE lagging
    BY <1>7, <1>8, <1>9, <2>1 DEF Owing
  <2>2. CASE ~lagging
    BY <1>1, <1>2, <2>2, OwnTick, TickFacts DEF lagging
  <2>3. QED
    BY <2>1, <2>2
<1>12. phases # "disabled" /\ WillCollect(o) => WillCollect(t)
  BY <1>6, <1>9, <1>7, <1>8 DEF WillCollect
<1>13. UNCHANGED <<phases, logTail, cur, gcAt, tickFaults>>
  BY DEF TickRead
<1>14. gcAt' \in Nat /\ tickFaults' \in Nat /\ tickFaults <= tickFaults' /\ gcAt' = gcAt
  BY <1>13, OwnTick
<1>15. t.next <= logTail /\ tick[w].next <= t.next
  BY <1>1, <1>2, <1>9
<1>16. QED
  BY <1>1, <1>9, <1>10, <1>11, <1>12, <1>13, <1>14, <1>15, LocalStep

(* The tick goes on with another phase, and owes what it owed.             *)
LEMMA PhaseFacts ==
  ASSUME NEW o \in Ticks, NEW ph \in Phases
  PROVE  LET t == [o EXCEPT !.pc = ph] IN
         /\ t \in Ticks /\ t.pc = ph /\ t.next = o.next /\ t.lagging = o.lagging
         /\ t.published = o.published /\ t.gcDue = o.gcDue /\ t.then = o.then /\ o.pc \in Phases
         /\ o.next \in Nat /\ o.then \in Phases
BY DEF Ticks

(* Refreshing keeps what the tick owes, or the hint is close already.      *)
LEMMA RefreshingFacts ==
  ASSUME NEW o \in Ticks, NEW stamp \in BOOLEAN, NEW then \in Phases, o.pc # "put"
  PROVE  LET t == Refreshing(o, stamp, then) IN
         /\ t \in Ticks /\ t.next = o.next
         /\ o.pc # "read" /\ Owing(o) => Owing(t)
         /\ t.pc = then \/ (t.pc = "put" /\ t.then = then)
<1> DEFINE t == Refreshing(o, stamp, then)
<1>1. CASE RefreshDue(o, stamp)
  <2>1. t = [o EXCEPT !.pc = "put", !.published = TRUE, !.unchanged = TRUE, !.stamp = stamp,
                      !.then = then]
    BY <1>1 DEF Refreshing
  <2>2. "put" \in Phases
    BY DEF Phases
  <2> HIDE DEF t
  <2>3. t \in Ticks /\ t.next = o.next /\ t.pc = "put" /\ t.then = then
    BY <2>1, <2>2 DEF Ticks
  <2>4. QED
    BY <2>3 DEF Owing, t
<1>2. CASE ~RefreshDue(o, stamp)
  <2>1. t = [o EXCEPT !.pc = then]
    BY <1>2 DEF Refreshing
  <2>2. ~(o.lagging /\ ~o.published)
    BY <1>2 DEF RefreshDue
  <2> HIDE DEF t
  <2>3. t \in Ticks /\ t.next = o.next /\ t.pc = then
    BY <2>1 DEF Ticks
  <2>4. QED
    BY <2>2, <2>3 DEF Owing, t
<1>3. QED
  BY <1>1, <1>2

LEMMA AfterFacts ==
  ASSUME NEW o \in Ticks
  PROVE  /\ AfterDefer(o) \in Phases \ {"idle"} /\ AfterFold(o) \in Phases \ {"idle"}
         /\ o.gcDue => AfterDefer(o) = "gc"
         /\ o.gcDue /\ phases = "both" => AfterFold(o) = "gc"
BY DEF AfterDefer, AfterFold, Phases

LEMMA FoldedFacts ==
  ASSUME NEW c \in Currents, NEW tail \in Nat, NEW new \in Folded(c, tail), c.hint <= tail
  PROVE  new \in Currents /\ new.start <= tail /\ new.hint = tail /\ c.hint <= new.hint
<1>1. PICK to \in (c.start + 1) .. Min({c.start + FoldMax, tail}) :
        new = [c EXCEPT !.start = to, !.hint = Max({c.hint, tail})]
  BY DEF Folded, Currents
<1>2. c.start \in Nat /\ c.hint \in Nat /\ c.start + FoldMax \in Nat
  BY TickFacts DEF Currents
<1>3. Max({c.hint, tail}) = tail
  BY <1>2, MaxOfTwo
<1>4. Min({c.start + FoldMax, tail}) \in Nat /\ Min({c.start + FoldMax, tail}) <= tail
  BY <1>2, MinOfTwo
<1>5. to \in Nat /\ to <= tail
  BY <1>2, <1>4
<1>6. QED
  BY <1>1, <1>2, <1>3, <1>5 DEF Currents

LEMMA TickFoldInv == ASSUME TickInv, NEW w \in Isolate, TickFold(w) PROVE TickInv'
<1>1. PICK o \in Ticks : o = tick[w] /\ o.pc = "fold" /\ o.next \in Nat /\ o.next <= logTail
  BY OwnTick DEF TickFold
<1>2. UNCHANGED <<phases, logTail, gcAt, tickFaults>>
  BY DEF TickFold
<1>3. /\ gcAt' \in Nat /\ tickFaults' \in Nat /\ tickFaults <= tickFaults' /\ gcAt' = gcAt
      /\ logTail \in Nat /\ cur \in Currents /\ cur.hint <= logTail /\ RefreshGap \in Nat
      /\ RefreshGap >= 1
  BY <1>2, OwnTick, TickFacts
<1>4. PICK ph \in Phases \ {"idle"} : ph = AfterFold(o)
  BY AfterFacts
<1>5. WillCollect(o) => ph = "gc"
  BY <1>1, <1>4, AfterFacts DEF WillCollect
<1>6. ASSUME NEW new \in Folded(cur, logTail),
             Overwrite(new, [tick EXCEPT ![w] = [o EXCEPT !.published = TRUE, !.pc = ph]])
      PROVE  TickInv'
  <2> DEFINE t == [o EXCEPT !.published = TRUE, !.pc = ph]
  <2>1. t \in Ticks /\ t.next = o.next /\ t.pc = ph
    BY DEF Ticks
  <2> HIDE DEF t
  <2>2. /\ new \in Currents /\ new.start <= logTail /\ new.hint = logTail /\ new.hint <= logTail
        /\ cur.hint <= new.hint
    BY <1>3, <1>6, FoldedFacts
  <2>3. tick[w].next < new.hint + RefreshGap /\ t.next <= logTail
    BY <1>1, <1>3, <2>1, <2>2
  <2>4. WillCollect(o) => WillCollect(t)
    BY <1>5, <2>1 DEF WillCollect
  <2>5. Overwrite(new, [tick EXCEPT ![w] = t])
    BY <1>6 DEF t
  <2>6. QED
    BY <1>1, <1>2, <1>3, <2>1, <2>2, <2>3, <2>4, <2>5, TickStep
<1>7. ASSUME tick' = [tick EXCEPT ![w].pc = ph], UNCHANGED cur PROVE TickInv'
  <2> DEFINE t == [o EXCEPT !.pc = ph]
  <2>1. /\ t \in Ticks /\ t.pc = ph /\ t.next = o.next /\ t.lagging = o.lagging
        /\ t.published = o.published
    BY PhaseFacts
  <2>2. tick' = [tick EXCEPT ![w] = t]
    BY <1>1, <1>7
  <2> HIDE DEF t
  <2>3. (Owing(o) => Owing(t)) /\ (WillCollect(o) => WillCollect(t))
    BY <1>1, <1>5, <2>1 DEF Owing, WillCollect
  <2>4. t.next <= logTail /\ tick[w].next <= t.next
    BY <1>1, <2>1
  <2>5. QED
    BY <1>1, <1>2, <1>3, <1>7, <2>1, <2>2, <2>3, <2>4, LocalStep
<1>8. ASSUME tick' = [tick EXCEPT ![w] = [o EXCEPT !.pc = "signal", !.then = ph]], UNCHANGED cur
      PROVE  TickInv'
  <2> DEFINE t == [o EXCEPT !.pc = "signal", !.then = ph]
  <2>1. /\ t \in Ticks /\ t.pc = "signal" /\ t.next = o.next /\ t.lagging = o.lagging
        /\ t.published = o.published /\ t.then = ph
    BY DEF Ticks, Phases
  <2>2. tick' = [tick EXCEPT ![w] = t]
    BY <1>8
  <2> HIDE DEF t
  <2>3. (Owing(o) => Owing(t)) /\ (WillCollect(o) => WillCollect(t))
    BY <1>1, <1>5, <2>1 DEF Owing, WillCollect
  <2>4. t.next <= logTail /\ tick[w].next <= t.next
    BY <1>1, <2>1
  <2>5. QED
    BY <1>1, <1>2, <1>3, <1>8, <2>1, <2>2, <2>3, <2>4, LocalStep
<1>9. QED
  BY <1>1, <1>4, <1>6, <1>7, <1>8 DEF TickFold

LEMMA TickSignalInv == ASSUME TickInv, NEW w \in Isolate, TickSignal(w) PROVE TickInv'
<1>1. PICK o \in Ticks : o = tick[w] /\ o.pc = "signal" /\ o.next \in Nat /\ o.next <= logTail
                         /\ o.warnDue \in BOOLEAN /\ o.then \in Phases
  BY OwnTick DEF TickSignal, Ticks
<1>2. PICK then \in Phases : then = IF o.then = "idle" THEN AfterDefer(o) ELSE o.then
  BY <1>1, AfterFacts
<1> DEFINE t == Refreshing(o, o.warnDue, then)
<1>3. /\ t \in Ticks /\ t.next = o.next /\ (Owing(o) => Owing(t))
      /\ t.pc = then \/ (t.pc = "put" /\ t.then = then)
  BY <1>1, RefreshingFacts
<1>4. tick' = [tick EXCEPT ![w] = t] /\ UNCHANGED <<phases, logTail, cur, gcAt, tickFaults>>
  BY <1>1, <1>2 DEF TickSignal
<1> HIDE DEF t
<1>5. WillCollect(o) => WillCollect(t)
  BY <1>1, <1>2, <1>3, AfterFacts DEF WillCollect
<1>6. /\ gcAt' \in Nat /\ tickFaults' \in Nat /\ tickFaults <= tickFaults' /\ gcAt' = gcAt
      /\ t.next <= logTail /\ tick[w].next <= t.next
  BY <1>1, <1>3, <1>4, OwnTick
<1>7. QED
  BY <1>1, <1>3, <1>4, <1>5, <1>6, LocalStep

LEMMA ResumedFacts ==
  ASSUME NEW o \in Ticks
  PROVE  /\ Resumed(o) \in Ticks /\ Resumed(o).next \in {0, o.next}
         /\ o.then = "gc" => Resumed(o).pc = "gc"
<1>1. CASE o.then = "idle"
  BY <1>1, IdleTick DEF Resumed
<1>2. CASE o.then # "idle"
  <2> DEFINE t == [o EXCEPT !.pc = o.then, !.stamp = FALSE, !.unchanged = FALSE, !.then = "idle"]
  <2>1. t \in Ticks /\ t.next = o.next /\ t.pc = o.then
    BY DEF Ticks, Phases
  <2>2. Resumed(o) = t
    BY <1>2 DEF Resumed
  <2>3. QED
    BY <2>1, <2>2
<1>3. QED
  BY <1>1, <1>2

LEMMA TickPutInv == ASSUME TickInv, NEW w \in Isolate, TickPut(w) PROVE TickInv'
<1>1. PICK o \in Ticks : o = tick[w] /\ o.pc = "put" /\ o.next \in Nat /\ o.next <= logTail
  BY OwnTick DEF TickPut
<1>2. UNCHANGED <<phases, logTail, gcAt>>
  BY DEF TickPut
<1> DEFINE t == Resumed(o)
<1>3. t \in Ticks /\ t.next \in {0, o.next} /\ (o.then = "gc" => t.pc = "gc")
  BY ResumedFacts
<1> HIDE DEF t
<1>4. /\ gcAt' \in Nat /\ gcAt' = gcAt /\ logTail \in Nat /\ cur \in Currents /\ tickFaults \in Nat
      /\ cur.hint \in Nat /\ cur.hint <= logTail /\ cur.start <= logTail /\ RefreshGap \in Nat
      /\ RefreshGap >= 1 /\ t.next <= logTail
  BY <1>1, <1>2, <1>3, OwnTick, TickFacts
<1>5. WillCollect(o) => WillCollect(t)
  BY <1>1, <1>3 DEF WillCollect
<1>6. ASSUME UNCHANGED tickFaults,
             Overwrite([cur EXCEPT !.hint = Max({@, o.next}),
                                   !.warned = IF o.stamp THEN o.next ELSE @],
                       [tick EXCEPT ![w] = t])
      PROVE  TickInv'
  <2>1. PICK h \in Nat : h = Max({cur.hint, o.next}) /\ cur.hint <= h /\ o.next <= h /\ h <= logTail
    <3>1. Max({cur.hint, o.next}) = IF cur.hint < o.next THEN o.next ELSE cur.hint
      BY <1>1, <1>4, MaxOfTwo
    <3>2. QED
      BY <1>1, <1>4, <3>1
  <2>2. PICK wa \in Int : wa = IF o.stamp THEN o.next ELSE cur.warned
    BY <1>1, <1>4 DEF Currents
  <2> DEFINE c == [cur EXCEPT !.hint = h, !.warned = wa]
  <2>3. c \in Currents /\ c.start = cur.start /\ c.hint = h
    BY <1>4 DEF Currents
  <2>4. Overwrite(c, [tick EXCEPT ![w] = t])
    BY <1>6, <2>1, <2>2
  <2> HIDE DEF c
  <2>5. tick[w].next < c.hint + RefreshGap /\ c.start <= logTail /\ c.hint <= logTail
        /\ cur.hint <= c.hint /\ tickFaults' \in Nat /\ tickFaults <= tickFaults'
    BY <1>1, <1>4, <1>6, <2>1, <2>3
  <2>6. QED
    BY <1>1, <1>2, <1>3, <1>4, <1>5, <2>3, <2>4, <2>5, TickStep
<1>7. ASSUME tick' = [tick EXCEPT ![w] = t], tickFaults' = tickFaults + 1, UNCHANGED cur
      PROVE  TickInv'
  <2>1. tickFaults' \in Nat /\ tickFaults + 1 <= tickFaults'
    BY <1>4, <1>7
  <2>2. QED
    BY <1>1, <1>2, <1>3, <1>4, <1>7, <2>1, LocalStep
<1>8. QED
  BY <1>1, <1>6, <1>7 DEF TickPut, t

LEMMA TickGcInv == ASSUME TickInv, NEW w \in Isolate, TickGc(w) PROVE TickInv'
<1>1. PICK o \in Ticks : o = tick[w] /\ o.pc = "gc" /\ o.next \in Nat /\ o.next <= logTail
  BY OwnTick DEF TickGc
<1> DEFINE t == Refreshing(o, FALSE, "retire")
<1>2. t \in Ticks /\ t.next = o.next /\ (Owing(o) => Owing(t))
  BY <1>1, RefreshingFacts DEF Phases
<1>3. /\ tick' = [tick EXCEPT ![w] = t] /\ gcAt' = logTail
      /\ UNCHANGED <<phases, logTail, cur, tickFaults>>
  BY <1>1 DEF TickGc
<1> HIDE DEF t
<1>4. /\ gcAt' \in Nat /\ tickFaults' \in Nat /\ tickFaults <= tickFaults'
      /\ t.next <= logTail /\ tick[w].next <= t.next
  BY <1>1, <1>2, <1>3, OwnTick
<1>5. QED
  BY <1>1, <1>2, <1>3, <1>4, LocalStep

LEMMA TickRetireInv == ASSUME TickInv, NEW w \in Isolate, TickRetire(w) PROVE TickInv'
<1>1. PICK o \in Ticks : o = tick[w] /\ o.pc = "retire" /\ o.next \in Nat /\ o.next <= logTail
  BY OwnTick DEF TickRetire
<1> DEFINE t == [o EXCEPT !.pc = "finally"]
           c == [cur EXCEPT !.floor = cur.start]
<1>2. /\ t \in Ticks /\ t.pc = "finally" /\ t.next = o.next /\ t.lagging = o.lagging
      /\ t.published = o.published
  <2>1. "finally" \in Phases
    BY DEF Phases
  <2>2. QED
    BY <2>1, PhaseFacts
<1>3. /\ Overwrite(c, [tick EXCEPT ![w] = t])
      /\ UNCHANGED <<phases, logTail, gcAt, tickFaults>>
  BY <1>1 DEF TickRetire
<1> HIDE DEF t
<1>4. c \in Currents /\ c.start = cur.start /\ c.hint = cur.hint
  BY OwnTick DEF Currents
<1> HIDE DEF c
<1>5. (Owing(o) => Owing(t)) /\ ~WillCollect(o)
  BY <1>1, <1>2 DEF Owing, WillCollect
<1>6. /\ gcAt' \in Nat /\ gcAt' = gcAt /\ tickFaults' \in Nat /\ tickFaults <= tickFaults'
      /\ t.next <= logTail /\ tick[w].next <= t.next /\ cur.hint <= c.hint
      /\ c.start <= logTail /\ c.hint <= logTail
  BY <1>1, <1>2, <1>3, <1>4, OwnTick
<1>7. QED
  BY <1>1, <1>2, <1>3, <1>4, <1>5, <1>6, TickStep

LEMMA TickFinallyInv == ASSUME TickInv, NEW w \in Isolate, TickFinally(w) PROVE TickInv'
<1>1. PICK o \in Ticks : o = tick[w] /\ o.pc = "finally" /\ o.next \in Nat /\ o.next <= logTail
  BY OwnTick DEF TickFinally
<1>2. PICK t : t = Closing(o)
  OBVIOUS
<1>3. t \in Ticks /\ (~Owing(o) \/ (Owing(t) /\ t.next = o.next)) /\ t.next \in {0, o.next}
  <2>1. CASE RefreshDue(o, FALSE)
    <3>1. t = Refreshing(o, FALSE, "idle")
      BY <1>2, <2>1 DEF Closing
    <3>2. QED
      BY <1>1, <3>1, RefreshingFacts DEF Phases
  <2>2. CASE ~RefreshDue(o, FALSE)
    BY <1>1, <1>2, <2>2, IdleTick DEF Closing, RefreshDue, Owing
  <2>3. QED
    BY <2>1, <2>2
<1>4. tick' = [tick EXCEPT ![w] = t] /\ UNCHANGED <<phases, logTail, cur, gcAt, tickFaults>>
  BY <1>1, <1>2 DEF TickFinally
<1>5. ~WillCollect(o)
  BY <1>1 DEF WillCollect
<1>6. /\ gcAt' \in Nat /\ tickFaults' \in Nat /\ tickFaults <= tickFaults' /\ gcAt' = gcAt
      /\ t.next <= logTail /\ (t.next = o.next => tick[w].next <= t.next)
  BY <1>1, <1>3, <1>4, OwnTick
<1>7. QED
  BY <1>1, <1>3, <1>4, <1>5, <1>6, LocalStep

(* A tick that fails or dies is counted.                                   *)
LEMMA TickFaultInv ==
  ASSUME TickInv, NEW w \in Isolate, TickThrows(w) \/ TickDies(w) PROVE TickInv'
<1>1. PICK o \in Ticks : o = tick[w] /\ o.next \in Nat /\ o.next <= logTail
  BY OwnTick
<1>2. PICK t \in {Idle, [o EXCEPT !.pc = "finally"]} : tick' = [tick EXCEPT ![w] = t]
  BY <1>1 DEF TickThrows, TickDies
<1>3. t \in Ticks /\ t.next \in {0, o.next}
  <2>1. "finally" \in Phases
    BY DEF Phases
  <2>2. QED
    <3>1. CASE t = Idle
      BY <3>1, IdleTick
    <3>2. CASE t = [o EXCEPT !.pc = "finally"]
      BY <2>1, <3>2, PhaseFacts
    <3>3. QED
      BY <1>2, <3>1, <3>2
<1>4. UNCHANGED <<phases, logTail, cur, gcAt>> /\ tickFaults' = tickFaults + 1
  BY DEF TickThrows, TickDies
<1>5. /\ gcAt' \in Nat /\ tickFaults' \in Nat /\ tickFaults + 1 <= tickFaults' /\ gcAt' = gcAt
      /\ t.next <= logTail
  BY <1>1, <1>3, <1>4, OwnTick
<1>6. QED
  BY <1>2, <1>3, <1>4, <1>5, LocalStep

-----------------------------------------------------------------------------
(* The scheduled pass may overwrite current.json; it owes nothing.         *)

LEMMA SchedStep ==
  ASSUME TickInv, NEW c \in Currents, UNCHANGED <<phases, logTail, tickFaults>>,
         Overwrite(c, tick), c.start <= logTail, c.hint <= logTail, cur.hint <= c.hint,
         gcAt' \in {gcAt, logTail}
  PROVE  TickInv'
<1>1. /\ tick \in [Isolate -> Ticks] /\ cur' = c /\ TickTypes /\ LagIsOwed /\ GcIsOwed
      /\ tickFaults' \in Nat /\ tickFaults <= tickFaults' /\ gcAt' \in Nat
      /\ c.hint \in Nat /\ c.start \in Nat
  BY DEF Overwrite, TickInv, TickTypes, Currents
<1>2. /\ tick' \in [Isolate -> Ticks]
      /\ \A v \in Isolate :
           /\ tick'[v].pc = tick[v].pc /\ tick'[v].next = tick[v].next
           /\ tick'[v].lagging = tick[v].lagging /\ tick'[v].published = tick[v].published
           /\ tick'[v].prev = tick[v].prev /\ tick'[v].gcDue = tick[v].gcDue
           /\ tick'[v].then = tick[v].then /\ tick[v].next \in Nat
  <2>1. CASE c = cur
    BY <1>1, <2>1 DEF Overwrite, Ticks
  <2>2. CASE c # cur
    BY <1>1, <2>2 DEF Overwrite, Ticks
  <2>3. QED
    BY <2>1, <2>2
<1>3. \A v \in Isolate : /\ Owing(tick[v]) => Owing(tick'[v]) /\ tick[v].next <= tick'[v].next
                         /\ WillCollect(tick[v]) => WillCollect(tick[v])'
  BY <1>2 DEF Owing, WillCollect
<1>4. \A w : OthersKeep(w)
  BY <1>2, <1>3 DEF OthersKeep
<1>5. TickTypes'
  BY <1>1, <1>2 DEF TickTypes
<1>6. LagIsOwed'
  BY <1>1, <1>2, <1>3, <1>4, LagStep
<1>7. GcIsOwed'
  BY <1>1, <1>2, <1>3, <1>4, OwedGcStep
<1>8. QED
  BY <1>5, <1>6, <1>7 DEF TickInv

LEMMA ScheduledInv ==
  ASSUME TickInv, ScheduledFold \/ ScheduledGc \/ ScheduledRetire \/ ScheduledThrows
  PROVE  TickInv'
<1>1. /\ cur \in Currents /\ cur.start <= logTail /\ cur.hint <= logTail /\ cur.hint \in Nat
      /\ logTail \in Nat /\ cur.hint <= cur.hint
  BY DEF TickInv, TickTypes, Currents
<1>2. CASE ScheduledFold
  <2>1. PICK new \in {cur} \cup Folded(cur, logTail) : Overwrite(new, tick)
    BY <1>2 DEF ScheduledFold
  <2>2. new \in Currents /\ new.start <= logTail /\ new.hint <= logTail /\ cur.hint <= new.hint
    BY <1>1, FoldedFacts
  <2>3. UNCHANGED <<phases, logTail, tickFaults>> /\ gcAt' \in {gcAt, logTail}
    BY <1>2 DEF ScheduledFold
  <2>4. QED
    BY <2>1, <2>2, <2>3, SchedStep
<1>3. CASE ScheduledGc \/ ScheduledThrows
  <2>1. Overwrite(cur, tick) /\ UNCHANGED <<phases, logTail, tickFaults>> /\ gcAt' \in {gcAt, logTail}
    BY <1>3 DEF ScheduledGc, ScheduledThrows, Overwrite
  <2>2. QED
    BY <1>1, <2>1, SchedStep
<1>4. CASE ScheduledRetire
  <2> DEFINE c == [cur EXCEPT !.floor = cur.start]
  <2>1. c \in Currents /\ c.start = cur.start /\ c.hint = cur.hint
    BY <1>1 DEF Currents
  <2>2. /\ Overwrite(c, tick) /\ UNCHANGED <<phases, logTail, tickFaults>>
        /\ gcAt' \in {gcAt, logTail}
    BY <1>4 DEF ScheduledRetire
  <2> HIDE DEF c
  <2>3. QED
    BY <1>1, <2>1, <2>2, SchedStep
<1>5. QED
  BY <1>2, <1>3, <1>4

-----------------------------------------------------------------------------
(* A commit: if it is at a boundary, its tick is one more that owes.       *)

LEMMA CommitInv == ASSUME TickInv, NEW w \in Isolate, CommitAndDispatch(w) PROVE TickInv'
<1>1. /\ tick \in [Isolate -> Ticks] /\ tick[w].pc = "idle" /\ logTail' = logTail + 1
      /\ UNCHANGED <<phases, cur, gcAt, tickFaults>> /\ TickTypes /\ LagIsOwed /\ GcIsOwed
  BY DEF TickInv, TickTypes, CommitAndDispatch
<1>2. PICK n \in Nat : n = logTail + 1 /\ logTail \in Nat /\ cur.hint \in Nat /\ tickFaults \in Nat
  BY OwnTick
<1>3. PICK prev \in Nat, hot \in BOOLEAN :
        /\ prev <= logTail
        /\ tick' = [tick EXCEPT ![w] =
             IF MaintenanceDue(prev, n, hot)
             THEN [Idle EXCEPT !.pc = "read", !.prev = prev, !.next = n] ELSE Idle]
  <2>1. PICK prev \in {logTail, Max({logTail - 1, 0})}, hot \in BOOLEAN :
          tick' = [tick EXCEPT ![w] =
             IF MaintenanceDue(prev, n, hot)
             THEN [Idle EXCEPT !.pc = "read", !.prev = prev, !.next = n] ELSE Idle]
    BY <1>2 DEF CommitAndDispatch
  <2>2. Max({logTail - 1, 0}) \in Nat /\ Max({logTail - 1, 0}) <= logTail
    <3>1. CASE logTail = 0
      BY <3>1 DEF Max
    <3>2. CASE logTail # 0
      BY <1>2, <3>2, MaxOfTwo
    <3>3. QED
      BY <3>1, <3>2
  <2>3. prev \in Nat /\ prev <= logTail
    BY <1>2, <2>1, <2>2
  <2>4. QED
    BY <2>1, <2>3
<1> DEFINE due == MaintenanceDue(prev, n, hot)
           t == IF due THEN [Idle EXCEPT !.pc = "read", !.prev = prev, !.next = n] ELSE Idle
<1>4. /\ t \in Ticks /\ t.next <= n
      /\ due => t.pc = "read" /\ t.prev = prev /\ t.next = n
  <2>1. CASE due
    <3>1. t = [Idle EXCEPT !.pc = "read", !.prev = prev, !.next = n]
      BY <2>1
    <3> HIDE DEF t, due
    <3>2. t \in Ticks /\ t.pc = "read" /\ t.prev = prev /\ t.next = n
      BY <3>1, NewTick
    <3>3. QED
      BY <1>2, <2>1, <3>2
  <2>2. CASE ~due
    BY <1>2, <2>2, IdleTick
  <2>3. QED
    BY <2>1, <2>2
<1>5. tick' = [tick EXCEPT ![w] = t]
  BY <1>3
<1> HIDE DEF t, due
<1>6. /\ tick' \in [Isolate -> Ticks] /\ tick'[w] = t /\ \A v \in Isolate \ {w} : tick'[v] = tick[v]
      /\ ~Owing(tick[w]) /\ ~WillCollect(tick[w])
  BY <1>1, <1>4, <1>5 DEF Owing, WillCollect
<1>7. \A v \in Isolate : tick[v].next \in Nat /\ tick[v].next <= logTail
  BY <1>1 DEF TickTypes, Ticks
<1>8. TickTypes'
  <2>1. \A v \in Isolate : tick'[v].next <= n
    BY <1>2, <1>4, <1>6, <1>7
  <2>2. cur.start <= n /\ cur.hint <= n
    BY <1>1, <1>2 DEF TickTypes, Currents
  <2>3. QED
    BY <1>1, <1>2, <1>6, <2>1, <2>2 DEF TickTypes
<1>9. LagIsOwed'
  <2>1. PICK d \in Nat : d = Interval /\ Interval' = d /\ d >= 1
    BY <1>1, IntervalFacts DEF TickTypes, Interval
  <2> SUFFICES ASSUME NEW j \in Nat, NEW k \in Nat,
                      cur.hint + RefreshGap <= j * d, j <= k, k * d <= n
               PROVE  k - j + 1 <= tickFaults + Cardinality(OwingFrom(j * d)')
    BY <1>1, <1>2, <2>1 DEF LagIsOwed
  <2>2. PICK m \in Nat : m = j * d
    BY TimesType
  <2>3. PICK e \in Nat : e = k * d
    BY TimesType
  <2>4. m <= e
    BY <2>2, <2>3, TimesMonotone
  <2> DEFINE S == {v \in Isolate : Owing(tick[v]) /\ tick[v].next >= m}
             T == {v \in Isolate : Owing(tick'[v]) /\ tick'[v].next >= m}
  <2>5. OwingFrom(j * d) = S /\ OwingFrom(j * d)' = T
    BY <2>1, <2>2 DEF OwingFrom, Owing
  <2>6. S \subseteq T /\ w \notin S /\ T \subseteq Isolate
    BY <1>6
  <2>7. Cardinality(S) \in Nat /\ Cardinality(T) \in Nat /\ Cardinality(S) <= Cardinality(T)
    BY <2>6, CountGrows
  <2>8. CASE e <= logTail
    <3>1. k - j + 1 <= tickFaults + Cardinality(S)
      BY <1>1, <2>1, <2>3, <2>5, <2>8 DEF LagIsOwed
    <3> HIDE DEF S, T
    <3>2. QED
      BY <1>2, <2>5, <2>7, <3>1
  <2>9. CASE e = n
    <3>1. due
      <4>1. CASE phases = "disabled"
        <5>1. cur.hint + RefreshGap <= n
          BY <1>2, <2>2, <2>4, <2>9, TickFacts
        <5>2. n - cur.hint >= RefreshGap
          BY <1>2, <5>1, TickFacts
        <5>3. QED
          BY <4>1, <5>2 DEF due, MaintenanceDue
      <4>2. CASE phases # "disabled"
        <5>1. d = GcInterval
          BY <2>1, <4>2 DEF Interval
        <5>2. prev < k * d /\ k * d <= n
          BY <1>2, <1>3, <2>3, <2>9
        <5>3. crossesGcBoundary(prev, n, GcInterval)
          BY <2>1, <5>1, <5>2, MultipleIsCrossed
        <5>4. QED
          BY <4>2, <5>3 DEF due, MaintenanceDue
      <4>3. QED
        BY <4>1, <4>2
    <3>2. w \in T
      BY <1>4, <1>6, <2>4, <2>9, <3>1 DEF Owing
    <3>3. Cardinality(S) + 1 <= Cardinality(T)
      BY <2>6, <3>2, CountWins
    <3>4. CASE j = k
      <4> HIDE DEF S, T
      <4>1. QED
        BY <1>2, <2>5, <2>7, <3>3, <3>4
    <3>5. CASE j < k
      <4>1. (k - 1) * d = k * d - d /\ k - 1 \in Nat
        BY <3>5
      <4>2. (k - 1) * d <= logTail /\ j <= k - 1
        BY <1>2, <2>1, <2>3, <2>9, <3>5, <4>1
      <4>3. (k - 1) - j + 1 <= tickFaults + Cardinality(S)
        BY <1>1, <2>1, <2>5, <4>1, <4>2 DEF LagIsOwed
      <4> HIDE DEF S, T
      <4>4. QED
        BY <1>2, <2>5, <2>7, <3>3, <4>3
    <3>6. QED
      BY <3>4, <3>5
  <2>10. QED
    BY <1>2, <2>3, <2>8, <2>9
<1>10. GcIsOwed'
  <2>1. PICK d \in Nat : d = HardInterval /\ d >= 1
    BY HardFacts
  <2> SUFFICES ASSUME phases # "disabled", NEW j \in Nat, NEW k \in Nat,
                      gcAt < j * d, j <= k, k * d <= n
               PROVE  k - j + 1 <= tickFaults + Cardinality(Collectors')
    BY <1>1, <1>2, <2>1 DEF GcIsOwed, HardInterval
  <2>2. PICK e \in Nat : e = k * d
    BY TimesType
  <2> DEFINE S == Collectors
             T == Collectors'
  <2>3. S \subseteq T /\ w \notin S /\ T \subseteq Isolate
    BY <1>1, <1>6 DEF Collectors, WillCollect
  <2>4. Cardinality(S) \in Nat /\ Cardinality(T) \in Nat /\ Cardinality(S) <= Cardinality(T)
    BY <2>3, CountGrows
  <2>5. CASE e <= logTail
    <3>1. k - j + 1 <= tickFaults + Cardinality(S)
      BY <1>1, <2>1, <2>2, <2>5 DEF GcIsOwed
    <3>2. QED
      BY <1>2, <2>4, <3>1
  <2>6. CASE e = n
    <3>1. prev < k * d /\ k * d <= n
      BY <1>2, <1>3, <2>2, <2>6
    <3>2. PICK i \in Nat : k * HardInterval = i * GcInterval
      BY HardFacts
    <3>3. crossesGcBoundary(prev, n, GcInterval)
      BY <2>1, <3>1, <3>2, TickFacts, MultipleIsCrossed
    <3>4. due
      BY <3>3 DEF due, MaintenanceDue
    <3>5. w \in T
      BY <1>1, <1>4, <1>6, <2>1, <3>1, <3>4 DEF Collectors, WillCollect, HardInterval
    <3>6. Cardinality(S) + 1 <= Cardinality(T)
      BY <2>3, <3>5, CountWins
    <3>7. CASE j = k
      BY <1>2, <2>4, <3>6, <3>7
    <3>8. CASE j < k
      <4>1. (k - 1) * d = k * d - d /\ k - 1 \in Nat
        BY <3>8
      <4>2. (k - 1) * d <= logTail /\ j <= k - 1
        BY <1>2, <2>1, <2>2, <2>6, <3>8, <4>1
      <4>3. (k - 1) - j + 1 <= tickFaults + Cardinality(S)
        BY <1>1, <2>1, <4>1, <4>2 DEF GcIsOwed
      <4>4. QED
        BY <1>2, <2>4, <3>6, <4>3
    <3>9. QED
      BY <3>7, <3>8
  <2>7. QED
    BY <1>2, <2>2, <2>5, <2>6
<1>11. QED
  BY <1>8, <1>9, <1>10 DEF TickInv

-----------------------------------------------------------------------------
LEMMA TickInvInit == TickInit => TickInv
<1> SUFFICES ASSUME TickInit PROVE TickInv
  OBVIOUS
<1>1. TickTypes
  BY IdleTick DEF TickInit, TickTypes, Currents, NewCurrent, NeverWarned
<1>2. LagIsOwed
  <2> SUFFICES ASSUME NEW j \in Nat, NEW k \in Nat, RefreshGap <= j * Interval, j <= k,
                      k * Interval <= 0
               PROVE  FALSE
    BY TickFacts DEF LagIsOwed, TickInit, NewCurrent
  <2>1. PICK d \in Nat : d = Interval
    BY <1>1, IntervalFacts DEF TickTypes
  <2>2. j * d <= k * d /\ j * d \in Nat /\ k * d \in Nat
    BY TimesMonotone, TimesType
  <2>3. QED
    BY <2>1, <2>2, TickFacts
<1>3. GcIsOwed
  <2> SUFFICES ASSUME NEW j \in Nat, NEW k \in Nat, 0 < j * HardInterval, j <= k,
                      k * HardInterval <= 0
               PROVE  FALSE
    BY DEF GcIsOwed, TickInit
  <2>1. PICK d \in Nat : d = HardInterval
    BY HardFacts
  <2>2. j * d <= k * d /\ j * d \in Nat /\ k * d \in Nat
    BY TimesMonotone, TimesType
  <2>3. QED
    BY <2>1, <2>2
<1>4. QED
  BY <1>1, <1>2, <1>3 DEF TickInv

(* The account of what ticks owe holds throughout, for any number of       *)
(* isolates and any intervals.                                             *)
THEOREM TickInvHolds == TickSpec => []TickInv
<1>1. TickInit => TickInv
  BY TickInvInit
<1>2. TickInv /\ [TickNext]_tickVars => TickInv'
  <2> SUFFICES ASSUME TickInv, [TickNext]_tickVars PROVE TickInv'
    OBVIOUS
  <2>1. CASE ScheduledFold \/ ScheduledGc \/ ScheduledRetire \/ ScheduledThrows
    BY <2>1, ScheduledInv
  <2>2. ASSUME NEW w \in Isolate, CommitAndDispatch(w) PROVE TickInv'
    BY <2>2, CommitInv
  <2>3. ASSUME NEW w \in Isolate, TickRead(w) PROVE TickInv'
    BY <2>3, TickReadInv
  <2>4. ASSUME NEW w \in Isolate, TickFold(w) PROVE TickInv'
    BY <2>4, TickFoldInv
  <2>5. ASSUME NEW w \in Isolate, TickSignal(w) PROVE TickInv'
    BY <2>5, TickSignalInv
  <2>6. ASSUME NEW w \in Isolate, TickPut(w) PROVE TickInv'
    BY <2>6, TickPutInv
  <2>7. ASSUME NEW w \in Isolate, TickGc(w) PROVE TickInv'
    BY <2>7, TickGcInv
  <2>8. ASSUME NEW w \in Isolate, TickRetire(w) PROVE TickInv'
    BY <2>8, TickRetireInv
  <2>9. ASSUME NEW w \in Isolate, TickFinally(w) PROVE TickInv'
    BY <2>9, TickFinallyInv
  <2>10. ASSUME NEW w \in Isolate, TickThrows(w) \/ TickDies(w) PROVE TickInv'
    BY <2>10, TickFaultInv
  <2>11. CASE UNCHANGED tickVars
    BY <2>11 DEF tickVars, TickInv, TickTypes, LagIsOwed, GcIsOwed, OwingFrom, Collectors,
                 Owing, WillCollect, Interval
  <2>12. QED
    BY <2>1, <2>2, <2>3, <2>4, <2>5, <2>6, <2>7, <2>8, <2>9, <2>10, <2>11 DEF TickNext
<1>3. QED
  BY <1>1, <1>2, PTL DEF TickSpec

(* Whatever way the ticks exit, tail_hint lags the tail by less than the   *)
(* refresh gap and one GC interval, plus one interval for each tick or CAS *)
(* that failed (runBoundedMaintenance, refreshTailHintIfNeeded).           *)
THEOREM TailHintIsClose == TickSpec => []HintLagBounded
<1>1. TickInv => HintLagBounded
  <2> SUFFICES ASSUME TickInv, Quiet,
                      ~(logTail - cur.hint < RefreshGap + GcInterval * (1 + tickFaults))
               PROVE  FALSE
    BY DEF HintLagBounded
  <2>1. /\ logTail \in Nat /\ cur.hint \in Nat /\ tickFaults \in Nat /\ LagIsOwed
        /\ GcInterval \in Nat /\ RefreshGap \in Nat /\ RefreshGap >= 1
    BY TickFacts DEF TickInv, TickTypes, Currents
  <2>2. PICK d \in Nat : d = Interval /\ d >= 1 /\ d <= GcInterval
    BY IntervalFacts DEF TickInv, TickTypes
  <2>3. PICK base \in Nat : base = cur.hint + RefreshGap - 1
    BY <2>1
  <2>4. d * (1 + tickFaults) <= GcInterval * (1 + tickFaults)
    BY <2>1, <2>2, TimesMonotone
  <2>5. base + d * (1 + tickFaults) <= logTail
    <3>1. PICK x \in Nat : x = d * (1 + tickFaults)
      BY <2>1, TimesType
    <3>2. PICK y \in Nat : y = GcInterval * (1 + tickFaults)
      BY <2>1, TimesType
    <3>3. logTail - cur.hint >= RefreshGap + y
      BY <2>1, <3>2
    <3>4. QED
      BY <2>1, <2>3, <2>4, <3>1, <3>2, <3>3
  <2>6. \A m : OwingFrom(m) = {}
    BY DEF Quiet, OwingFrom, Owing
  <2>7. ASSUME NEW j \in Nat, NEW k \in Nat, base < j * d, j <= k, k * d <= logTail
        PROVE  k - j + 1 <= tickFaults
    <3>1. cur.hint + RefreshGap <= j * d
      BY <2>1, <2>3, <2>7, TimesType
    <3>2. k - j + 1 <= tickFaults + Cardinality(OwingFrom(j * d))
      BY <2>1, <2>2, <2>7, <3>1 DEF LagIsOwed
    <3>3. Cardinality(OwingFrom(j * d)) = 0
      BY <2>6, FS_EmptySet
    <3>4. QED
      BY <2>1, <3>2, <3>3
  <2>8. QED
    BY <2>1, <2>2, <2>5, <2>7, BoundariesFit
<1>2. QED
  BY <1>1, TickInvHolds, PTL

(* A long run of ratio-tripping commits does not starve GC: between two    *)
(* passes lie fewer commits than the hard interval, plus one such interval *)
(* for each tick that failed (runBoundedMaintenance, GC_STARVATION_GUARD). *)
THEOREM GcIsNeverStarved == TickSpec => []GcNotStarved
<1>1. TickInv => GcNotStarved
  <2> SUFFICES ASSUME TickInv, Quiet, phases # "disabled",
                      ~(logTail - gcAt < HardInterval * (1 + tickFaults))
               PROVE  FALSE
    BY DEF GcNotStarved
  <2>1. logTail \in Nat /\ gcAt \in Nat /\ tickFaults \in Nat /\ GcIsOwed
    BY DEF TickInv, TickTypes
  <2>2. PICK d \in Nat : d = HardInterval /\ d >= 1
    BY HardFacts
  <2>3. gcAt + d * (1 + tickFaults) <= logTail
    <3>1. PICK x \in Nat : x = d * (1 + tickFaults)
      BY <2>1, TimesType
    <3>2. QED
      BY <2>1, <2>2, <3>1
  <2>4. Collectors = {}
    BY DEF Quiet, Collectors, WillCollect
  <2>5. ASSUME NEW j \in Nat, NEW k \in Nat, gcAt < j * d, j <= k, k * d <= logTail
        PROVE  k - j + 1 <= tickFaults
    <3>1. k - j + 1 <= tickFaults + Cardinality(Collectors)
      BY <2>1, <2>2, <2>5 DEF GcIsOwed
    <3>2. Cardinality(Collectors) = 0
      BY <2>4, FS_EmptySet
    <3>3. QED
      BY <2>1, <3>1, <3>2
  <2>6. QED
    BY <2>1, <2>2, <2>3, <2>5, BoundariesFit
<1>2. QED
  BY <1>1, TickInvHolds, PTL
=============================================================================
