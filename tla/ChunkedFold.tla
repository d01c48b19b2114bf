----------------------------- MODULE ChunkedFold -----------------------------
(***************************************************************************)
(* The chunked snapshot: a snapshot kept as a sequence of chunks, and the   *)
(* fold that rewrites only the chunks its log entries touch                 *)
(* (chunked-fold-planner.ts, snapshot-chunk-builder.ts).                    *)
(*                                                                         *)
(* A document id is a number (ids are ordered), its body the number of      *)
(* bytes it encodes to.  A chunk is a function from ids to bodies; its      *)
(* descriptor (first_id, last_id, row_count, byte_length) is computed from  *)
(* it.  Index 0 stands for null.                                            *)
(***************************************************************************)
EXTENDS Integers, Sequences, FiniteSets, FiniteSetsExt, Functions, Listing

CONSTANTS
  DocId,            \* a set of natural numbers
  Body,             \* encoded sizes of the bodies documents have
  ChunkEnvelope,    \* bytes of a chunk besides its documents
  TargetBytes,      \* policy.target_chunk_bytes
  TargetRows,       \* policy.target_rows
  MaxChunkBytes,    \* MAX_CHUNK_BYTES
  MaxChunkRows,     \* MAX_CHUNK_ROWS
  BudgetEntries,    \* budget.max_log_entries
  BudgetMutation,   \* budget.max_mutation_bytes
  BudgetTouched,    \* budget.max_touched_chunks
  BudgetBytes,      \* budget.max_touched_bytes
  BudgetSplits,     \* budget.max_split_increments
  BudgetNeighbors,  \* budget.max_neighbor_chunks
  MaxPending        \* bound: log entries not yet folded

ASSUME ChunkAssumption ==
  TargetBytes <= MaxChunkBytes /\ TargetRows \in Nat \ {0} /\ TargetRows <= MaxChunkRows
ASSUME DocIdAssumption == DocId \subseteq Nat

VARIABLES
  chunks,   \* the published chunks, in descriptor order
  folded,   \* folded[k + 1]: the rows that the published entries and the first
            \* k pending ones give, folded one by one
  pending,  \* the log entries above the fold, as mutations
  fold      \* the fold under way

chunkVars == <<chunks, folded, pending, fold>>

Mutation == [op : {"put"}, id : DocId, body : Body] \cup [op : {"D"}, id : DocId, body : {0}]

FirstId(c) == Min(DOMAIN c)
LastId(c) == Max(DOMAIN c)
ByteLength(c) == ChunkEnvelope + FoldFunction(+, 0, c)

-----------------------------------------------------------------------------
(* Last write wins per document.                                           *)
Final(es) ==
  [id \in {es[i].id : i \in DOMAIN es} |->
     es[Max({i \in DOMAIN es : es[i].id = id})]]

Apply(rows, muts) ==
  LET gone == {id \in DOMAIN muts : muts[id].op = "D"}
      put  == DOMAIN muts \ gone
  IN [id \in (DOMAIN rows \ gone) \cup put |->
        IF id \in put THEN muts[id].body ELSE rows[id]]

(* The reference: one entry after the other (referenceFold).               *)
ApplyOne(rows, mu) == Apply(rows, [id \in {mu.id} |-> mu])

(* routeMutationToDescriptor: inside a chunk's range, that chunk; in a gap, *)
(* the chunk before it, or the first chunk; a delete in a gap goes nowhere.*)
Route(mu, ds) ==
  LET after == {i \in DOMAIN ds : LastId(ds[i]) >= mu.id}
      low   == IF after = {} THEN Len(ds) + 1 ELSE Min(after)
  IN IF ds = <<>> THEN 0
     ELSE IF low <= Len(ds) /\ FirstId(ds[low]) <= mu.id THEN low
     ELSE IF mu.op = "D" THEN 0
     ELSE Max({1, low - 1})

Direct(muts, ds) == {Route(muts[id], ds) : id \in DOMAIN muts} \ {0}

(* A delete is charged only when it reaches a chunk (one byte of id).      *)
Contribution(mu, ds) == IF mu.op = "put" THEN mu.body
                        ELSE IF Route(mu, ds) = 0 THEN 0 ELSE 1
MutationBytes(muts, ds) == MapThenSumSet(LAMBDA id : Contribution(muts[id], ds), DOMAIN muts)

(* deriveOwnerAndNeighbor: the leftmost touched chunk and the chunk to its *)
(* right, or to its left when it is the last.                              *)
NoPair == [owner |-> 0, neighbor |-> 0]
Pair(direct, ds) ==
  IF direct = {} THEN NoPair
  ELSE LET o == Min(direct) IN
       [owner |-> o, neighbor |-> IF o < Len(ds) THEN o + 1 ELSE o - 1]

-----------------------------------------------------------------------------
(* prefetchChunkedFold.  Prefix m of the entries is a candidate while every *)
(* shorter one is, and it fits the budgets and keeps the pair that the     *)
(* first touching prefix locked.                                           *)
Upto(es, m) == Final(SubSeq(es, 1, m))

Fits(es, ds, m) == m <= BudgetEntries /\ MutationBytes(Upto(es, m), ds) <= BudgetMutation

Touching(es, ds, m) == {j \in 1 .. m : Direct(Upto(es, j), ds) # {}}
LockedPair(es, ds, m) ==
  IF Touching(es, ds, m) = {} THEN NoPair
  ELSE Pair(Direct(Upto(es, Min(Touching(es, ds, m))), ds), ds)

FetchSet(es, ds, m, locked) ==
  (UNION {Direct(Upto(es, j), ds) : j \in 1 .. m}) \cup ({locked.neighbor} \ {0})

Admissible(es, ds, m) ==
  LET locked == LockedPair(es, ds, m)
      direct == UNION {Direct(Upto(es, j), ds) : j \in 1 .. m}
  IN /\ Fits(es, ds, m)
     /\ locked # NoPair => \A j \in Min(Touching(es, ds, m)) .. m :
                             Pair(Direct(Upto(es, j), ds), ds) = locked
     /\ Cardinality(direct) <= BudgetTouched
     /\ MapThenSumSet(LAMBDA i : ByteLength(ds[i]), FetchSet(es, ds, m, locked)) <= BudgetBytes

CandidateCount(es, ds) ==
  Max({n \in 0 .. Len(es) : \A m \in 1 .. n : Admissible(es, ds, m)})

(* The entry that ends the walk may have locked the pair before it.        *)
WalkEnd(es, ds) ==
  LET n == CandidateCount(es, ds) IN
  IF n < Len(es) /\ Fits(es, ds, n + 1) THEN n + 1 ELSE n

-----------------------------------------------------------------------------
(* splitGroupDocsGreedily: from its start a chunk takes the longest prefix *)
(* within both targets, at least one document; what is left starts the     *)
(* next chunk.                                                             *)
Lowest(docs, k) == {i \in DOMAIN docs : Cardinality({j \in DOMAIN docs : j <= i}) <= k}

Prefix(docs) ==
  Lowest(docs, Max({k \in 1 .. Min({TargetRows, Cardinality(DOMAIN docs)}) :
                      k = 1 \/ ByteLength(Restrict(docs, Lowest(docs, k))) <= TargetBytes}))

From(docs, start) == Restrict(docs, {i \in DOMAIN docs : i >= start})
Left(docs, start) == DOMAIN From(docs, start) \ Prefix(From(docs, start))

(* The starts: the first id, and what is left after any of them.           *)
Starts(docs) ==
  {i \in DOMAIN docs : \A H \in SUBSET DOMAIN docs :
     (/\ FirstId(docs) \in H
      /\ \A h \in H : Left(docs, h) # {} => Min(Left(docs, h)) \in H) => i \in H}

Split(docs) ==
  [n \in 1 .. Cardinality(Starts(docs)) |->
     LET rest == From(docs, Ascending(Starts(docs))[n]) IN Restrict(rest, Prefix(rest))]

isUnderfull(c) == 2 * ByteLength(c) < TargetBytes /\ 2 * Cardinality(DOMAIN c) < TargetRows

(* The rewritten group of a touched chunk: its outputs, or itself.         *)
Group(muts, ds, i) ==
  LET own == Restrict(muts, {id \in DOMAIN muts : Route(muts[id], ds) = i})
      new == Apply(ds[i], own)
  IN IF new = ds[i] THEN <<ds[i]>> ELSE Split(new)

Rewritten(muts, ds, i) == i \in Direct(muts, ds) /\ Group(muts, ds, i) # <<ds[i]>>

(* applyFacingMerge: an untouched neighbor joins the owner's output next   *)
(* to it when that output is underfull and the two fit the target.         *)
Facing(pair, outputs) == IF pair.neighbor > pair.owner THEN Len(outputs) ELSE 1

Underfull(muts, ds, pair) ==
  /\ pair.neighbor # 0 /\ Rewritten(muts, ds, pair.owner)
  /\ LET outputs == Group(muts, ds, pair.owner)
     IN outputs # <<>> /\ isUnderfull(outputs[Facing(pair, outputs)])
Joined(c, d) ==
  [id \in DOMAIN c \cup DOMAIN d |-> IF id \in DOMAIN c THEN c[id] ELSE d[id]]
Combined(muts, ds, pair) ==
  LET outputs == Group(muts, ds, pair.owner)
  IN Joined(ds[pair.neighbor], outputs[Facing(pair, outputs)])

MergeEligible_AnyNeighbor(muts, ds, pair) == Underfull(muts, ds, pair)
MergeCandidate(muts, ds, pair) ==
  Underfull(muts, ds, pair) /\ pair.neighbor \notin Direct(muts, ds)
MergeEligible(muts, ds, pair) ==
  /\ MergeCandidate(muts, ds, pair)
  /\ ByteLength(Combined(muts, ds, pair)) <= TargetBytes
  /\ Cardinality(DOMAIN Combined(muts, ds, pair)) <= TargetRows

Outputs(muts, ds, pair, i) ==
  LET outputs == IF Rewritten(muts, ds, i) THEN Group(muts, ds, i) ELSE <<ds[i]>>
  IN IF ~MergeEligible(muts, ds, pair) THEN outputs
     ELSE IF i = pair.neighbor THEN <<>>
     ELSE IF i # pair.owner THEN outputs
     ELSE [outputs EXCEPT ![Facing(pair, outputs)] = Combined(muts, ds, pair)]

SplitIncrements(muts, ds) ==
  IF ds = <<>> THEN Max({0, Len(Split(Apply(<<>>, muts))) - 1})
  ELSE MapThenSumSet(LAMBDA i : Max({0, Len(Group(muts, ds, i)) - 1}),
                     {i \in DOMAIN ds : Rewritten(muts, ds, i)})

(* The chunks an evaluation reads: the touched ones, and the neighbor of   *)
(* an underfull output.                                                    *)
Reads(muts, ds, pair) ==
  Direct(muts, ds) \cup (IF MergeCandidate(muts, ds, pair) THEN {pair.neighbor} ELSE {})

(* Encoding throws past MAX_CHUNK_BYTES and past MAX_CHUNK_ROWS.  The       *)
(* split, which cuts at the target rows first, catches it unless the chunk *)
(* is one document; the facing merge does not catch it at all.             *)
Oversize(muts, ds, pair) ==
  \/ \E id \in DOMAIN muts : ChunkEnvelope + muts[id].body > MaxChunkBytes
  \/ /\ MergeCandidate(muts, ds, pair)
     /\ \/ ByteLength(Combined(muts, ds, pair)) > MaxChunkBytes
        \/ Cardinality(DOMAIN Combined(muts, ds, pair)) > MaxChunkRows

Mint(muts, ds, pair) ==
  IF ds = <<>> THEN Split(Apply(<<>>, muts))
  ELSE Concat([i \in DOMAIN ds |-> Outputs(muts, ds, pair, i)])

-----------------------------------------------------------------------------
NoFold == [phase |-> "idle", count |-> 0, pair |-> NoPair, loaded |-> {}, next |-> 1]

ChunkInit == chunks = <<>> /\ folded = << <<>> >> /\ pending = <<>> /\ fold = NoFold

(* A fold works on the entries it was given: later ones are the next one's. *)
AppendEntry(mu) ==
  /\ fold.phase = "idle" /\ Len(pending) < MaxPending
  /\ pending' = Append(pending, mu)
  /\ folded' = Append(folded, ApplyOne(folded[Len(folded)], mu))
  /\ UNCHANGED <<chunks, fold>>

(* Phase 1, and the caller's load of the chunks it names.                  *)
Prefetch ==
  LET n      == CandidateCount(pending, chunks)
      locked == LockedPair(pending, chunks, WalkEnd(pending, chunks))
  IN /\ fold.phase = "idle" /\ pending # <<>>
     /\ fold' = [phase |-> IF n = 0 THEN "null" ELSE "plan", count |-> n, pair |-> locked,
                 loaded |-> FetchSet(pending, chunks, n, locked), next |-> 1]
     /\ UNCHANGED <<chunks, folded, pending>>

(* Phase 2, one candidate at a time: the first that splits too much, or    *)
(* uses a neighbor it may not, ends the walk.                              *)
OverBudget(muts, ds, pair) ==
  \/ SplitIncrements(muts, ds) > BudgetSplits
  \/ (MergeEligible(muts, ds, pair) /\ BudgetNeighbors < 1)

TryEndpoint ==
  LET muts == Upto(pending, fold.next) IN
  /\ fold.phase = "plan"
  /\ fold' = IF ~(Reads(muts, chunks, fold.pair) \subseteq fold.loaded)
             THEN [fold EXCEPT !.phase = "missing"]
             ELSE IF Oversize(muts, chunks, fold.pair) THEN [fold EXCEPT !.phase = "oversize"]
             ELSE IF OverBudget(muts, chunks, fold.pair)
             THEN [fold EXCEPT !.phase = IF fold.next = 1 THEN "null" ELSE "mint"]
             ELSE [fold EXCEPT !.next = @ + 1,
                               !.phase = IF fold.next = fold.count THEN "mint" ELSE "plan"]
  /\ UNCHANGED <<chunks, folded, pending>>

PublishChunks ==
  /\ fold.phase = "mint"
  /\ chunks' = Mint(Upto(pending, fold.next - 1), chunks, fold.pair)
  /\ folded' = SubSeq(folded, fold.next, Len(folded))
  /\ pending' = SubSeq(pending, fold.next, Len(pending))
  /\ fold' = NoFold

(* A null plan, or one whose evaluation throws, folds nothing.             *)
FoldNothing ==
  /\ fold.phase \in {"null", "oversize"}
  /\ fold' = NoFold
  /\ UNCHANGED <<chunks, folded, pending>>

ChunkNext == (\E mu \in Mutation : AppendEntry(mu)) \/ Prefetch \/ TryEndpoint
             \/ PublishChunks \/ FoldNothing
ChunkSpec == ChunkInit /\ [][ChunkNext]_chunkVars

-----------------------------------------------------------------------------
(* The rows a sequence of chunks holds.                                    *)
Contents(ds) ==
  [id \in UNION {DOMAIN ds[i] : i \in DOMAIN ds} |->
     ds[CHOOSE i \in DOMAIN ds : id \in DOMAIN ds[i]][id]]

(* However the entries were cut into folds and the chunks split, merged    *)
(* and dropped, the chunks hold exactly the fold of the entries, each row  *)
(* once, in id order (routeMutationToDescriptor, applyFacingMerge,         *)
(* splitGroupDocsGreedily); and no fold ever needs a chunk that the first  *)
(* phase did not fetch (prefetchChunkedFold, evaluateSnapshotChunks).      *)
ChunksAreFold ==
  /\ \A i \in DOMAIN chunks : DOMAIN chunks[i] # {}
  /\ \A i, j \in DOMAIN chunks : i < j => LastId(chunks[i]) < FirstId(chunks[j])
  /\ Contents(chunks) = Head(folded)
  /\ fold.phase # "missing"
=============================================================================
