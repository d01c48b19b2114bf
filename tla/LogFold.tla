------------------------------ MODULE LogFold -------------------------------
(***************************************************************************)
(* Folding log entries onto a document map (foldLogEntriesOnto, and the    *)
(* same loop in the compactor).                                            *)
(*                                                                         *)
(* A log entry is identified by the session nonce of the commit that minted *)
(* it; what the fold looks at is the entry's document and operation, both   *)
(* fixed by the call (CommitInput).  A document map is the set of entries   *)
(* whose post-images are live: at most one per document.                    *)
(***************************************************************************)
EXTENDS Integers

CONSTANTS
  Session,   \* commit nonces
  Doc,       \* document ids
  DocOf,     \* DocOf[c]: the document commit c writes
  OpOf       \* OpOf[c]: "I", "U" or "D"

ASSUME DocOfAssumption == DocOf \in [Session -> Doc]
ASSUME OpOfAssumption  == OpOf \in [Session -> {"I", "U", "D"}]

(* One iteration of the fold: I and U overwrite the document's post-image, *)
(* D removes it.                                                           *)
FoldOne(rows, e) ==
  {x \in rows : DocOf[x] # DocOf[e]} \cup (IF OpOf[e] = "D" THEN {} ELSE {e})

(* Would folding e add a row (the compactor's row-ceiling test)?           *)
AddsRow(rows, e) ==
  /\ OpOf[e] # "D"
  /\ \A x \in rows : DocOf[x] # DocOf[e]

(* Reference definition, independent of any fold order: the state after    *)
(* the first n entries of h is the set of entries that are the last one    *)
(* for their document and are not tombstones.                              *)
LastForDoc(h, n, s) ==
  \A t \in 0..(n - 1) : t > s => DocOf[h[t]] # DocOf[h[s]]

Live(h, n) ==
  {h[s] : s \in {t \in 0..(n - 1) : LastForDoc(h, n, t) /\ OpOf[h[t]] # "D"}}

=============================================================================
