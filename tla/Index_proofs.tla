---------------------------- MODULE Index_proofs ----------------------------
(***************************************************************************)
(* One secondary index, for any number of documents, values, commit calls  *)
(* and index reads: a row no two calls handled at once has its marker, an  *)
(* index read is exact, and a rebuild that ran alone leaves exactly the    *)
(* markers of the live rows (IndexMarkers). And one query, for any set of  *)
(* values, wires and declared indexes: a refused query matches nothing,    *)
(* and the index the planner chose covers every match (QueryPlan).         *)
(***************************************************************************)
EXTENDS IndexMarkers, QueryPlan, FiniteSetTheorems, WellFoundedInduction, SequenceTheorems, TLAPS

Entries == [doc : IxDoc, op : {"I", "U", "D"}, value : IxValue \cup {NoValue}]

Keys == (IxValue \cup {NoValue}) \X IxDoc

Commits ==
  [pc : {"idle", "create", "clean", "delete", "ended"}, doc : IxDoc \cup {NoValue},
   op : {"I", "U", "D"}, value : IxValue \cup {NoValue}, seq : Nat,
   stale : SUBSET Keys]

Scans ==
  [pc : {"idle", "list", "done"}, wanted : SUBSET (IxValue \ FilterMiss),
   left : SUBSET (IxValue \ FilterMiss), found : SUBSET IxDoc, rows : SUBSET IxDoc,
   tail : Nat, touched : SUBSET IxDoc]

Rebuilds ==
  [pc : {"idle", "list", "fix"}, expected : SUBSET Keys, todo : SUBSET Keys, alone : BOOLEAN]

(* The slots among the first n that hold an entry of document d.           *)
Mine(d, n) == {i \in 1..n : entries[i].doc = d}

(* A document with an entry has a newest one.                              *)
HasLast ==
  \A d \in IxDoc : \A n \in 0..Len(entries) :
    Mine(d, n) # {} => \E i \in Mine(d, n) : \A j \in Mine(d, n) : j <= i

IxTypes ==
  /\ entries \in Seq(Entries)
  /\ HasLast
  /\ retired \in Nat
  /\ markers \subseteq Keys
  /\ committer \in [Committer -> Commits]
  /\ scanner \in [Scanner -> Scans]
  /\ rebuild \in Rebuilds
  /\ contended \subseteq IxDoc

(* A call under way has a document and a seq that is in the log; a delete  *)
(* carries no value.                                                       *)
CallsAreSound ==
  \A c \in Committer : Busy(c) =>
    /\ committer[c].doc \in IxDoc
    /\ committer[c].op = "D" => committer[c].value = NoValue
    /\ committer[c].seq <= Len(entries)

(* A document that is not contended is handled by one call at most.        *)
OneCallEach ==
  \A c \in Committer : Busy(c) /\ committer[c].doc \notin contended =>
    /\ rebuild.pc = "idle"
    /\ \A b \in Committer : Busy(b) /\ committer[b].doc = committer[c].doc => b = c

(* What the call on such a document has done so far: its marker is there   *)
(* before its entry, its entry is the newest one when it looks for stale   *)
(* markers, and the stale markers do not include that entry's own.         *)
CallsKeepMarkers ==
  \A c \in Committer : \A d \in IxDoc \ contended : Busy(c) /\ committer[c].doc = d =>
    /\ committer[c].pc = "create" => allIndexKeysFor(committer[c].value, d) \subseteq markers
    /\ committer[c].pc \in {"clean", "delete"} => ValueNow(d) = committer[c].value

StaleIsForeign ==
  \A c \in Committer : committer[c].pc = "delete" =>
    \A k \in committer[c].stale :
      /\ k[2] = committer[c].doc
      /\ k \notin allIndexKeysFor(committer[c].value, committer[c].doc)

(* A rebuild expects at least the markers of the documents it has to       *)
(* itself.                                                                 *)
RebuildExpects ==
  rebuild.pc # "idle" =>
    \A d \in IxDoc \ contended : allIndexKeysFor(ValueNow(d), d) \subseteq rebuild.expected

MarkerInv ==
  /\ IxTypes /\ CallsAreSound /\ OneCallEach /\ CallsKeepMarkers /\ StaleIsForeign
  /\ RebuildExpects /\ LiveRowIndexed

(* A read under way has found the undisturbed documents of the values it   *)
(* has listed.                                                             *)
ReadsFind ==
  \A s \in Scanner : scanner[s].pc = "list" =>
    \A d \in IxDoc \ (contended \cup scanner[s].touched) :
      ValueNow(d) \in scanner[s].wanted \ scanner[s].left => d \in scanner[s].found

ReadsEnd == \A s \in Scanner : scanner[s].tail <= Len(entries)

(* A rebuild that is alone still expects what the log holds, and has to do *)
(* exactly what the markers differ by.                                     *)
RebuildAlone ==
  rebuild.alone /\ rebuild.pc # "idle" =>
    /\ \A c \in Committer : ~Busy(c)
    /\ rebuild.expected = UNION {ExpectedKeys(ValueNow(d), d) : d \in IxDoc}
    /\ rebuild.pc = "fix" =>
         rebuild.todo = (rebuild.expected \ markers) \cup (markers \ rebuild.expected)

IxInv == MarkerInv /\ ReadsFind /\ ReadsEnd /\ IndexReadExact /\ RebuildAlone

-----------------------------------------------------------------------------
(* What an entry does to the values of the documents.                      *)

LEMMA ValueIsLast ==
  ASSUME IxTypes, NEW d \in IxDoc, NEW n \in 0..Len(entries)
  PROVE  \/ Mine(d, n) = {} /\ ValueAt(d, n) = NoValue
         \/ \E i \in Mine(d, n) :
              /\ \A j \in Mine(d, n) : j <= i
              /\ ValueAt(d, n) = IF entries[i].op = "D" THEN NoValue ELSE entries[i].value
<1>1. CASE Mine(d, n) = {}
  BY <1>1 DEF Mine, ValueAt
<1>2. CASE Mine(d, n) # {}
  <2> DEFINE last == CHOOSE i \in Mine(d, n) : \A j \in Mine(d, n) : j <= i
  <2>1. \E i \in Mine(d, n) : \A j \in Mine(d, n) : j <= i
    BY <1>2 DEF IxTypes, HasLast
  <2>2. last \in Mine(d, n) /\ \A j \in Mine(d, n) : j <= last
    BY <2>1
  <2>3. ValueAt(d, n) = IF entries[last].op = "D" THEN NoValue ELSE entries[last].value
    BY <1>2 DEF Mine, ValueAt
  <2>4. QED
    BY <2>2, <2>3
<1>3. QED
  BY <1>1, <1>2

(* The newest entry of a document is unique, so it is its value: said of   *)
(* the log after a step.                                                   *)
LEMMA LastIsValue ==
  ASSUME NEW d \in IxDoc, NEW n \in Int,
         NEW i \in Mine(d, n)', \A j \in Mine(d, n)' : j <= i
  PROVE  ValueAt(d, n)' = IF entries'[i].op = "D" THEN NoValue ELSE entries'[i].value
<1> DEFINE mine == {k \in 1..n : entries'[k].doc = d}
           last == CHOOSE k \in mine : \A j \in mine : j <= k
<1>1. mine = Mine(d, n)' /\ mine \subseteq Int
  BY DEF Mine
<1>2. ValueAt(d, n)' = IF entries'[last].op = "D" THEN NoValue ELSE entries'[last].value
  BY <1>1 DEF ValueAt
<1> HIDE DEF mine
<1>3. last \in mine /\ \A j \in mine : j <= last
  BY <1>1
<1>4. last = i
  BY <1>1, <1>3
<1>5. QED
  BY <1>2, <1>4

LEMMA ValueType ==
  ASSUME IxTypes, NEW d \in IxDoc, NEW n \in 0..Len(entries)
  PROVE  ValueAt(d, n) \in IxValue \cup {NoValue}
<1>1. \A i \in 1..n : entries[i] \in Entries
  BY DEF IxTypes
<1>2. QED
  BY <1>1, ValueIsLast DEF Mine, Entries

LEMMA AppendEntry ==
  ASSUME IxTypes, NEW e \in Entries, entries' = Append(entries, e)
  PROVE  /\ entries' \in Seq(Entries) /\ Len(entries') = Len(entries) + 1
         /\ Len(entries) \in Nat
         /\ \A i \in 1..Len(entries) : entries'[i] = entries[i]
         /\ entries'[Len(entries) + 1] = e
BY AppendProperties DEF IxTypes

LEMMA AppendMine ==
  ASSUME IxTypes, NEW e \in Entries, entries' = Append(entries, e), NEW d \in IxDoc
  PROVE  /\ \A n \in 0..Len(entries) : Mine(d, n)' = Mine(d, n)
         /\ \A n : n = Len(entries) + 1 =>
              /\ e.doc = d => Mine(d, n)' = Mine(d, Len(entries)) \cup {n}
              /\ e.doc # d => Mine(d, n)' = Mine(d, Len(entries))
<1>1. \A n \in 0..Len(entries) : Mine(d, n)' = Mine(d, n)
  BY AppendEntry DEF Mine
<1>2. ASSUME NEW n, n = Len(entries) + 1
      PROVE  /\ e.doc = d => Mine(d, n)' = Mine(d, Len(entries)) \cup {n}
             /\ e.doc # d => Mine(d, n)' = Mine(d, Len(entries))
  <2>1. 1..n = 1..Len(entries) \cup {n}
    BY <1>2, AppendEntry
  <2>2. QED
    BY <1>2, <2>1, AppendEntry DEF Mine
<1>3. QED
  BY <1>1, <1>2

LEMMA AppendHasLast ==
  ASSUME IxTypes, NEW e \in Entries, entries' = Append(entries, e)
  PROVE  HasLast'
<1> SUFFICES ASSUME NEW d \in IxDoc, NEW n \in 0..Len(entries'), Mine(d, n)' # {}
             PROVE  \E i \in Mine(d, n)' : \A j \in Mine(d, n)' : j <= i
  BY DEF HasLast
<1>1. CASE n \in 0..Len(entries)
  BY <1>1, AppendMine DEF IxTypes, HasLast
<1>2. CASE n = Len(entries')
  <2>1. CASE e.doc = d
    <3>1. Mine(d, n)' = Mine(d, Len(entries)) \cup {n}
      BY <1>2, <2>1, AppendMine, AppendEntry
    <3>2. \A j \in Mine(d, Len(entries)) : j <= n
      BY <1>2, AppendEntry DEF Mine
    <3>3. n <= n
      BY AppendEntry
    <3>4. QED
      BY <3>1, <3>2, <3>3
  <2>2. CASE e.doc # d
    <3>1. Mine(d, n)' = Mine(d, Len(entries))
      BY <1>2, <2>2, AppendMine, AppendEntry
    <3>2. Len(entries) \in 0..Len(entries)
      BY AppendEntry
    <3>3. QED
      BY <3>1, <3>2 DEF IxTypes, HasLast
  <2>3. QED
    BY <2>1, <2>2
<1>3. QED
  BY <1>1, <1>2, AppendEntry

(* An entry changes the value of its document, and no earlier value.       *)
LEMMA AppendValue ==
  ASSUME IxTypes, IxTypes', NEW e \in Entries, entries' = Append(entries, e), NEW d \in IxDoc
  PROVE  /\ \A n \in 0..Len(entries) : ValueAt(d, n)' = ValueAt(d, n)
         /\ e.doc # d => ValueNow(d)' = ValueNow(d)
         /\ e.doc = d => ValueNow(d)' = IF e.op = "D" THEN NoValue ELSE e.value
<1>1. ASSUME NEW n \in 0..Len(entries'), NEW m \in 0..Len(entries),
             Mine(d, n)' = Mine(d, m)
      PROVE  ValueAt(d, n)' = ValueAt(d, m)
  <2>1. CASE Mine(d, m) = {}
    BY <1>1, <2>1 DEF ValueAt, Mine
  <2>2. CASE Mine(d, m) # {}
    <3>1. PICK i \in Mine(d, m) :
              /\ \A j \in Mine(d, m) : j <= i
              /\ ValueAt(d, m) = IF entries[i].op = "D" THEN NoValue ELSE entries[i].value
      BY <2>2, ValueIsLast
    <3>2. entries'[i] = entries[i]
      BY AppendEntry DEF Mine
    <3>3. ValueAt(d, n)' = IF entries'[i].op = "D" THEN NoValue ELSE entries'[i].value
      BY <1>1, <3>1, LastIsValue, n \in Int
    <3>4. QED
      BY <3>1, <3>2, <3>3
  <2>3. QED
    BY <2>1, <2>2
<1>2. \A n \in 0..Len(entries) : ValueAt(d, n)' = ValueAt(d, n)
  BY <1>1, AppendMine, AppendEntry
<1>3. Len(entries') = Len(entries) + 1 /\ Len(entries) \in Nat
  BY AppendEntry
<1>4. CASE e.doc # d
  <2>1. ASSUME NEW n, n = Len(entries') PROVE ValueAt(d, n)' = ValueAt(d, Len(entries))
    BY <2>1, <1>1, <1>3, <1>4, AppendMine
  <2>2. QED
    BY <1>2, <1>4, <2>1 DEF ValueNow
<1>5. CASE e.doc = d
  <2>1. ASSUME NEW n, n = Len(entries')
        PROVE  ValueAt(d, n)' = IF e.op = "D" THEN NoValue ELSE e.value
    <3>1. Mine(d, n)' = Mine(d, Len(entries)) \cup {n} /\ n \in 0..Len(entries')
      BY <2>1, <1>3, <1>5, AppendMine
    <3>2. \A j \in Mine(d, Len(entries)) \cup {n} : j <= n
      BY <2>1, <1>3 DEF Mine
    <3>3. ValueAt(d, n)' = IF entries'[n].op = "D" THEN NoValue ELSE entries'[n].value
      BY <3>1, <3>2, LastIsValue, n \in Int
    <3>4. QED
      BY <2>1, <1>3, <3>3, AppendEntry
  <2>2. QED
    BY <1>2, <1>5, <2>1 DEF ValueNow
<1>6. QED
  BY <1>2, <1>4, <1>5

(* The pre-image of a call is a value of the field, or none.               *)
LEMMA PreImageType ==
  ASSUME IxTypes, NEW d \in IxDoc, NEW n \in 0..Len(entries)
  PROVE  readPreImage(d, n) \in IxValue \cup {NoValue}
<1> DEFINE seen == {i \in 1..n : /\ i > n - PreimageGets /\ i > retired
                                 /\ entries[i].doc = d}
           last == CHOOSE i \in seen : \A j \in seen : j <= i
<1>1. CASE seen = {}
  BY <1>1 DEF readPreImage
<1>2. CASE seen # {}
  <2>1. seen \subseteq Mine(d, n)
    BY DEF Mine
  <2>2. PICK k \in Mine(d, n) : \A j \in Mine(d, n) : j <= k
    BY <1>2, <2>1 DEF IxTypes, HasLast
  <2>3. k \in seen
    <3>1. PICK i \in seen : TRUE
      BY <1>2
    <3>2. i <= k
      BY <2>1, <2>2, <3>1
    <3>3. QED
      BY <2>2, <3>1, <3>2, IxAssumption DEF Mine, IxTypes
  <2>4. last \in seen
    BY <2>1, <2>2, <2>3
  <2>5. entries[last] \in Entries
    BY <2>4 DEF IxTypes
  <2>6. readPreImage(d, n) = IF entries[last].op = "D" THEN NoValue ELSE entries[last].value
    BY <1>2 DEF readPreImage
  <2>7. QED
    BY <2>5, <2>6 DEF Entries
<1>3. QED
  BY <1>1, <1>2

LEMMA EntriesKept ==
  ASSUME UNCHANGED entries
  PROVE  /\ \A d, n : ValueAt(d, n)' = ValueAt(d, n)
         /\ \A d : ValueNow(d)' = ValueNow(d)
         /\ HasLast' <=> HasLast
BY DEF ValueAt, ValueNow, HasLast, Mine

LEMMA KeysType ==
  ASSUME NEW d \in IxDoc, NEW v \in IxValue \cup {NoValue}
  PROVE  /\ allIndexKeysFor(v, d) \subseteq Keys /\ ExpectedKeys(v, d) \subseteq Keys
         /\ allIndexKeysFor(v, d) \subseteq ExpectedKeys(v, d)
         /\ \A k \in allIndexKeysFor(v, d) : k[2] = d
BY DEF allIndexKeysFor, ExpectedKeys, Keys

-----------------------------------------------------------------------------
(* Frames: what a step leaves alone.                                       *)

(* A read that goes on as it was, or is told of a document.                *)
SameScan(a, b) ==
  /\ b.pc = a.pc /\ b.wanted = a.wanted /\ b.left = a.left /\ b.found = a.found
  /\ b.rows = a.rows /\ b.tail = a.tail /\ a.touched \subseteq b.touched

LEMMA TouchKeeps ==
  ASSUME NEW k \in Scans, NEW d \in IxDoc
  PROVE  /\ Touch(k, d) \in Scans /\ SameScan(k, Touch(k, d))
         /\ k.pc = "list" => d \in Touch(k, d).touched
<1>1. CASE k.pc = "list"
  <2> DEFINE r == [k EXCEPT !.touched = @ \cup {d}]
  <2>1. r \in Scans /\ SameScan(k, r) /\ d \in r.touched
    BY DEF Scans, SameScan
  <2>2. QED
    BY <1>1, <2>1 DEF Touch
<1>2. CASE k.pc # "list"
  BY <1>2 DEF Touch, SameScan
<1>3. QED
  BY <1>1, <1>2

LEMMA TouchesKeep ==
  ASSUME IxTypes, NEW d \in IxDoc, scanner' = [s \in Scanner |-> Touch(scanner[s], d)]
  PROVE  /\ scanner' \in [Scanner -> Scans]
         /\ \A s \in Scanner : SameScan(scanner[s], scanner'[s])
         /\ \A s \in Scanner : scanner[s].pc = "list" => d \in scanner'[s].touched
BY TouchKeeps DEF IxTypes

LEMMA NoticeKeeps ==
  ASSUME IxTypes, NEW d \in IxDoc, Notice(d)
  PROVE  /\ scanner' \in [Scanner -> Scans]
         /\ \A s \in Scanner : SameScan(scanner[s], scanner'[s])
         /\ \A s \in Scanner : scanner[s].pc = "list" => d \in scanner'[s].touched
         /\ rebuild' \in Rebuilds
         /\ rebuild'.pc = rebuild.pc /\ rebuild'.expected = rebuild.expected
         /\ rebuild'.alone => rebuild.pc = "idle"
<1>1. rebuild' \in Rebuilds /\ rebuild'.pc = rebuild.pc /\ rebuild'.expected = rebuild.expected
      /\ (rebuild'.alone => rebuild.pc = "idle")
  BY DEF Notice, IxTypes, Rebuilds
<1>2. QED
  BY <1>1, TouchesKeep DEF Notice

(* Reads in a step that changes at most the value of documents of which    *)
(* every read under way is told.                                           *)
LEMMA ReadsFrame ==
  ASSUME IxInv,
         \A s \in Scanner : SameScan(scanner[s], scanner'[s]),
         contended \subseteq contended',
         \A d \in IxDoc :
           \/ ValueNow(d)' = ValueNow(d)
           \/ \A s \in Scanner : scanner[s].pc = "list" => d \in scanner'[s].touched,
         \A d \in IxDoc : \A n \in 0..Len(entries) : ValueAt(d, n)' = ValueAt(d, n),
         Len(entries') \in Nat, Len(entries) <= Len(entries')
  PROVE  ReadsFind' /\ ReadsEnd' /\ IndexReadExact'
<1>1. Len(entries) \in Nat /\ \A s \in Scanner : scanner[s] \in Scans
  BY DEF IxInv, MarkerInv, IxTypes
<1>2. ASSUME NEW s \in Scanner
      PROVE  scanner[s].tail \in 0..Len(entries) /\ scanner[s].rows \subseteq IxDoc
             /\ scanner'[s].tail <= Len(entries')
  BY <1>1 DEF IxInv, ReadsEnd, Scans, SameScan
<1>3. ReadsFind'
  BY DEF IxInv, ReadsFind, SameScan
<1>4. ReadsEnd'
  BY <1>2 DEF ReadsEnd
<1>5. IndexReadExact'
  BY <1>2 DEF IxInv, IndexReadExact, SameScan
<1>6. QED
  BY <1>3, <1>4, <1>5

LEMMA IdleCommitterType ==
  /\ IdleCommitter \in Commits
  /\ [IdleCommitter EXCEPT !.pc = "ended"] \in Commits
  /\ [IdleCommitter EXCEPT !.pc = "ended"].pc = "ended"
BY DEF IdleCommitter, Commits

LEMMA CommitterMoves ==
  ASSUME IxTypes, NEW c \in Committer, NEW k \in Commits,
         committer' = [committer EXCEPT ![c] = k]
  PROVE  /\ committer' \in [Committer -> Commits] /\ committer'[c] = k
         /\ \A b \in Committer : b # c => committer'[b] = committer[b]
         /\ \A b \in Committer : b # c => (Busy(b)' <=> Busy(b))
         /\ Busy(c)' <=> k.pc \in {"create", "clean", "delete"}
BY DEF IxTypes, Busy

LEMMA IxInvInit == IxInit => IxInv
<1> SUFFICES ASSUME IxInit PROVE IxInv
  OBVIOUS
<1>1. IdleScan \in Scans /\ IdleScan.pc = "idle" /\ IdleScan.tail = 0
  BY DEF IdleScan, Scans
<1>2. IdleRebuild \in Rebuilds /\ IdleRebuild.pc = "idle"
  BY DEF IdleRebuild, Rebuilds
<1>3. entries \in Seq(Entries) /\ Len(entries) = 0
  BY DEF IxInit
<1>4. HasLast
  BY <1>3 DEF HasLast, Mine
<1>5. \A d : ValueNow(d) = NoValue
  BY <1>3 DEF ValueNow, ValueAt
<1>6. \A c \in Committer : committer[c].pc = "idle"
  BY DEF IxInit, IdleCommitter
<1>7. IxTypes
  BY <1>1, <1>2, <1>3, <1>4, IdleCommitterType DEF IxInit, IxTypes
<1>8. \A c \in Committer : ~Busy(c)
  BY <1>6 DEF Busy
<1>9. LiveRowIndexed
  BY <1>5 DEF LiveRowIndexed, allIndexKeysFor
<1>10. \A s \in Scanner : scanner[s] = IdleScan
  BY DEF IxInit
<1>11. ReadsFind /\ ReadsEnd /\ IndexReadExact
  BY <1>1, <1>3, <1>10 DEF ReadsFind, ReadsEnd, IndexReadExact
<1>12. rebuild.pc = "idle"
  BY <1>2 DEF IxInit
<1>13. CallsAreSound /\ OneCallEach /\ CallsKeepMarkers /\ StaleIsForeign
  BY <1>6, <1>8 DEF CallsAreSound, OneCallEach, CallsKeepMarkers, StaleIsForeign
<1>14. QED
  BY <1>7, <1>9, <1>11, <1>12, <1>13 DEF IxInv, MarkerInv, RebuildExpects, RebuildAlone

-----------------------------------------------------------------------------
(* The steps of a commit call.                                             *)

LEMMA PutMarkersInv ==
  ASSUME IxInv, NEW c \in Committer, NEW d \in IxDoc, NEW op \in {"I", "U", "D"},
         NEW v \in IxValue \cup {NoValue}, PutMarkers(c, d, op, v)
  PROVE  IxInv'
<1> DEFINE k == [IdleCommitter EXCEPT !.pc = "create", !.doc = d, !.op = op, !.value = v]
<1>1. /\ k \in Commits /\ k.pc = "create" /\ k.doc = d /\ k.op = op /\ k.value = v /\ k.seq = 0
      /\ committer' = [committer EXCEPT ![c] = k]
  BY DEF IdleCommitter, Commits, PutMarkers, Begin, NoValue
<1> HIDE DEF k
<1>2. /\ IxTypes /\ UNCHANGED <<entries, retired>> /\ Notice(d)
      /\ committer[c].pc = "idle" /\ (op = "D" <=> v = NoValue)
      /\ contended' = IF BusyOn(d) # {} \/ rebuild.pc # "idle"
                      THEN contended \cup {d} ELSE contended
      /\ markers' = markers \cup allIndexKeysFor(v, d)
      /\ Len(entries) \in Nat
  BY DEF IxInv, MarkerInv, IxTypes, PutMarkers, Begin
<1>m. /\ committer' \in [Committer -> Commits] /\ committer'[c] = k
      /\ \A b \in Committer : b # c => committer'[b] = committer[b]
      /\ \A b \in Committer : b # c => (Busy(b)' <=> Busy(b))
      /\ Busy(c)'
  BY <1>1, <1>2, CommitterMoves
<1>3. /\ \A e, n : ValueAt(e, n)' = ValueAt(e, n)
      /\ \A e : ValueNow(e)' = ValueNow(e) /\ (HasLast' <=> HasLast)
  BY <1>2, EntriesKept
<1>4. IxTypes'
  BY <1>1, <1>2, <1>3, <1>m, NoticeKeeps, KeysType DEF IxTypes
<1>5. CallsAreSound'
  <2> SUFFICES ASSUME NEW b \in Committer, Busy(b)'
               PROVE  /\ committer'[b].doc \in IxDoc
                      /\ committer'[b].op = "D" => committer'[b].value = NoValue
                      /\ committer'[b].seq <= Len(entries')
    BY DEF CallsAreSound
  <2>1. CASE b = c
    BY <1>1, <1>2, <2>1, <1>m
  <2>2. CASE b # c
    <3>1. Busy(b) /\ committer'[b] = committer[b]
      BY <1>1, <1>2, <2>2, <1>m
    <3>2. QED
      BY <1>2, <3>1 DEF IxInv, MarkerInv, CallsAreSound
  <2>3. QED
    BY <2>1, <2>2
<1>6. OneCallEach'
  <2> SUFFICES ASSUME NEW a \in Committer, Busy(a)', committer'[a].doc \notin contended'
               PROVE  /\ rebuild'.pc = "idle"
                      /\ \A b \in Committer : Busy(b)' /\ committer'[b].doc = committer'[a].doc => b = a
    BY DEF OneCallEach
  <2>1. rebuild'.pc = rebuild.pc
    BY <1>2, NoticeKeeps
  <2>2. CASE a = c
    <3>1. BusyOn(d) = {} /\ rebuild.pc = "idle"
      BY <1>1, <1>2, <2>2, <1>m
    <3>2. QED
      BY <1>1, <1>2, <2>1, <2>2, <3>1, <1>m DEF BusyOn
  <2>3. CASE a # c
    <3>1. Busy(a) /\ committer'[a] = committer[a] /\ committer[a].doc \notin contended
      BY <1>1, <1>2, <2>3, <1>m
    <3>2. committer[a].doc # d
      BY <1>2, <2>3, <3>1 DEF BusyOn
    <3>3. /\ rebuild.pc = "idle"
          /\ \A b \in Committer : Busy(b) /\ committer[b].doc = committer[a].doc => b = a
      BY <3>1 DEF IxInv, MarkerInv, OneCallEach
    <3>4. QED
      BY <1>1, <1>2, <2>1, <2>3, <3>1, <3>2, <3>3, <1>m
  <2>4. QED
    BY <2>2, <2>3
<1>7. CallsKeepMarkers'
  BY <1>1, <1>2, <1>3, <1>m DEF IxInv, MarkerInv, CallsKeepMarkers
<1>8. StaleIsForeign'
  BY <1>1, <1>2, <1>m DEF IxInv, MarkerInv, StaleIsForeign
<1>9. RebuildExpects' /\ LiveRowIndexed' /\ RebuildAlone'
  BY <1>2, <1>3, NoticeKeeps DEF IxInv, MarkerInv, RebuildExpects, LiveRowIndexed, RebuildAlone
<1>10. ReadsFind' /\ ReadsEnd' /\ IndexReadExact'
  BY <1>2, <1>3, NoticeKeeps, ReadsFrame
<1>11. QED
  BY <1>4, <1>5, <1>6, <1>7, <1>8, <1>9, <1>10 DEF IxInv, MarkerInv

LEMMA CommitEntryInv ==
  ASSUME IxInv, NEW c \in Committer, CommitEntry(c) PROVE IxInv'
<1>0. PICK d \in IxDoc : d = committer[c].doc
  BY DEF IxInv, MarkerInv, CallsAreSound, CommitEntry, Busy
<1> DEFINE k == [committer[c] EXCEPT !.pc = "clean", !.seq = Len(entries)]
           e == [doc |-> d, op |-> committer[c].op, value |-> committer[c].value]
<1>1. /\ IxTypes /\ UNCHANGED <<retired, markers, contended>> /\ Len(entries) \in Nat
      /\ committer[c] \in Commits /\ committer[c].pc = "create" /\ Busy(c)
      /\ Notice(d) /\ entries' = Append(entries, e)
  BY <1>0 DEF IxInv, MarkerInv, IxTypes, CommitEntry, Busy
<1>2. d \in IxDoc /\ (committer[c].op = "D" => committer[c].value = NoValue)
  BY <1>1, <1>0 DEF IxInv, MarkerInv, CallsAreSound
<1>3. /\ k \in Commits /\ k.pc = "clean" /\ k.doc = d /\ k.op = committer[c].op
      /\ k.value = committer[c].value /\ k.seq = Len(entries)
      /\ committer' = [committer EXCEPT ![c] = k]
  BY <1>0, <1>1 DEF Commits, CommitEntry, IxTypes
<1>4. e \in Entries /\ e.doc = d /\ (IF e.op = "D" THEN NoValue ELSE e.value) = committer[c].value
  BY <1>1, <1>2 DEF Entries, Commits
<1> HIDE DEF k, e
<1>m. /\ committer' \in [Committer -> Commits] /\ committer'[c] = k
      /\ \A b \in Committer : b # c => committer'[b] = committer[b]
      /\ \A b \in Committer : b # c => (Busy(b)' <=> Busy(b))
      /\ Busy(c)'
  BY <1>1, <1>3, CommitterMoves
<1>5. IxTypes'
  BY <1>1, <1>2, <1>3, <1>4, <1>m, NoticeKeeps, AppendEntry, AppendHasLast DEF IxTypes
<1>6. /\ \A x \in IxDoc : \A n \in 0..Len(entries) : ValueAt(x, n)' = ValueAt(x, n)
      /\ \A x \in IxDoc : x # d => ValueNow(x)' = ValueNow(x)
      /\ ValueNow(d)' = committer[c].value
      /\ Len(entries') = Len(entries) + 1
  BY <1>1, <1>2, <1>4, <1>5, AppendValue, AppendEntry
<1>7. CallsAreSound'
  <2> SUFFICES ASSUME NEW b \in Committer, Busy(b)'
               PROVE  /\ committer'[b].doc \in IxDoc
                      /\ committer'[b].op = "D" => committer'[b].value = NoValue
                      /\ committer'[b].seq <= Len(entries')
    BY DEF CallsAreSound
  <2>1. CASE b = c
    BY <1>1, <1>2, <1>3, <1>6, <2>1, <1>m
  <2>2. CASE b # c
    <3>1. Busy(b) /\ committer'[b] = committer[b] /\ committer[b].seq \in Nat
      BY <1>1, <1>3, <2>2, <1>m DEF IxTypes, Commits
    <3>2. QED
      BY <1>1, <1>6, <3>1 DEF IxInv, MarkerInv, CallsAreSound
  <2>3. QED
    BY <2>1, <2>2
<1>8. \A b \in Committer : /\ Busy(b)' <=> Busy(b)
                           /\ committer'[b].doc = committer[b].doc
                           /\ committer'[b].value = committer[b].value
  <2>1. /\ Busy(c)' /\ Busy(c)
        /\ committer'[c].doc = committer[c].doc /\ committer'[c].value = committer[c].value
    BY <1>0, <1>1, <1>3, <1>m
  <2>2. QED
    BY <2>1, <1>m
<1>9. rebuild'.pc = rebuild.pc /\ rebuild'.expected = rebuild.expected
      /\ (rebuild'.alone => rebuild.pc = "idle")
  BY <1>1, <1>2, NoticeKeeps
<1>10. OneCallEach'
  BY <1>1, <1>8, <1>9 DEF IxInv, MarkerInv, OneCallEach
<1>11. CallsKeepMarkers'
  <2> SUFFICES ASSUME NEW b \in Committer, NEW x \in IxDoc \ contended',
                      Busy(b)', committer'[b].doc = x
               PROVE  /\ committer'[b].pc = "create" =>
                           allIndexKeysFor(committer'[b].value, x) \subseteq markers'
                      /\ committer'[b].pc \in {"clean", "delete"} => ValueNow(x)' = committer'[b].value
    BY DEF CallsKeepMarkers
  <2>1. CASE b = c
    BY <1>1, <1>3, <1>6, <2>1, <1>m
  <2>2. CASE b # c
    <3>1. Busy(b) /\ committer'[b] = committer[b] /\ x \notin contended
      BY <1>1, <1>3, <2>2, <1>m
    <3>2. x # d
      BY <1>0, <1>1, <2>2, <3>1 DEF IxInv, MarkerInv, OneCallEach
    <3>3. ValueNow(x)' = ValueNow(x)
      BY <1>6, <3>1, <3>2
    <3>4. QED
      BY <1>1, <3>1, <3>3 DEF IxInv, MarkerInv, CallsKeepMarkers
  <2>3. QED
    BY <2>1, <2>2
<1>12. StaleIsForeign'
  BY <1>1, <1>3, <1>m DEF IxInv, MarkerInv, StaleIsForeign
<1>13. LiveRowIndexed'
  <2> SUFFICES ASSUME NEW x \in IxDoc \ contended
               PROVE  allIndexKeysFor(ValueNow(x)', x) \subseteq markers
    BY <1>1 DEF LiveRowIndexed, allIndexKeysFor
  <2>1. CASE x = d
    BY <1>0, <1>1, <1>6, <2>1 DEF IxInv, MarkerInv, CallsKeepMarkers
  <2>2. CASE x # d
    BY <1>6, <2>2 DEF IxInv, MarkerInv, LiveRowIndexed
  <2>3. QED
    BY <2>1, <2>2
<1>14. RebuildExpects'
  <2> SUFFICES ASSUME rebuild.pc # "idle", NEW x \in IxDoc \ contended
               PROVE  allIndexKeysFor(ValueNow(x)', x) \subseteq rebuild.expected
    BY <1>1, <1>9 DEF RebuildExpects, allIndexKeysFor
  <2>1. x # d
    BY <1>0, <1>1 DEF IxInv, MarkerInv, OneCallEach
  <2>2. QED
    BY <1>6, <2>1 DEF IxInv, MarkerInv, RebuildExpects
<1>15. RebuildAlone'
  BY <1>9 DEF RebuildAlone
<1>16. ReadsFind' /\ ReadsEnd' /\ IndexReadExact'
  <2>1. \A x \in IxDoc :
           \/ ValueNow(x)' = ValueNow(x)
           \/ \A s \in Scanner : scanner[s].pc = "list" => x \in scanner'[s].touched
    BY <1>1, <1>2, <1>6, NoticeKeeps
  <2>2. \A s \in Scanner : SameScan(scanner[s], scanner'[s])
    BY <1>1, <1>2, NoticeKeeps
  <2>3. Len(entries') \in Nat /\ Len(entries) <= Len(entries') /\ contended \subseteq contended'
    BY <1>1, <1>6
  <2>4. QED
    BY <1>6, <2>1, <2>2, <2>3, ReadsFrame
<1>17. QED
  BY <1>5, <1>7, <1>10, <1>11, <1>12, <1>13, <1>14, <1>15, <1>16 DEF IxInv, MarkerInv

LEMMA FindStaleInv ==
  ASSUME IxInv, NEW c \in Committer, FindStale(c) PROVE IxInv'
<1>0. PICK d \in IxDoc : d = committer[c].doc
  BY DEF IxInv, MarkerInv, CallsAreSound, FindStale, Busy
<1> DEFINE stale == StaleKeys(committer[c])
           k == [committer[c] EXCEPT !.pc = "delete", !.stale = stale]
<1>1. /\ IxTypes /\ UNCHANGED <<entries, retired, markers, contended>> /\ Len(entries) \in Nat
      /\ committer[c] \in Commits /\ committer[c].pc = "clean" /\ Busy(c) /\ Notice(d)
  BY <1>0 DEF IxInv, MarkerInv, IxTypes, FindStale, Busy
<1>2. committer[c].seq \in 0..Len(entries)
  BY <1>1 DEF IxInv, MarkerInv, CallsAreSound, Commits
<1>3. /\ stale \subseteq Keys
      /\ \A x \in stale : x[2] = d /\ x \notin allIndexKeysFor(committer[c].value, d)
  <2>1. readPreImage(d, committer[c].seq) \in IxValue \cup {NoValue}
    BY <1>1, <1>2, PreImageType
  <2>2. /\ allIndexKeysFor(readPreImage(d, committer[c].seq), d) \subseteq Keys
        /\ \A x \in allIndexKeysFor(readPreImage(d, committer[c].seq), d) : x[2] = d
    BY <2>1, KeysType
  <2>3. QED
    BY <1>0, <2>2 DEF StaleKeys
<1> HIDE DEF stale
<1>4. /\ k \in Commits /\ k.pc = "delete" /\ k.doc = d /\ k.op = committer[c].op
      /\ k.value = committer[c].value /\ k.seq = committer[c].seq /\ k.stale = stale
  BY <1>0, <1>1, <1>3 DEF Commits
<1>5. committer' = [committer EXCEPT ![c] = k]
  BY <1>1 DEF FindStale, IxTypes, stale
<1> HIDE DEF k
<1>m. /\ committer' \in [Committer -> Commits] /\ committer'[c] = k
      /\ \A b \in Committer : b # c => committer'[b] = committer[b]
      /\ \A b \in Committer : b # c => (Busy(b)' <=> Busy(b))
      /\ Busy(c)'
  BY <1>1, <1>4, <1>5, CommitterMoves
<1>6. /\ \A e, n : ValueAt(e, n)' = ValueAt(e, n)
      /\ \A e : ValueNow(e)' = ValueNow(e) /\ (HasLast' <=> HasLast)
  BY <1>1, EntriesKept
<1>7. IxTypes'
  BY <1>1, <1>6, <1>m, NoticeKeeps DEF IxTypes
<1>8. \A b \in Committer : /\ Busy(b)' <=> Busy(b)
                           /\ committer'[b].doc = committer[b].doc
                           /\ committer'[b].op = committer[b].op
                           /\ committer'[b].value = committer[b].value
                           /\ committer'[b].seq = committer[b].seq
  <2>1. /\ Busy(c)' /\ Busy(c)
        /\ committer'[c].doc = committer[c].doc /\ committer'[c].value = committer[c].value
        /\ committer'[c].op = committer[c].op /\ committer'[c].seq = committer[c].seq
    BY <1>0, <1>1, <1>4, <1>m
  <2>2. QED
    BY <2>1, <1>m
<1>9. rebuild'.pc = rebuild.pc /\ rebuild'.expected = rebuild.expected
      /\ (rebuild'.alone => rebuild.pc = "idle")
  BY <1>1, NoticeKeeps
<1>10. CallsAreSound' /\ OneCallEach'
  BY <1>1, <1>8, <1>9 DEF IxInv, MarkerInv, CallsAreSound, OneCallEach
<1>11. \A b \in Committer : b # c => committer'[b].pc = committer[b].pc
  BY <1>m
<1>12. CallsKeepMarkers'
  BY <1>1, <1>4, <1>6, <1>8, <1>11, <1>m DEF IxInv, MarkerInv, CallsKeepMarkers
<1>13. StaleIsForeign'
  BY <1>3, <1>4, <1>m DEF IxInv, MarkerInv, StaleIsForeign
<1>14. RebuildExpects' /\ LiveRowIndexed' /\ RebuildAlone'
  BY <1>1, <1>6, <1>9 DEF IxInv, MarkerInv, RebuildExpects, LiveRowIndexed, RebuildAlone
<1>15. ReadsFind' /\ ReadsEnd' /\ IndexReadExact'
  BY <1>1, <1>6, NoticeKeeps, ReadsFrame
<1>16. QED
  BY <1>7, <1>10, <1>12, <1>13, <1>14, <1>15 DEF IxInv, MarkerInv

(* A call ends, and may take markers of its document with it that are not  *)
(* those of the row.                                                       *)
LEMMA CallEnds ==
  ASSUME IxInv, NEW c \in Committer, NEW d \in IxDoc, Busy(c), committer[c].doc = d,
         committer' = [committer EXCEPT ![c] = [IdleCommitter EXCEPT !.pc = "ended"]],
         Notice(d), UNCHANGED <<entries, retired, contended>>,
         NEW gone, markers' = markers \ gone,
         \A x \in gone : x[2] = d,
         d \notin contended => \A x \in gone : x \notin allIndexKeysFor(ValueNow(d), d)
  PROVE  IxInv'
<1> DEFINE k == [IdleCommitter EXCEPT !.pc = "ended"]
<1>1. k \in Commits /\ k.pc = "ended" /\ IxTypes /\ committer' = [committer EXCEPT ![c] = k]
      /\ Len(entries) \in Nat
  BY IdleCommitterType DEF IxInv, MarkerInv, IxTypes
<1> HIDE DEF k
<1>m. /\ committer' \in [Committer -> Commits] /\ committer'[c].pc = "ended"
      /\ \A b \in Committer : b # c => committer'[b] = committer[b]
      /\ \A b \in Committer : b # c => (Busy(b)' <=> Busy(b))
      /\ ~Busy(c)'
  BY <1>1, CommitterMoves
<1>2. /\ \A e, n : ValueAt(e, n)' = ValueAt(e, n)
      /\ \A e : ValueNow(e)' = ValueNow(e) /\ (HasLast' <=> HasLast)
  BY EntriesKept
<1>3. IxTypes'
  BY <1>1, <1>2, <1>m, NoticeKeeps DEF IxTypes
<1>4. rebuild'.pc = rebuild.pc /\ rebuild'.expected = rebuild.expected
      /\ (rebuild'.alone => rebuild.pc = "idle")
  BY <1>1, NoticeKeeps
<1>5. CallsAreSound' /\ OneCallEach'
  BY <1>4, <1>m DEF IxInv, MarkerInv, CallsAreSound, OneCallEach
<1>6. CallsKeepMarkers'
  <2> SUFFICES ASSUME NEW b \in Committer, NEW x \in IxDoc \ contended,
                      Busy(b)', committer'[b].doc = x
               PROVE  /\ committer'[b].pc = "create" =>
                           allIndexKeysFor(committer'[b].value, x) \subseteq markers'
                      /\ committer'[b].pc \in {"clean", "delete"} => ValueNow(x)' = committer'[b].value
    BY DEF CallsKeepMarkers
  <2>1. b # c /\ Busy(b) /\ committer'[b] = committer[b]
    BY <1>m
  <2>2. x # d
    BY <2>1 DEF IxInv, MarkerInv, OneCallEach
  <2>3. committer[b].value \in IxValue \cup {NoValue}
    BY <1>1 DEF IxTypes, Commits
  <2>4. \A y \in allIndexKeysFor(committer[b].value, x) : y[2] = x
    BY <2>3, KeysType
  <2>5. QED
    BY <1>2, <2>1, <2>2, <2>4 DEF IxInv, MarkerInv, CallsKeepMarkers
<1>7. StaleIsForeign'
  BY <1>m DEF IxInv, MarkerInv, StaleIsForeign
<1>8. LiveRowIndexed'
  <2> SUFFICES ASSUME NEW x \in IxDoc \ contended
               PROVE  allIndexKeysFor(ValueNow(x), x) \subseteq markers \ gone
    BY <1>2 DEF LiveRowIndexed
  <2>1. allIndexKeysFor(ValueNow(x), x) \subseteq markers
    BY DEF IxInv, MarkerInv, LiveRowIndexed
  <2>2. \A y \in allIndexKeysFor(ValueNow(x), x) : y[2] = x
    BY <1>1, ValueType, KeysType DEF ValueNow
  <2>3. QED
    BY <2>1, <2>2
<1>9. RebuildExpects' /\ RebuildAlone'
  BY <1>2, <1>4 DEF IxInv, MarkerInv, RebuildExpects, RebuildAlone
<1>10. ReadsFind' /\ ReadsEnd' /\ IndexReadExact'
  BY <1>1, <1>2, NoticeKeeps, ReadsFrame
<1>11. QED
  BY <1>3, <1>5, <1>6, <1>7, <1>8, <1>9, <1>10 DEF IxInv, MarkerInv

LEMMA DeleteStaleInv ==
  ASSUME IxInv, NEW c \in Committer, DeleteStale(c) PROVE IxInv'
<1>0. PICK d \in IxDoc : d = committer[c].doc
  BY DEF IxInv, MarkerInv, CallsAreSound, DeleteStale, Busy
<1>1. PICK failed \in SUBSET committer[c].stale :
        markers' = markers \ (committer[c].stale \ failed)
  BY DEF DeleteStale
<1>2. PICK gone : gone = committer[c].stale \ failed
  OBVIOUS
<1>3. Busy(c) /\ committer[c].pc = "delete"
  BY DEF Busy, DeleteStale
<1>4. \A x \in gone : x[2] = d /\ x \notin allIndexKeysFor(committer[c].value, d)
  BY <1>0, <1>2, <1>3 DEF IxInv, MarkerInv, StaleIsForeign
<1>5. d \notin contended => ValueNow(d) = committer[c].value
  BY <1>0, <1>3 DEF IxInv, MarkerInv, CallsKeepMarkers
<1>6. QED
  BY <1>0, <1>1, <1>2, <1>3, <1>4, <1>5, CallEnds DEF DeleteStale

LEMMA CommitCrashInv ==
  ASSUME IxInv, NEW c \in Committer, CommitCrash(c) PROVE IxInv'
<1>0. PICK d \in IxDoc : d = committer[c].doc
  BY DEF IxInv, MarkerInv, CallsAreSound, CommitCrash
<1>1. PICK gone : gone = {}
  OBVIOUS
<1>2. markers' = markers \ gone /\ \A x \in gone : FALSE
  BY <1>1 DEF CommitCrash
<1>3. QED
  BY <1>0, <1>2, CallEnds DEF CommitCrash

-----------------------------------------------------------------------------
(* Retirement, the steps of an index read and those of a rebuild.          *)

(* A step that leaves the commit calls, the entries and the markers alone, *)
(* and the rebuild too.                                                    *)
LEMMA MarkersKept ==
  ASSUME IxInv, IxTypes', UNCHANGED <<entries, markers, committer, rebuild, contended>>
  PROVE  MarkerInv' /\ RebuildAlone'
<1>1. /\ \A e, n : ValueAt(e, n)' = ValueAt(e, n)
      /\ \A e : ValueNow(e)' = ValueNow(e)
  BY EntriesKept
<1>2. \A c \in Committer : Busy(c)' <=> Busy(c)
  BY DEF Busy
<1>3. CallsAreSound' /\ OneCallEach' /\ CallsKeepMarkers' /\ StaleIsForeign'
  BY <1>1, <1>2 DEF IxInv, MarkerInv, CallsAreSound, OneCallEach, CallsKeepMarkers, StaleIsForeign
<1>4. RebuildExpects' /\ LiveRowIndexed'
  BY <1>1 DEF IxInv, MarkerInv, RebuildExpects, LiveRowIndexed
<1>5. RebuildAlone'
  BY <1>1, <1>2 DEF IxInv, RebuildAlone
<1>6. QED
  BY <1>3, <1>4, <1>5 DEF MarkerInv

LEMMA RetirePrefixInv == ASSUME IxInv, RetirePrefix PROVE IxInv'
<1>1. IxTypes /\ Len(entries) \in Nat /\ UNCHANGED <<entries, markers, committer, scanner, rebuild, contended>>
      /\ retired' = Len(entries)
  BY DEF IxInv, MarkerInv, IxTypes, RetirePrefix
<1>2. /\ \A e, n : ValueAt(e, n)' = ValueAt(e, n)
      /\ \A e : ValueNow(e)' = ValueNow(e) /\ (HasLast' <=> HasLast)
  BY <1>1, EntriesKept
<1>3. IxTypes'
  BY <1>1, <1>2 DEF IxTypes
<1>4. \A s \in Scanner : SameScan(scanner[s], scanner'[s])
  BY <1>1 DEF SameScan
<1>5. ReadsFind' /\ ReadsEnd' /\ IndexReadExact'
  BY <1>1, <1>2, <1>4, ReadsFrame
<1>6. QED
  BY <1>1, <1>3, <1>5, MarkersKept DEF IxInv

(* A read moves, and nothing else does: what is left to show is what the   *)
(* invariant says of it.                                                   *)
LEMMA ScanMoves ==
  ASSUME IxInv, NEW s \in Scanner, NEW k \in Scans, scanner' = [scanner EXCEPT ![s] = k],
         UNCHANGED <<entries, retired, markers, committer, rebuild, contended>>,
         k.tail <= Len(entries),
         k.pc = "list" =>
           \A d \in IxDoc \ (contended \cup k.touched) :
             ValueNow(d) \in k.wanted \ k.left => d \in k.found,
         k.pc = "done" =>
           /\ \A d \in k.rows : ValueAt(d, k.tail) \in k.wanted
           /\ \A d \in IxDoc \ (contended \cup k.touched) :
                ValueAt(d, k.tail) \in k.wanted => d \in k.rows
  PROVE  IxInv'
<1>1. /\ \A e, n : ValueAt(e, n)' = ValueAt(e, n)
      /\ \A e : ValueNow(e)' = ValueNow(e) /\ (HasLast' <=> HasLast)
  BY EntriesKept
<1>2. scanner' \in [Scanner -> Scans] /\ scanner'[s] = k
      /\ \A t \in Scanner : t # s => scanner'[t] = scanner[t]
  BY DEF IxInv, MarkerInv, IxTypes
<1>3. IxTypes'
  BY <1>1, <1>2 DEF IxInv, MarkerInv, IxTypes
<1>4. ReadsFind'
  BY <1>1, <1>2 DEF IxInv, ReadsFind
<1>5. ReadsEnd'
  BY <1>2 DEF IxInv, ReadsEnd
<1>6. IndexReadExact'
  BY <1>1, <1>2 DEF IxInv, IndexReadExact
<1>7. QED
  BY <1>3, <1>4, <1>5, <1>6, MarkersKept DEF IxInv

LEMMA ScanBeginInv ==
  ASSUME IxInv, NEW s \in Scanner, NEW wanted \in SUBSET (IxValue \ FilterMiss),
         ScanBegin(s, wanted)
  PROVE  IxInv'
<1> DEFINE busy == {committer[c].doc : c \in {x \in Committer : Busy(x)}}
           k == [IdleScan EXCEPT !.pc = "list", !.wanted = wanted, !.left = wanted, !.touched = busy]
<1>1. busy \subseteq IxDoc /\ Len(entries) \in Nat
  BY DEF IxInv, MarkerInv, CallsAreSound, IxTypes
<1>2. scanner' = [scanner EXCEPT ![s] = k]
      /\ UNCHANGED <<entries, retired, markers, committer, rebuild, contended>>
  BY DEF ScanBegin
<1> HIDE DEF busy
<1>3. /\ k \in Scans /\ k.pc = "list" /\ k.wanted = wanted /\ k.left = wanted /\ k.tail = 0
  BY <1>1 DEF IdleScan, Scans
<1> HIDE DEF k
<1>4. k.wanted \ k.left = {} /\ k.tail <= Len(entries) /\ k.pc # "done"
  BY <1>1, <1>3
<1>5. QED
  BY <1>2, <1>3, <1>4, ScanMoves

LEMMA NoValueApart == NoValue \notin IxValue
<1>1. \A n : 0 \notin 1..n
  OBVIOUS
<1>2. QED
  BY <1>1, IxAssumption DEF NoValue

LEMMA ScanPageInv ==
  ASSUME IxInv, NEW s \in Scanner, NEW v \in scanner[s].left, ScanPage(s, v)
  PROVE  IxInv'
<1> DEFINE page == {d \in IxDoc : <<v, d>> \in markers}
           k == [scanner[s] EXCEPT !.left = @ \ {v}, !.found = @ \cup page]
<1>1. /\ IxTypes /\ scanner[s] \in Scans /\ scanner[s].pc = "list" /\ v \in scanner[s].left
      /\ UNCHANGED <<entries, retired, markers, committer, rebuild, contended>>
  BY DEF IxInv, MarkerInv, IxTypes, ScanPage
<1>2. scanner' = [scanner EXCEPT ![s] = k]
  BY <1>1 DEF ScanPage, IxTypes
<1>3. v \in IxValue \ FilterMiss /\ v # NoValue
  BY <1>1, NoValueApart DEF Scans
<1>4. /\ k \in Scans /\ k.pc = "list" /\ k.wanted = scanner[s].wanted
      /\ k.left = scanner[s].left \ {v} /\ k.found = scanner[s].found \cup page
      /\ k.tail = scanner[s].tail /\ k.touched = scanner[s].touched
  BY <1>1 DEF Scans
<1>5. ASSUME NEW d \in IxDoc \ contended, ValueNow(d) = v PROVE d \in page
  BY <1>3, <1>5 DEF IxInv, MarkerInv, LiveRowIndexed, allIndexKeysFor
<1>6. k.tail <= Len(entries)
  BY <1>4 DEF IxInv, ReadsEnd
<1> HIDE DEF k, page
<1>7. \A d \in IxDoc \ (contended \cup k.touched) :
        ValueNow(d) \in k.wanted \ k.left => d \in k.found
  BY <1>1, <1>4, <1>5 DEF IxInv, ReadsFind
<1>8. QED
  BY <1>1, <1>2, <1>4, <1>6, <1>7, ScanMoves

LEMMA ScanFoldInv ==
  ASSUME IxInv, NEW s \in Scanner, ScanFold(s) PROVE IxInv'
<1> DEFINE answer == {d \in scanner[s].found : ValueNow(d) \in scanner[s].wanted}
           k == [scanner[s] EXCEPT !.pc = "done", !.tail = Len(entries), !.rows = answer]
<1>1. /\ IxTypes /\ scanner[s] \in Scans /\ scanner[s].pc = "list" /\ scanner[s].left = {}
      /\ UNCHANGED <<entries, retired, markers, committer, rebuild, contended>>
      /\ Len(entries) \in Nat
  BY DEF IxInv, MarkerInv, IxTypes, ScanFold
<1>2. scanner' = [scanner EXCEPT ![s] = k]
  BY <1>1 DEF ScanFold, IxTypes
<1>3. answer \subseteq IxDoc
  BY <1>1 DEF Scans
<1>4. \A d \in answer : d \in scanner[s].found /\ ValueNow(d) \in scanner[s].wanted
  OBVIOUS
<1>5. \A d \in IxDoc \ (contended \cup scanner[s].touched) :
        ValueNow(d) \in scanner[s].wanted => d \in answer
  BY <1>1 DEF IxInv, ReadsFind
<1> HIDE DEF answer
<1>6. /\ k \in Scans /\ k.pc = "done" /\ k.wanted = scanner[s].wanted
      /\ k.rows = answer /\ k.tail = Len(entries) /\ k.touched = scanner[s].touched
  BY <1>1, <1>3 DEF Scans
<1> HIDE DEF k
<1>7. \A d : ValueAt(d, k.tail) = ValueNow(d)
  BY <1>6 DEF ValueNow
<1>8. /\ \A d \in k.rows : ValueAt(d, k.tail) \in k.wanted
      /\ \A d \in IxDoc \ (contended \cup k.touched) :
           ValueAt(d, k.tail) \in k.wanted => d \in k.rows
  BY <1>4, <1>5, <1>6, <1>7
<1>9. k.tail <= Len(entries) /\ k.pc # "list"
  BY <1>1, <1>6
<1>10. QED
  BY <1>1, <1>2, <1>6, <1>8, <1>9, ScanMoves

LEMMA RebuildFoldInv == ASSUME IxInv, RebuildFold PROVE IxInv'
<1> DEFINE expected == UNION {ExpectedKeys(ValueNow(d), d) : d \in IxDoc}
           alone == \A c \in Committer : ~Busy(c)
           busy == {committer[c].doc : c \in {x \in Committer : Busy(x)}}
           k == [IdleRebuild EXCEPT !.pc = "list", !.expected = expected, !.alone = alone]
<1>1. /\ IxTypes /\ UNCHANGED <<entries, retired, markers, committer, scanner>>
      /\ rebuild' = k /\ contended' = contended \cup busy /\ Len(entries) \in Nat
  BY DEF IxInv, MarkerInv, IxTypes, RebuildFold
<1>2. expected \subseteq Keys
  BY <1>1, ValueType, KeysType DEF ValueNow
<1>3. busy \subseteq IxDoc
  BY DEF IxInv, MarkerInv, CallsAreSound
<1>4. \A c \in Committer : Busy(c) => committer[c].doc \in busy
  OBVIOUS
<1>5. alone \in BOOLEAN
  OBVIOUS
<1>6. \A d \in IxDoc : allIndexKeysFor(ValueNow(d), d) \subseteq expected
  BY <1>1, ValueType, KeysType DEF ValueNow
<1>7. expected = UNION {ExpectedKeys(ValueNow(d), d) : d \in IxDoc}
      /\ (alone => \A c \in Committer : ~Busy(c))
  OBVIOUS
<1> HIDE DEF expected, alone, busy
<1>8. k \in Rebuilds /\ k.pc = "list" /\ k.expected = expected /\ k.alone = alone
  BY <1>2, <1>5 DEF IdleRebuild, Rebuilds
<1> HIDE DEF k
<1>9. /\ \A e, n : ValueAt(e, n)' = ValueAt(e, n)
      /\ \A e : ValueNow(e)' = ValueNow(e) /\ (HasLast' <=> HasLast)
  BY <1>1, EntriesKept
<1>10. \A c \in Committer : Busy(c)' <=> Busy(c)
  BY <1>1 DEF Busy
<1>11. IxTypes'
  BY <1>1, <1>3, <1>8, <1>9 DEF IxTypes
<1>12. CallsAreSound' /\ OneCallEach' /\ CallsKeepMarkers' /\ StaleIsForeign'
  BY <1>1, <1>4, <1>9, <1>10 DEF IxInv, MarkerInv, CallsAreSound, OneCallEach,
       CallsKeepMarkers, StaleIsForeign
<1>13. RebuildExpects' /\ LiveRowIndexed'
  BY <1>1, <1>6, <1>8, <1>9 DEF IxInv, MarkerInv, RebuildExpects, LiveRowIndexed
<1>14. RebuildAlone'
  BY <1>1, <1>7, <1>8, <1>9, <1>10 DEF RebuildAlone
<1>15. \A s \in Scanner : SameScan(scanner[s], scanner'[s])
  BY <1>1 DEF SameScan
<1>16. ReadsFind' /\ ReadsEnd' /\ IndexReadExact'
  BY <1>1, <1>9, <1>15, ReadsFrame
<1>17. QED
  BY <1>11, <1>12, <1>13, <1>14, <1>16 DEF IxInv, MarkerInv

(* The rebuild moves, with or without a marker.                            *)
LEMMA RebuildMoves ==
  ASSUME IxInv, NEW k \in Rebuilds, rebuild' = k, UNCHANGED <<entries, retired, committer, contended>>,
         scanner' \in [Scanner -> Scans],
         \A s \in Scanner : SameScan(scanner[s], scanner'[s]),
         markers' \subseteq Keys, rebuild.pc # "idle",
         markers' = markers \/ k.pc # "idle",
         k.pc # "idle" => k.expected = rebuild.expected /\ k.alone = rebuild.alone,
         k.pc = "fix" /\ k.alone =>
           k.todo = (k.expected \ markers') \cup (markers' \ k.expected),
         \A d \in IxDoc \ contended : \A x \in allIndexKeysFor(ValueNow(d), d) :
           x \in markers => x \in markers'
  PROVE  IxInv'
<1>1. /\ \A e, n : ValueAt(e, n)' = ValueAt(e, n)
      /\ \A e : ValueNow(e)' = ValueNow(e) /\ (HasLast' <=> HasLast)
  BY EntriesKept
<1>2. \A c \in Committer : Busy(c)' <=> Busy(c)
  BY DEF Busy
<1>3. \A c \in Committer : Busy(c) => committer[c].doc \in contended
  BY DEF IxInv, MarkerInv, OneCallEach
<1>4. IxTypes'
  BY <1>1 DEF IxInv, MarkerInv, IxTypes
<1>5. CallsAreSound' /\ OneCallEach' /\ CallsKeepMarkers' /\ StaleIsForeign'
  BY <1>2, <1>3 DEF IxInv, MarkerInv, CallsAreSound, OneCallEach, CallsKeepMarkers, StaleIsForeign
<1>6. RebuildExpects'
  BY <1>1 DEF IxInv, MarkerInv, RebuildExpects
<1>7. LiveRowIndexed'
  BY <1>1 DEF IxInv, MarkerInv, LiveRowIndexed
<1>8. RebuildAlone'
  <2> SUFFICES ASSUME k.alone, k.pc # "idle"
               PROVE  /\ \A c \in Committer : ~Busy(c)
                      /\ k.expected = UNION {ExpectedKeys(ValueNow(d), d) : d \in IxDoc}
                      /\ k.pc = "fix" =>
                           k.todo = (k.expected \ markers') \cup (markers' \ k.expected)
    BY <1>1, <1>2 DEF RebuildAlone
  <2>1. rebuild.alone
    OBVIOUS
  <2>2. QED
    BY <2>1 DEF IxInv, RebuildAlone
<1>9. Len(entries) \in Nat
  BY DEF IxInv, MarkerInv, IxTypes
<1>10. ReadsFind' /\ ReadsEnd' /\ IndexReadExact'
  BY <1>1, <1>9, ReadsFrame
<1>11. QED
  BY <1>4, <1>5, <1>6, <1>7, <1>8, <1>10 DEF IxInv, MarkerInv

LEMMA RebuildListInv == ASSUME IxInv, RebuildList PROVE IxInv'
<1> DEFINE todo == (rebuild.expected \ markers) \cup (markers \ rebuild.expected)
           k == [rebuild EXCEPT !.pc = "fix", !.todo = todo]
<1>1. /\ IxTypes /\ UNCHANGED <<entries, retired, markers, committer, scanner, contended>>
      /\ rebuild.pc = "list" /\ rebuild' = k /\ rebuild \in Rebuilds
  BY DEF IxInv, MarkerInv, IxTypes, RebuildList
<1>2. /\ k \in Rebuilds /\ k.pc = "fix" /\ k.expected = rebuild.expected
      /\ k.alone = rebuild.alone /\ k.todo = todo
  BY <1>1 DEF IxTypes, Rebuilds
<1> HIDE DEF k
<1>3. scanner' \in [Scanner -> Scans] /\ (\A s \in Scanner : SameScan(scanner[s], scanner'[s]))
      /\ markers' \subseteq Keys
  BY <1>1 DEF SameScan, IxTypes
<1>4. k.todo = (k.expected \ markers') \cup (markers' \ k.expected)
  BY <1>1, <1>2
<1>5. QED
  BY <1>1, <1>2, <1>3, <1>4, RebuildMoves

LEMMA RebuildEndInv == ASSUME IxInv, RebuildEnd PROVE IxInv'
<1>1. /\ IxTypes /\ UNCHANGED <<entries, retired, markers, committer, scanner, contended>>
      /\ rebuild.pc = "fix" /\ rebuild' = IdleRebuild
  BY DEF IxInv, MarkerInv, IxTypes, RebuildEnd
<1>2. IdleRebuild \in Rebuilds /\ IdleRebuild.pc = "idle"
  BY DEF IdleRebuild, Rebuilds
<1>3. scanner' \in [Scanner -> Scans] /\ (\A s \in Scanner : SameScan(scanner[s], scanner'[s]))
      /\ markers' \subseteq Keys
  BY <1>1 DEF SameScan, IxTypes
<1>4. QED
  BY <1>1, <1>2, <1>3, RebuildMoves

LEMMA RebuildFixInv ==
  ASSUME IxInv, NEW x \in IxValue \X IxDoc, RebuildFix(x) PROVE IxInv'
<1> DEFINE k == [rebuild EXCEPT !.todo = @ \ {x}]
<1>1. /\ IxTypes /\ UNCHANGED <<entries, retired, committer, contended>>
      /\ rebuild.pc = "fix" /\ x \in rebuild.todo /\ rebuild' = k /\ rebuild \in Rebuilds
      /\ markers' = IF x \in rebuild.expected THEN markers \cup {x} ELSE markers \ {x}
      /\ scanner' = [s \in Scanner |-> Touch(scanner[s], x[2])]
  BY DEF IxInv, MarkerInv, IxTypes, RebuildFix
<1>2. /\ k \in Rebuilds /\ k.pc = "fix" /\ k.expected = rebuild.expected
      /\ k.alone = rebuild.alone /\ k.todo = rebuild.todo \ {x}
  BY <1>1 DEF IxTypes, Rebuilds
<1> HIDE DEF k
<1>3. x[2] \in IxDoc /\ x \in Keys
  BY DEF Keys
<1>4. scanner' \in [Scanner -> Scans] /\ \A s \in Scanner : SameScan(scanner[s], scanner'[s])
  BY <1>1, <1>3, TouchesKeep
<1>5. markers' \subseteq Keys
  BY <1>1, <1>3 DEF IxTypes
<1>6. ASSUME k.alone PROVE k.todo = (k.expected \ markers') \cup (markers' \ k.expected)
  <2>1. rebuild.todo = (rebuild.expected \ markers) \cup (markers \ rebuild.expected)
    BY <1>1, <1>2, <1>6 DEF IxInv, RebuildAlone
  <2>2. QED
    BY <1>1, <1>2, <2>1
<1>7. \A d \in IxDoc \ contended : \A y \in allIndexKeysFor(ValueNow(d), d) :
         y \in markers => y \in markers'
  BY <1>1 DEF IxInv, MarkerInv, RebuildExpects
<1>8. QED
  BY <1>1, <1>2, <1>4, <1>5, <1>6, <1>7, RebuildMoves

-----------------------------------------------------------------------------
(* The theorems.                                                           *)

LEMMA IxStutter == ASSUME IxInv, UNCHANGED ixVars PROVE IxInv'
<1>1. /\ \A e, n : ValueAt(e, n)' = ValueAt(e, n)
      /\ \A e : ValueNow(e)' = ValueNow(e) /\ (HasLast' <=> HasLast)
  BY EntriesKept DEF ixVars
<1>2. IxTypes'
  BY <1>1 DEF IxInv, MarkerInv, IxTypes, ixVars
<1>3. \A s \in Scanner : SameScan(scanner[s], scanner'[s])
  BY DEF SameScan, ixVars
<1>4. Len(entries) \in Nat
  BY DEF IxInv, MarkerInv, IxTypes
<1>5. ReadsFind' /\ ReadsEnd' /\ IndexReadExact'
  BY <1>1, <1>3, <1>4, ReadsFrame DEF ixVars
<1>6. QED
  BY <1>2, <1>5, MarkersKept DEF IxInv, ixVars

LEMMA IxInvHolds == IxSpec => []IxInv
<1>1. IxInit => IxInv
  BY IxInvInit
<1>2. ASSUME IxInv, [IxNext]_ixVars PROVE IxInv'
  <2>1. CASE UNCHANGED ixVars
    BY <2>1, <1>2, IxStutter
  <2>2. CASE \E c \in Committer :
               \/ \E d \in IxDoc, op \in {"I", "U", "D"}, v \in IxValue \cup {NoValue} :
                    PutMarkers(c, d, op, v)
               \/ CommitEntry(c) \/ FindStale(c) \/ DeleteStale(c) \/ CommitCrash(c)
    BY <2>2, <1>2, PutMarkersInv, CommitEntryInv, FindStaleInv, DeleteStaleInv, CommitCrashInv
  <2>3. CASE \E s \in Scanner :
               \/ \E wanted \in SUBSET (IxValue \ FilterMiss) : ScanBegin(s, wanted)
               \/ \E v \in scanner[s].left : ScanPage(s, v)
               \/ ScanFold(s)
    BY <2>3, <1>2, ScanBeginInv, ScanPageInv, ScanFoldInv
  <2>4. CASE RetirePrefix \/ RebuildFold \/ RebuildList \/ RebuildEnd
    BY <2>4, <1>2, RetirePrefixInv, RebuildFoldInv, RebuildListInv, RebuildEndInv
  <2>5. CASE \E x \in IxValue \X IxDoc : RebuildFix(x)
    BY <2>5, <1>2, RebuildFixInv
  <2>6. QED
    BY <1>2, <2>1, <2>2, <2>3, <2>4, <2>5 DEF IxNext
<1>3. QED
  BY <1>1, <1>2, PTL DEF IxSpec

(* writer.ts, marker PUTs before the create and DELETEs after it: a row    *)
(* that no two calls ever handled at once has its marker, for any number   *)
(* of documents, calls and reads, any filter and any pre-image budget.     *)
THEOREM LiveRowsAreIndexed == IxSpec => []LiveRowIndexed
<1>1. IxInv => LiveRowIndexed
  BY DEF IxInv, MarkerInv
<1>2. QED
  BY <1>1, IxInvHolds, PTL

(* runIndexWalkPlan: an index read returns no row that does not match at   *)
(* its tail, and misses none among the documents nobody touched meanwhile. *)
THEOREM IndexReadsAreExact == IxSpec => []IndexReadExact
<1>1. IxInv => IndexReadExact
  BY DEF IxInv
<1>2. QED
  BY <1>1, IxInvHolds, PTL

LEMMA FullDefinition ==
  ASSUME RebuildDef = "full"
  PROVE  \A v, d : ExpectedKeys(v, d) = allIndexKeysFor(v, d)
BY DEF ExpectedKeys

(* rebuildIndex given the index's own definition: with no commit beside    *)
(* it, the markers it leaves are exactly those of the live rows.           *)
THEOREM RebuildsAreExact == ASSUME RebuildDef = "full" PROVE IxSpec => []RebuildExact
<1>1. ASSUME IxInv PROVE RebuildExact
  <2> SUFFICES ASSUME rebuild.pc = "fix", rebuild.todo = {}, rebuild.alone
               PROVE  markers = UNION {allIndexKeysFor(ValueNow(d), d) : d \in IxDoc}
    BY DEF RebuildExact
  <2>1. /\ rebuild.expected = UNION {ExpectedKeys(ValueNow(d), d) : d \in IxDoc}
        /\ {} = (rebuild.expected \ markers) \cup (markers \ rebuild.expected)
    BY <1>1 DEF IxInv, RebuildAlone
  <2>2. markers = rebuild.expected
    BY <2>1
  <2>3. QED
    BY <2>1, <2>2, FullDefinition
<1>2. QED
  BY <1>1, IxInvHolds, PTL

(* rebuild-index.ts, "Re-running on a healthy index is a no-op", is true   *)
(* of a rebuild that is given the index's own definition.                  *)
THEOREM HealthyRebuildsDoNothing ==
  ASSUME RebuildDef = "full" PROVE IxSpec => []HealthyRebuildIsNoOp
<1>1. ASSUME IxInv PROVE HealthyRebuildIsNoOp
  <2> SUFFICES ASSUME rebuild.pc = "fix", rebuild.alone,
                      markers = UNION {allIndexKeysFor(ValueNow(d), d) : d \in IxDoc}
               PROVE  rebuild.todo = {}
    BY DEF HealthyRebuildIsNoOp
  <2>1. /\ rebuild.expected = UNION {ExpectedKeys(ValueNow(d), d) : d \in IxDoc}
        /\ rebuild.todo = (rebuild.expected \ markers) \cup (markers \ rebuild.expected)
    BY <1>1 DEF IxInv, RebuildAlone
  <2>2. markers = rebuild.expected
    BY <2>1, FullDefinition
  <2>3. QED
    BY <2>1, <2>2
<1>2. QED
  BY <1>1, IxInvHolds, PTL

-----------------------------------------------------------------------------
(* Queries (QueryPlan).                                                    *)

(* A set of numbers has a least one.                                       *)
LEMMA HasLeast == ASSUME NEW S \in SUBSET Nat, S # {} PROVE \E n \in S : \A m \in S : n <= m
<1> DEFINE R == OpToRel(<, Nat)
<1>1. IsWellFoundedOn(R, Nat)
  BY NatLessThanWellFounded
<1>2. \A x, y \in Nat : x < y => <<x, y>> \in R
  BY DEF OpToRel
<1> HIDE DEF R
<1>3. PICK n \in S : \A m \in S : ~(<<m, n>> \in R)
  BY <1>1, WFMin
<1>4. ASSUME NEW m \in S PROVE n <= m
  <2>1. m \in Nat /\ n \in Nat
    OBVIOUS
  <2>2. ~(m < n)
    BY <1>2, <1>3, <2>1
  <2>3. QED
    BY <2>1, <2>2
<1>5. QED
  BY <1>4

(* Finitely many numbers have a bound: a shortest list without one would   *)
(* have one once its last number is dropped.                               *)
LEMMA ListIsBounded ==
  ASSUME NEW n \in Nat, NEW f \in [1 .. n -> Nat] PROVE \E b \in Nat : \A i \in 1 .. n : f[i] <= b
<1> DEFINE Bounded(m) == \A g \in [1 .. m -> Nat] : \E b \in Nat : \A i \in 1 .. m : g[i] <= b
           Bad == {m \in Nat : ~Bounded(m)}
<1>1. ASSUME Bad # {} PROVE FALSE
  <2>1. PICK m \in Bad : \A k \in Bad : m <= k
    BY <1>1, HasLeast
  <2>2. PICK g \in [1 .. m -> Nat] : \A b \in Nat : \E i \in 1 .. m : ~(g[i] <= b)
    BY <2>1
  <2>3. m # 0
    BY <2>2
  <2>4. m \in Nat /\ m - 1 \in Nat /\ ~(m <= m - 1)
    BY <2>1, <2>3
  <2>5. Bounded(m - 1)
    BY <2>1, <2>4
  <2> HIDE DEF Bad
  <2>6. PICK h : h = [i \in 1 .. m - 1 |-> g[i]]
    OBVIOUS
  <2>7. h \in [1 .. m - 1 -> Nat] /\ \A i \in 1 .. m - 1 : h[i] = g[i]
    BY <2>4, <2>6
  <2>8. PICK b \in Nat : \A i \in 1 .. m - 1 : h[i] <= b
    BY <2>5, <2>7
  <2>9. PICK c \in Nat : b <= c /\ g[m] <= c
    <3>1. g[m] \in Nat
      BY <2>4
    <3>2. CASE g[m] <= b
      BY <3>2
    <3>3. CASE ~(g[m] <= b)
      BY <3>1, <3>3
    <3>4. QED
      BY <3>2, <3>3
  <2>10. ASSUME NEW i \in 1 .. m PROVE g[i] <= c
    <3>1. CASE i = m
      BY <2>9, <3>1
    <3>2. CASE i # m
      <4>1. i \in 1 .. m - 1 /\ g[i] \in Nat
        BY <2>4, <3>2
      <4>2. QED
        BY <2>7, <2>8, <2>9, <4>1
    <3>3. QED
      BY <3>1, <3>2
  <2>11. QED
    BY <2>2, <2>10
<1>2. Bounded(n)
  BY <1>1
<1>3. QED
  BY <1>2

(* A finite set of numbers has a greatest one.                             *)
LEMMA FiniteHasGreatest ==
  ASSUME NEW S \in SUBSET Nat, IsFiniteSet(S), S # {} PROVE \E n \in S : \A m \in S : m <= n
<1>1. PICK seq \in Seq(S) : \A s \in S : \E n \in 1 .. Len(seq) : seq[n] = s
  BY DEF IsFiniteSet
<1>2. Len(seq) \in Nat /\ seq \in [1 .. Len(seq) -> Nat]
  <2>1. Len(seq) \in Nat /\ seq \in [1 .. Len(seq) -> S]
    BY <1>1, LenProperties
  <2>2. QED
    BY <2>1
<1>3. PICK b \in Nat : \A i \in 1 .. Len(seq) : seq[i] <= b
  BY <1>2, ListIsBounded
<1> DEFINE B == {c \in Nat : \A m \in S : m <= c}
<1>4. b \in B
  BY <1>1, <1>3
<1>5. PICK c \in B : \A d \in B : c <= d
  BY <1>4, HasLeast
<1>6. c \in S
  <2>1. SUFFICES ASSUME c \notin S PROVE FALSE
    OBVIOUS
  <2>2. \A m \in S : m \in Nat /\ m < c
    BY <1>5, <2>1
  <2>3. c # 0
    <3>1. PICK m \in S : TRUE
      OBVIOUS
    <3>2. m \in Nat /\ m < c
      BY <2>2
    <3>3. QED
      BY <3>2
  <2>4. c - 1 \in B
    BY <1>5, <2>2, <2>3
  <2>5. QED
    BY <1>5, <2>4
<1>7. QED
  BY <1>5, <1>6
-----------------------------------------------------------------------------
(* Values and bounds.                                                      *)

LEMMA ValueFacts ==
  \A u, v \in QValue : /\ u[1] \in {"bool", "num", "str", "obj"} /\ u[2] \in Nat
                       /\ u = v <=> u[1] = v[1] /\ u[2] = v[2]
<1>1. StrRank \subseteq Nat
  BY QueryAssumption
<1>2. \A u \in QValue : /\ u[1] \in {"bool", "num", "str", "obj"} /\ u[2] \in Nat
                        /\ u = <<u[1], u[2]>>
  <2>1. \A u \in {"bool", "num", "obj"} \X Nat :
          u[1] \in {"bool", "num", "str", "obj"} /\ u[2] \in Nat /\ u = <<u[1], u[2]>>
    OBVIOUS
  <2>2. ASSUME NEW u \in {"str"} \X StrRank
        PROVE  u[1] \in {"bool", "num", "str", "obj"} /\ u[2] \in Nat /\ u = <<u[1], u[2]>>
    <3>1. u[1] = "str" /\ u[2] \in StrRank /\ u = <<u[1], u[2]>>
      OBVIOUS
    <3>2. u[2] \in Nat
      BY <1>1, <3>1
    <3>3. QED
      BY <3>1, <3>2
  <2>3. QED
    BY <2>1, <2>2 DEF QValue
<1>3. ASSUME NEW u \in QValue, NEW v \in QValue PROVE u = v <=> u[1] = v[1] /\ u[2] = v[2]
  BY <1>2
<1>4. QED
  BY <1>2, <1>3

(* Comparable values that the index and JavaScript order alike.            *)
LEMMA OrdersAgree ==
  ASSUME NEW u \in QValue, NEW v \in QValue, Comparable(u, v), ~OrdersDiffer(u, v)
  PROVE  (EncLess(u, v) <=> JsLess(u, v)) /\ (EncLess(v, u) <=> JsLess(v, u))
<1>1. CASE TypeOf(u) = "str"
  BY <1>1 DEF OrdersDiffer, Comparable
<1>2. CASE TypeOf(u) = "num"
  <2>1. TypeOf(v) = "num" /\ Comparable(v, u)
    BY <1>2 DEF Comparable
  <2>2. EncRank(u) = u[2] /\ EncRank(v) = v[2]
    BY <1>2, <2>1 DEF EncRank
  <2>3. ~(Tag[TypeOf(u)] < Tag[TypeOf(v)]) /\ ~(Tag[TypeOf(v)] < Tag[TypeOf(u)])
    BY <1>2, <2>1 DEF Tag
  <2>4. QED
    BY <1>2, <2>1, <2>2, <2>3 DEF EncLess, JsLess
<1>3. QED
  BY <1>1, <1>2 DEF Comparable

Bounds == [value : QValue, inclusive : BOOLEAN]

Inside(lower, v, b) == IF lower THEN InsideLower(v, b) ELSE InsideUpper(v, b)

SideOps(lower) == IF lower THEN Lower ELSE Upper

LEMMA BoundOfFacts ==
  ASSUME NEW c, c.value \in QValue
  PROVE  /\ BoundOf(c) \in Bounds /\ BoundOf(c).value = c.value
         /\ BoundOf(c).inclusive <=> c.op \in {"gte", "lte"}
<1>1. PICK i \in BOOLEAN : i <=> c.op \in {"gte", "lte"}
  <2>1. CASE c.op \in {"gte", "lte"}
    BY <2>1
  <2>2. CASE c.op \notin {"gte", "lte"}
    BY <2>2
  <2>3. QED
    BY <2>1, <2>2
<1>2. BoundOf(c) = [value |-> c.value, inclusive |-> i]
  <2>1. i = (c.op \in {"gte", "lte"})
    BY <1>1
  <2>2. QED
    BY <2>1 DEF BoundOf
<1>3. BoundOf(c) \in Bounds /\ BoundOf(c).value = c.value /\ BoundOf(c).inclusive = i
  BY <1>2 DEF Bounds
<1>4. QED
  BY <1>1, <1>3

(* A range clause holds of a value exactly inside its bound.               *)
LEMMA BoundMeaning ==
  ASSUME NEW lower \in BOOLEAN, NEW c, c.value \in QValue, c.op \in SideOps(lower),
         NEW v \in DocValue
  PROVE  /\ matchesClause(c, v) <=> Inside(lower, v, BoundOf(c))
         /\ matchesClause(c, v) => Comparable(c.value, v)
<1>1. v \in QValue /\ v # Missing
  BY QueryAssumption
<1>2. PICK u \in QValue : u = c.value
  OBVIOUS
<1>3. /\ u[1] \in {"bool", "num", "str", "obj"} /\ u[2] \in Nat /\ v[1] \in {"bool", "num", "str", "obj"} /\ v[2] \in Nat
      /\ (u = v <=> u[1] = v[1] /\ u[2] = v[2])
  BY <1>1, <1>2, ValueFacts
<1>4. BoundOf(c).value = u /\ (BoundOf(c).inclusive <=> c.op \in {"gte", "lte"})
  BY <1>2, BoundOfFacts
<1>5. CASE c.op = "gt"
  <2>1. lower /\ ~BoundOf(c).inclusive
    BY <1>4, <1>5 DEF SideOps, Upper
  <2>2. matchesClause(c, v) <=> JsLess(u, v)
    BY <1>1, <1>2, <1>5 DEF matchesClause
  <2>3. QED
    BY <1>2, <1>3, <1>4, <2>1, <2>2 DEF Inside, InsideLower, JsLess, Comparable, TypeOf
<1>6. CASE c.op = "gte"
  <2>1. lower /\ BoundOf(c).inclusive
    BY <1>4, <1>6 DEF SideOps, Upper
  <2>2. matchesClause(c, v) <=> Comparable(u, v) /\ ~JsLess(v, u)
    BY <1>1, <1>2, <1>6 DEF matchesClause
  <2>3. QED
    BY <1>2, <1>3, <1>4, <2>1, <2>2 DEF Inside, InsideLower, JsLess, Comparable, TypeOf
<1>7. CASE c.op = "lt"
  <2>1. ~lower /\ ~BoundOf(c).inclusive
    BY <1>4, <1>7 DEF SideOps, Lower
  <2>2. matchesClause(c, v) <=> JsLess(v, u)
    BY <1>1, <1>2, <1>7 DEF matchesClause
  <2>3. QED
    BY <1>2, <1>3, <1>4, <2>1, <2>2 DEF Inside, InsideUpper, JsLess, Comparable, TypeOf
<1>8. CASE c.op = "lte"
  <2>1. ~lower /\ BoundOf(c).inclusive
    BY <1>4, <1>8 DEF SideOps, Lower
  <2>2. matchesClause(c, v) <=> Comparable(u, v) /\ ~JsLess(u, v)
    BY <1>1, <1>2, <1>8 DEF matchesClause
  <2>3. QED
    BY <1>2, <1>3, <1>4, <2>1, <2>2 DEF Inside, InsideUpper, JsLess, Comparable, TypeOf
<1>9. QED
  BY <1>5, <1>6, <1>7, <1>8 DEF SideOps, Lower, Upper

(* b is at least as tight as x.                                            *)
Covers(lower, b, x) == Tighter(lower, b.value, x.value) \/ (b.value = x.value /\ (x.inclusive \/ ~b.inclusive))

LEMMA InsideCovered ==
  ASSUME NEW lower \in BOOLEAN, NEW b \in Bounds, NEW x \in Bounds, Covers(lower, b, x),
         NEW v \in QValue, Inside(lower, v, b)
  PROVE  Inside(lower, v, x)
<1>1. PICK p \in QValue, q \in QValue, i \in BOOLEAN, j \in BOOLEAN :
        p = b.value /\ q = x.value /\ i = b.inclusive /\ j = x.inclusive
  BY DEF Bounds
<1>2. /\ p[1] \in {"bool", "num", "str", "obj"} /\ p[2] \in Nat /\ q[1] \in {"bool", "num", "str", "obj"} /\ q[2] \in Nat
      /\ v[1] \in {"bool", "num", "str", "obj"} /\ v[2] \in Nat
      /\ (p = v <=> p[1] = v[1] /\ p[2] = v[2]) /\ (q = v <=> q[1] = v[1] /\ q[2] = v[2])
      /\ (p = q <=> p[1] = q[1] /\ p[2] = q[2])
  BY ValueFacts
<1>3. CASE lower
  BY <1>1, <1>2, <1>3 DEF Covers, Tighter, Inside, InsideLower, JsLess, Comparable, TypeOf
<1>4. CASE ~lower
  BY <1>1, <1>2, <1>4 DEF Covers, Tighter, Inside, InsideUpper, JsLess, Comparable, TypeOf
<1>5. QED
  BY <1>3, <1>4

(* Bounds of one type have a tightest one, and Tightest finds it.          *)
LEMMA TightestFacts ==
  ASSUME NEW lower \in BOOLEAN, NEW cs, IsFiniteSet(cs), cs # {}, SameType(cs),
         \A c \in cs : c.value \in QValue
  PROVE  /\ Tightest(lower, cs) \in Bounds
         /\ Tightest(lower, cs) \in {BoundOf(c) : c \in cs}
         /\ \A c \in cs : Covers(lower, Tightest(lower, cs), BoundOf(c))
<1> DEFINE bs == {BoundOf(c) : c \in cs}
           Best(b) == \A x \in bs \ {b} :
                        Tighter(lower, b.value, x.value) \/ (b.value = x.value /\ ~b.inclusive)
           ranks == {c.value[2] : c \in cs}
<1>1. \A c \in cs : /\ BoundOf(c) \in Bounds /\ BoundOf(c).value = c.value
                    /\ BoundOf(c).value \in QValue /\ BoundOf(c).value[2] = c.value[2]
                    /\ BoundOf(c).inclusive \in BOOLEAN
  BY BoundOfFacts DEF Bounds
<1>2. bs \subseteq Bounds
  BY <1>1
<1>3. \A b, x \in bs : Comparable(b.value, x.value) /\ b.value \in QValue /\ b.inclusive \in BOOLEAN
                       /\ b.value[2] \in ranks
  <2>1. \A c, d \in cs : Comparable(c.value, d.value)
    BY DEF SameType
  <2>2. QED
    BY <1>1, <2>1
<1>4. ranks \in SUBSET Nat /\ ranks # {} /\ IsFiniteSet(ranks)
  <2>1. \A c \in cs : c.value[2] \in Nat
    BY ValueFacts
  <2>2. IsFiniteSet(ranks)
    <3>1. PICK seq \in Seq(cs) : \A c \in cs : \E n \in 1 .. Len(seq) : seq[n] = c
      BY DEF IsFiniteSet
    <3>2. Len(seq) \in Nat /\ seq \in [1 .. Len(seq) -> cs]
      BY <3>1, LenProperties
    <3> DEFINE rs == [n \in 1 .. Len(seq) |-> seq[n].value[2]]
    <3>3. rs \in Seq(ranks) /\ Len(rs) = Len(seq)
      BY <3>2
    <3>4. \A n \in 1 .. Len(seq) : rs[n] = seq[n].value[2]
      OBVIOUS
    <3> HIDE DEF rs
    <3>5. \A x \in ranks : \E n \in 1 .. Len(rs) : rs[n] = x
      <4>1. ASSUME NEW c \in cs PROVE \E n \in 1 .. Len(rs) : rs[n] = c.value[2]
        <5>1. PICK n \in 1 .. Len(seq) : seq[n] = c
          BY <3>1
        <5>2. QED
          BY <3>3, <3>4, <5>1
      <4>2. QED
        BY <4>1
    <3>6. QED
      BY <3>3, <3>5 DEF IsFiniteSet
  <2>3. QED
    BY <2>1, <2>2
<1>5. PICK r \in ranks : \A x \in ranks : IF lower THEN x <= r ELSE r <= x
  <2>1. CASE lower
    BY <1>4, <2>1, FiniteHasGreatest
  <2>2. CASE ~lower
    BY <1>4, <2>2, HasLeast
  <2>3. QED
    BY <2>1, <2>2
<1>6. PICK top \in bs : top.value[2] = r /\ \A x \in bs : x.value[2] = r => (top.inclusive => x.inclusive)
  <2>1. PICK t \in bs : t.value[2] = r
    BY <1>1
  <2>2. CASE \E x \in bs : x.value[2] = r /\ ~x.inclusive
    BY <2>2
  <2>3. CASE ~\E x \in bs : x.value[2] = r /\ ~x.inclusive
    BY <2>1, <2>3
  <2>4. QED
    BY <2>2, <2>3
<1> HIDE DEF bs, ranks
<1>7. Best(top)
  <2>1. SUFFICES ASSUME NEW x \in bs, x # top
                 PROVE  Tighter(lower, top.value, x.value) \/ (top.value = x.value /\ ~top.inclusive)
    OBVIOUS
  <2>2. /\ Comparable(top.value, x.value) /\ Comparable(x.value, top.value)
        /\ top.value \in QValue /\ x.value \in QValue
        /\ x.value[2] \in ranks /\ top.value[2] = r /\ r \in ranks
    BY <1>3, <1>6
  <2>3. CASE x.value[2] = r
    <3>1. top.value = x.value
      BY <2>2, <2>3, ValueFacts DEF Comparable, TypeOf
    <3>2. top \in Bounds /\ x \in Bounds
      BY <1>2
    <3>3. top.inclusive # x.inclusive
      BY <2>1, <3>1, <3>2 DEF Bounds
    <3>4. top.inclusive => x.inclusive
      BY <1>6, <2>3
    <3>5. ~top.inclusive
      BY <3>2, <3>3, <3>4 DEF Bounds
    <3>6. QED
      BY <3>1, <3>5
  <2>4. CASE x.value[2] # r
    <3>1. x.value[2] \in Nat /\ r \in Nat
      BY <1>4, <2>2
    <3>2. IF lower THEN x.value[2] < r ELSE r < x.value[2]
      BY <1>5, <2>2, <2>4, <3>1
    <3>3. QED
      BY <2>2, <3>2 DEF Tighter, JsLess
  <2>5. QED
    BY <2>3, <2>4
<1>8. PICK b \in bs : b = Tightest(lower, cs) /\ Best(b)
  <2>1. Tightest(lower, cs) = CHOOSE b \in bs : Best(b)
    BY DEF Tightest, bs
  <2>2. QED
    BY <1>7, <2>1
<1>9. ASSUME NEW c \in cs PROVE Covers(lower, b, BoundOf(c))
  <2>1. BoundOf(c) \in bs
    BY DEF bs
  <2>2. CASE BoundOf(c) = b
    BY <1>3, <2>2 DEF Covers
  <2>3. CASE BoundOf(c) # b
    BY <1>8, <2>1, <2>3 DEF Covers
  <2>4. QED
    BY <2>2, <2>3
<1>10. b \in {BoundOf(c) : c \in cs}
  BY DEF bs
<1>11. QED
  BY <1>2, <1>8, <1>9, <1>10

-----------------------------------------------------------------------------
(* What a document that matches a query says of the query.                 *)

LEMMA OpsFacts ==
  ASSUME NEW w, WellFormed(w), NEW f, NEW ops
  PROVE  /\ IsFiniteSet(Ops(w, f, ops)) /\ Ops(w, f, ops) \subseteq w
         /\ \A c \in Ops(w, f, ops) : c.field = f /\ c.op \in ops
         /\ \A c \in w : c.field = f /\ c.op \in ops => c \in Ops(w, f, ops)
<1>1. Ops(w, f, ops) \in SUBSET w
  BY DEF Ops, On
<1>2. IsFiniteSet(Ops(w, f, ops))
  BY <1>1, FS_Subset DEF WellFormed
<1>3. QED
  BY <1>1, <1>2 DEF Ops, On

Side(w, f, lower) == Ops(w, f, SideOps(lower))

LEMMA SideValues ==
  ASSUME NEW w, WellFormed(w), NEW f, NEW lower \in BOOLEAN
  PROVE  /\ IsFiniteSet(Side(w, f, lower)) /\ Side(w, f, lower) \subseteq w
         /\ \A c \in Side(w, f, lower) : /\ c.value \in QValue /\ c.op \in SideOps(lower)
                                         /\ c.field = f
<1>1. /\ IsFiniteSet(Side(w, f, lower)) /\ Side(w, f, lower) \subseteq w
      /\ \A c \in Side(w, f, lower) : c.op \in SideOps(lower) /\ c.field = f
  BY OpsFacts DEF Side
<1>2. \A c \in Side(w, f, lower) : c.op # "in"
  BY <1>1 DEF SideOps, Lower, Upper
<1>3. QED
  BY <1>1, <1>2 DEF WellFormed

(* The tightest bound of a side stands for all of the side's clauses.      *)
LEMMA SideFacts ==
  ASSUME NEW w, WellFormed(w), NEW f, NEW lower \in BOOLEAN, SameType(Side(w, f, lower)),
         Side(w, f, lower) # {}
  PROVE  LET b == Tightest(lower, Side(w, f, lower)) IN
         /\ b \in Bounds /\ b # NoBound /\ TypeOf(b.value) \in {"num", "str"}
         /\ \E c \in Side(w, f, lower) : b.value = c.value
         /\ \A v \in DocValue : Inside(lower, v, b) <=> \A c \in Side(w, f, lower) : matchesClause(c, v)
<1> DEFINE cs == Side(w, f, lower)
           b == Tightest(lower, cs)
<1>1. /\ IsFiniteSet(cs) /\ \A c \in cs : c.value \in QValue /\ c.op \in SideOps(lower)
  BY SideValues
<1>2. b \in Bounds /\ b \in {BoundOf(c) : c \in cs} /\ \A c \in cs : Covers(lower, b, BoundOf(c))
  BY <1>1, TightestFacts
<1> HIDE DEF b, cs
<1>3. PICK d \in cs : b = BoundOf(d)
  BY <1>2
<1>4. b.value = d.value /\ b.value \in QValue
  BY <1>1, <1>3, BoundOfFacts
<1>5. TypeOf(b.value) \in {"num", "str"}
  BY <1>4 DEF SameType, Comparable, cs
<1>6. b # NoBound
  BY <1>5 DEF NoBound, TypeOf
<1>7. ASSUME NEW v \in DocValue
      PROVE  Inside(lower, v, b) <=> \A c \in cs : matchesClause(c, v)
  <2>1. v \in QValue
    BY QueryAssumption
  <2>2. \A c \in cs : matchesClause(c, v) <=> Inside(lower, v, BoundOf(c))
    BY <1>1, BoundMeaning
  <2>3. ASSUME Inside(lower, v, b), NEW c \in cs PROVE Inside(lower, v, BoundOf(c))
    <3>1. BoundOf(c) \in Bounds
      BY <1>1, BoundOfFacts
    <3>2. QED
      BY <1>2, <2>1, <2>3, <3>1, InsideCovered
  <2>4. ASSUME \A c \in cs : matchesClause(c, v) PROVE Inside(lower, v, b)
    BY <1>3, <2>2, <2>4
  <2>5. QED
    BY <2>2, <2>3, <2>4
<1>8. QED
  BY <1>2, <1>4, <1>5, <1>6, <1>7 DEF b, cs

(* Bounds that one value meets share its type.                             *)
LEMMA MetSameType ==
  ASSUME NEW w, WellFormed(w), NEW f, NEW lower \in BOOLEAN, NEW v \in DocValue,
         \A c \in Side(w, f, lower) : matchesClause(c, v)
  PROVE  SameType(Side(w, f, lower))
<1>1. \A c \in Side(w, f, lower) : Comparable(c.value, v)
  BY SideValues, BoundMeaning
<1>2. QED
  BY <1>1 DEF SameType, Comparable

LEMMA BoundsAre ==
  ASSUME NEW w, NEW f
  PROVE  /\ LowerBound(w, f) = Tightest(TRUE, Side(w, f, TRUE))
         /\ UpperBound(w, f) = Tightest(FALSE, Side(w, f, FALSE))
         /\ \A lower \in BOOLEAN : Side(w, f, lower) = {} => Tightest(lower, Side(w, f, lower)) = NoBound
         /\ Side(w, f, TRUE) = Ops(w, f, Lower) /\ Side(w, f, FALSE) = Ops(w, f, Upper)
<1>1. Side(w, f, TRUE) = Ops(w, f, Lower) /\ Side(w, f, FALSE) = Ops(w, f, Upper)
  BY DEF Side, SideOps
<1>2. LowerBound(w, f) = Tightest(TRUE, Side(w, f, TRUE)) /\ UpperBound(w, f) = Tightest(FALSE, Side(w, f, FALSE))
  BY <1>1 DEF LowerBound, UpperBound
<1>3. \A lower \in BOOLEAN : Side(w, f, lower) = {} => Tightest(lower, Side(w, f, lower)) = NoBound
  BY DEF Tightest
<1>4. QED
  BY <1>1, <1>2, <1>3

NoObjects(w) == \A c \in w : ~ObjectOperand(c)

(* A matched field holds the value of every equality and a member of every *)
(* in-set, and is inside every bound.                                      *)
LEMMA Matched ==
  ASSUME NEW w, WellFormed(w), NoObjects(w), NEW doc \in QDoc, matchesWire(w, doc), NEW f \in QField
  PROVE  /\ On(w, f) # {} => doc[f] \in DocValue
         /\ \A c \in Ops(w, f, {"eq"}) : c.value = doc[f] /\ doc[f] \in DocValue
         /\ \A c \in Ops(w, f, {"in"}) : doc[f] \in c.value /\ doc[f] \in DocValue
         /\ \A lower \in BOOLEAN : \A c \in Side(w, f, lower) : matchesClause(c, doc[f])
                                                               /\ doc[f] \in DocValue
<1>1. \A c \in On(w, f) : c \in w /\ c.field = f /\ matchesClause(c, doc[f]) /\ ~ObjectOperand(c)
  BY DEF On, matchesWire, NoObjects
<1>2. \A c \in On(w, f) : doc[f] \in DocValue
  BY <1>1 DEF matchesClause, QDoc
<1>3. ASSUME NEW c \in Ops(w, f, {"eq"}) PROVE c.value = doc[f]
  <2>1. c \in On(w, f) /\ c.op = "eq"
    BY DEF Ops
  <2>2. matchesEq(c.value, doc[f]) /\ TypeOf(c.value) # "obj"
    BY <1>1, <2>1 DEF matchesClause, ObjectOperand
  <2>3. QED
    BY <2>2 DEF matchesEq
<1>4. ASSUME NEW c \in Ops(w, f, {"in"}) PROVE doc[f] \in c.value
  <2>1. c \in On(w, f) /\ c.op = "in"
    BY DEF Ops
  <2>2. (\E m \in c.value : matchesEq(m, doc[f])) /\ \A m \in c.value : TypeOf(m) # "obj"
    BY <1>1, <2>1 DEF matchesClause, ObjectOperand
  <2>3. QED
    BY <2>2 DEF matchesEq
<1>5. \A ops : Ops(w, f, ops) \subseteq On(w, f)
  BY DEF Ops
<1>6. \A lower \in BOOLEAN : Side(w, f, lower) \subseteq On(w, f)
  BY <1>5 DEF Side
<1>7. QED
  BY <1>1, <1>2, <1>3, <1>4, <1>5, <1>6

(* The interval around a value is not empty.                               *)
LEMMA IntervalAround ==
  ASSUME NEW v \in QValue, NEW lo \in Bounds, NEW hi \in Bounds, InsideLower(v, lo), InsideUpper(v, hi)
  PROVE  InsideLower(hi.value, lo) /\ InsideUpper(lo.value, hi)
<1>1. PICK p \in QValue, q \in QValue, i \in BOOLEAN, j \in BOOLEAN :
        p = lo.value /\ q = hi.value /\ i = lo.inclusive /\ j = hi.inclusive
  BY DEF Bounds
<1>2. /\ p[1] \in {"bool", "num", "str", "obj"} /\ p[2] \in Nat /\ q[1] \in {"bool", "num", "str", "obj"} /\ q[2] \in Nat
      /\ v[1] \in {"bool", "num", "str", "obj"} /\ v[2] \in Nat
      /\ (p = v <=> p[1] = v[1] /\ p[2] = v[2]) /\ (q = v <=> q[1] = v[1] /\ q[2] = v[2])
      /\ (p = q <=> p[1] = q[1] /\ p[2] = q[2])
  BY ValueFacts
<1>3. QED
  BY <1>1, <1>2 DEF InsideLower, InsideUpper, JsLess, Comparable, TypeOf

(* A query some document matches passes validation.                        *)
LEMMA MatchedIsSatisfiable ==
  ASSUME NEW w, WellFormed(w), NoObjects(w), NEW doc \in QDoc, matchesWire(w, doc)
  PROVE  Satisfiable(w)
<1> SUFFICES ASSUME NEW f \in QField PROVE FieldSatisfiable(w, f)
  BY DEF Satisfiable
<1> DEFINE v == doc[f]
           eqs == {c.value : c \in Ops(w, f, {"eq"})}
           ins == {c.value : c \in Ops(w, f, {"in"})}
           lo == LowerBound(w, f)
           hi == UpperBound(w, f)
<1>1. /\ \A c \in Ops(w, f, {"eq"}) : c.value = v /\ v \in DocValue
      /\ \A c \in Ops(w, f, {"in"}) : v \in c.value /\ v \in DocValue
      /\ \A lower \in BOOLEAN : \A c \in Side(w, f, lower) : matchesClause(c, v) /\ v \in DocValue
  BY Matched
<1>2. \A u \in eqs : u = v /\ v \in DocValue
  BY <1>1
<1>3. \A s \in ins : v \in s
  BY <1>1
<1> HIDE DEF v
<1>4. ASSUME NEW lower \in BOOLEAN
      PROVE  /\ SameType(Side(w, f, lower))
             /\ Side(w, f, lower) # {} =>
                  /\ Tightest(lower, Side(w, f, lower)) \in Bounds
                  /\ Inside(lower, v, Tightest(lower, Side(w, f, lower)))
                  /\ v \in DocValue
  <2>1. CASE Side(w, f, lower) = {}
    BY <2>1 DEF SameType
  <2>2. CASE Side(w, f, lower) # {}
    <3>1. v \in DocValue /\ \A c \in Side(w, f, lower) : matchesClause(c, v)
      BY <1>1, <2>2
    <3>2. SameType(Side(w, f, lower))
      BY <3>1, MetSameType
    <3> DEFINE b == Tightest(lower, Side(w, f, lower))
    <3>3. b \in Bounds /\ (Inside(lower, v, b) <=> \A c \in Side(w, f, lower) : matchesClause(c, v))
      BY <2>2, <3>1, <3>2, SideFacts
    <3> HIDE DEF b
    <3>4. Inside(lower, v, b)
      BY <3>1, <3>3
    <3>5. QED
      BY <3>1, <3>2, <3>3, <3>4 DEF b
  <2>3. QED
    BY <2>1, <2>2
<1>5. /\ lo = NoBound \/ (lo \in Bounds /\ InsideLower(v, lo) /\ v \in DocValue)
      /\ hi = NoBound \/ (hi \in Bounds /\ InsideUpper(v, hi) /\ v \in DocValue)
      /\ SameType(Ops(w, f, Lower)) /\ SameType(Ops(w, f, Upper))
  <2>1. /\ lo = Tightest(TRUE, Side(w, f, TRUE)) /\ hi = Tightest(FALSE, Side(w, f, FALSE))
        /\ (Side(w, f, TRUE) = {} => lo = NoBound) /\ (Side(w, f, FALSE) = {} => hi = NoBound)
        /\ Side(w, f, TRUE) = Ops(w, f, Lower) /\ Side(w, f, FALSE) = Ops(w, f, Upper)
    BY BoundsAre
  <2> HIDE DEF lo, hi
  <2>2. /\ SameType(Side(w, f, TRUE)) /\ SameType(Side(w, f, FALSE))
        /\ (Side(w, f, TRUE) # {} => lo \in Bounds /\ Inside(TRUE, v, lo) /\ v \in DocValue)
        /\ (Side(w, f, FALSE) # {} => hi \in Bounds /\ Inside(FALSE, v, hi) /\ v \in DocValue)
    BY <1>4, <2>1
  <2>3. QED
    BY <2>1, <2>2 DEF Inside
<1>6. Cardinality(eqs) <= 1
  <2>1. eqs \in SUBSET {v}
    BY <1>2
  <2>2. IsFiniteSet({v}) /\ Cardinality({v}) = 1
    BY FS_Singleton
  <2> HIDE DEF eqs
  <2>3. Cardinality(eqs) <= Cardinality({v})
    BY <2>1, <2>2, FS_Subset
  <2>4. QED
    BY <2>2, <2>3
<1>7. Comparable(lo.value, hi.value) => InsideLower(hi.value, lo) /\ InsideUpper(lo.value, hi)
  <2> HIDE DEF lo, hi
  <2>1. Comparable(lo.value, hi.value) => lo # NoBound /\ hi # NoBound
    BY DEF Comparable, TypeOf, NoBound
  <2>2. v \in DocValue => v \in QValue
    BY QueryAssumption
  <2>3. QED
    BY <1>5, <2>1, <2>2, IntervalAround
<1>8. Cardinality(ins) > 1 => \E u \in UNION ins : \A s \in ins : u \in s
  <2> HIDE DEF ins
  <2>1. CASE ins = {}
    <3>1. Cardinality(ins) = 0
      BY <2>1, FS_EmptySet
    <3>2. QED
      BY <3>1
  <2>2. CASE ins # {}
    BY <1>3, <2>2
  <2>3. QED
    BY <2>1, <2>2
<1> HIDE DEF eqs, ins, lo, hi
<1>9. \A u \in eqs : /\ lo # NoBound => InsideLower(u, lo)
                     /\ hi # NoBound => InsideUpper(u, hi)
                     /\ \A s \in ins : u \in s
  BY <1>2, <1>3, <1>5
<1>10. QED
  BY <1>5, <1>6, <1>7, <1>8, <1>9 DEF FieldSatisfiable, eqs, ins, lo, hi

-----------------------------------------------------------------------------
(* predicateImplies.                                                       *)

LEMMA AtMostOne ==
  ASSUME NEW S, IsFiniteSet(S), Cardinality(S) <= 1, NEW x \in S, NEW y \in S PROVE x = y
<1>1. Cardinality(S) \in Nat /\ Cardinality(S) # 0
  BY FS_CardinalityType, FS_EmptySet
<1>2. Cardinality(S) = 1
  BY <1>1
<1>3. PICK z : S = {z}
  BY <1>2, FS_Singleton
<1>4. QED
  BY <1>3

LEMMA ValuesAreFinite ==
  ASSUME NEW cs, IsFiniteSet(cs) PROVE IsFiniteSet({c.value : c \in cs})
<1> DEFINE vs == {c.value : c \in cs}
           g == [c \in cs |-> c.value]
<1>1. g \in [cs -> vs]
  OBVIOUS
<1>2. g \in Surjection(cs, vs)
  BY <1>1 DEF Surjection
<1> HIDE DEF g, vs
<1>3. IsFiniteSet(vs)
  BY <1>2, FS_Surjection
<1>4. QED
  BY <1>3 DEF vs

(* The end of an in-set of one type: on the right side of each member.     *)
LEMMA EndOfSet ==
  ASSUME NEW lower \in BOOLEAN, NEW S \in SUBSET QValue, IsFiniteSet(S), NEW v \in S,
         \A x, y \in S : Comparable(x, y)
  PROVE  /\ (IF lower THEN Least(S) ELSE Greatest(S)) \in S
         /\ Inside(lower, v, Exactly(IF lower THEN Least(S) ELSE Greatest(S)))
<1> DEFINE ranks == {x[2] : x \in S}
           g == [x \in S |-> x[2]]
<1>1. \A x \in S : x[2] \in Nat /\ x \in QValue
  BY ValueFacts
<1>2. ranks \in SUBSET Nat /\ ranks # {}
  BY <1>1
<1>3. IsFiniteSet(ranks)
  <2>1. g \in Surjection(S, ranks)
    BY DEF Surjection
  <2> HIDE DEF g, ranks
  <2>2. QED
    BY <2>1, FS_Surjection
<1>4. CASE lower
  <2>1. PICK r \in ranks : \A x \in ranks : r <= x
    BY <1>2, HasLeast
  <2>2. PICK m \in S : m[2] = r
    BY <2>1
  <2>3. \A u \in S : ~JsLess(u, m)
    <3>1. \A u \in S : u[2] \in Nat /\ m[2] \in Nat /\ m[2] <= u[2]
      BY <1>1, <2>1, <2>2
    <3>2. QED
      BY <3>1 DEF JsLess
  <2>4. Least(S) \in S /\ \A u \in S : ~JsLess(u, Least(S))
    BY <2>3 DEF Least
  <2>5. PICK e \in S : e = Least(S) /\ ~JsLess(v, e) /\ Comparable(v, e) /\ Comparable(e, v)
    BY <2>4
  <2>6. ~(v[2] < e[2]) /\ v[2] \in Nat /\ e[2] \in Nat /\ e \in QValue /\ v \in QValue
    BY <1>1, <2>5 DEF JsLess
  <2>7. JsLess(e, v) \/ v = e
    BY <2>5, <2>6, ValueFacts DEF JsLess, Comparable, TypeOf
  <2>8. Inside(lower, v, Exactly(e))
    BY <1>4, <2>5, <2>7 DEF Inside, InsideLower, Exactly
  <2>9. QED
    BY <1>4, <2>5, <2>8
<1>5. CASE ~lower
  <2>1. PICK r \in ranks : \A x \in ranks : x <= r
    BY <1>2, <1>3, FiniteHasGreatest
  <2>2. PICK m \in S : m[2] = r
    BY <2>1
  <2>3. \A u \in S : ~JsLess(m, u)
    <3>1. \A u \in S : u[2] \in Nat /\ m[2] \in Nat /\ u[2] <= m[2]
      BY <1>1, <2>1, <2>2
    <3>2. QED
      BY <3>1 DEF JsLess
  <2>4. Greatest(S) \in S /\ \A u \in S : ~JsLess(Greatest(S), u)
    BY <2>3 DEF Greatest
  <2>5. PICK e \in S : e = Greatest(S) /\ ~JsLess(e, v) /\ Comparable(v, e) /\ Comparable(e, v)
    BY <2>4
  <2>6. ~(e[2] < v[2]) /\ v[2] \in Nat /\ e[2] \in Nat /\ e \in QValue /\ v \in QValue
    BY <1>1, <2>5 DEF JsLess
  <2>7. JsLess(v, e) \/ v = e
    BY <2>5, <2>6, ValueFacts DEF JsLess, Comparable, TypeOf
  <2>8. Inside(lower, v, Exactly(e))
    BY <1>5, <2>5, <2>7 DEF Inside, InsideUpper, Exactly
  <2>9. QED
    BY <1>5, <2>5, <2>8
<1>6. QED
  BY <1>4, <1>5

(* The in-sets of a query hold values of one comparable type.              *)
PureIns(q) == \A c \in q : c.op = "in" => \A x, y \in c.value : Comparable(x, y)

(* A matched field is inside the bound that predicateImplies derives from  *)
(* the query.                                                              *)
LEMMA InsideQueryBound ==
  ASSUME NEW q, WellFormed(q), NoObjects(q), PureIns(q), NEW doc \in QDoc, matchesWire(q, doc),
         NEW f \in QField, NEW lower \in BOOLEAN, doc[f] \in DocValue,
         QueryBound(lower, q, f) # NoBound,
         TypeOf(QueryBound(lower, q, f).value) \in {"num", "str"}
  PROVE  QueryBound(lower, q, f) \in Bounds /\ Inside(lower, doc[f], QueryBound(lower, q, f))
<1> DEFINE v == doc[f]
           eqs == Ops(q, f, {"eq"})
           ins == Ops(q, f, {"in"})
           b == QueryBound(lower, q, f)
<1>1. v \in QValue
  BY QueryAssumption
<1>2. /\ \A c \in eqs : c.value = v
      /\ \A c \in ins : v \in c.value
      /\ \A c \in Side(q, f, lower) : matchesClause(c, v)
  BY Matched
<1>3. CASE eqs # {}
  <2>1. (CHOOSE c \in eqs : TRUE) \in eqs
    BY <1>3
  <2>2. b = Exactly(v)
    BY <1>2, <1>3, <2>1 DEF QueryBound
  <2> HIDE DEF b, v
  <2>3. b.value = v /\ b.inclusive = TRUE /\ b \in Bounds
    BY <1>1, <2>2 DEF Exactly, Bounds
  <2>4. TypeOf(v) \in {"num", "str"}
    BY <2>3 DEF b
  <2>5. Inside(lower, v, b)
    BY <2>3, <2>4 DEF Inside, InsideLower, InsideUpper, Comparable
  <2>6. QED
    BY <2>3, <2>5 DEF b, v
<1>4. CASE eqs = {} /\ ins # {}
  <2>1. PICK c \in ins : c = CHOOSE d \in ins : TRUE
    BY <1>4
  <2> DEFINE S == c.value
             e == IF lower THEN Least(S) ELSE Greatest(S)
  <2>2. b = Exactly(e)
    BY <1>4, <2>1 DEF QueryBound
  <2>3. c \in q /\ c.op = "in"
    BY OpsFacts
  <2>4. S \in SUBSET QValue /\ IsFiniteSet(S) /\ v \in S /\ \A x, y \in S : Comparable(x, y)
    BY <1>2, <2>3 DEF WellFormed, PureIns
  <2> HIDE DEF S, v, b
  <2>5. e \in S /\ Inside(lower, v, Exactly(e))
    BY <2>4, EndOfSet
  <2> HIDE DEF e
  <2>6. Exactly(e) \in Bounds
    BY <2>4, <2>5 DEF Exactly, Bounds
  <2>7. QED
    BY <2>2, <2>5, <2>6 DEF b, v
<1>5. CASE eqs = {} /\ ins = {}
  <2>1. b = Tightest(lower, Side(q, f, lower))
    BY <1>5, BoundsAre DEF QueryBound
  <2>2. Side(q, f, lower) # {}
    BY <2>1, BoundsAre
  <2> HIDE DEF b, v
  <2>3. v \in DocValue
    BY DEF v
  <2>4. SameType(Side(q, f, lower))
    BY <1>2, <2>3, MetSameType
  <2> DEFINE t == Tightest(lower, Side(q, f, lower))
  <2>5. t \in Bounds /\ (Inside(lower, v, t) <=> \A c \in Side(q, f, lower) : matchesClause(c, v))
    BY <2>2, <2>3, <2>4, SideFacts
  <2> HIDE DEF t
  <2>6. b = t
    BY <2>1 DEF t
  <2>7. QED
    BY <1>2, <2>5, <2>6 DEF b, v
<1>6. QED
  BY <1>3, <1>4, <1>5

(* A bound of the filter that predicateImplies derives holds of the field. *)
LEMMA SideImplied ==
  ASSUME NEW fl, WellFormed(fl), NEW q, WellFormed(q), NoObjects(q), PureIns(q), NEW doc \in QDoc,
         matchesWire(q, doc), NEW f \in QField, NEW lower \in BOOLEAN, doc[f] \in DocValue,
         SameType(Side(fl, f, lower)), Side(fl, f, lower) # {},
         BoundImplies(lower, Tightest(lower, Side(fl, f, lower)), QueryBound(lower, q, f))
  PROVE  \A c \in Side(fl, f, lower) : matchesClause(c, doc[f])
<1> DEFINE b == Tightest(lower, Side(fl, f, lower))
           d == QueryBound(lower, q, f)
           v == doc[f]
<1>1. /\ b \in Bounds /\ TypeOf(b.value) \in {"num", "str"}
      /\ v \in DocValue /\ (Inside(lower, v, b) <=> \A c \in Side(fl, f, lower) : matchesClause(c, v))
  BY SideFacts
<1>2. /\ d # NoBound /\ TypeOf(b.value) = TypeOf(d.value)
      /\ Tighter(lower, d.value, b.value) \/ (d.value = b.value /\ (b.inclusive \/ ~d.inclusive))
  BY DEF BoundImplies
<1>3. TypeOf(d.value) \in {"num", "str"}
  BY <1>1, <1>2
<1>4. d \in Bounds /\ Inside(lower, v, d)
  BY <1>2, <1>3, InsideQueryBound
<1> HIDE DEF b, d, v
<1>5. Covers(lower, d, b) /\ v \in QValue
  BY <1>1, <1>2, QueryAssumption DEF Covers
<1>6. Inside(lower, v, b)
  BY <1>1, <1>4, <1>5, InsideCovered
<1>7. QED
  BY <1>1, <1>6 DEF v

(* What satisfiability says of one side and of the equalities of a filter. *)
LEMMA SatisfiableFacts ==
  ASSUME NEW fl, NEW f, FieldSatisfiable(fl, f)
  PROVE  /\ \A lower \in BOOLEAN : SameType(Side(fl, f, lower))
         /\ Cardinality({c.value : c \in Ops(fl, f, {"eq"})}) <= 1
         /\ \A c \in Ops(fl, f, {"eq"}) :
              /\ \A lower \in BOOLEAN : LET b == Tightest(lower, Side(fl, f, lower)) IN
                                        b # NoBound => Inside(lower, c.value, b)
              /\ \A d \in Ops(fl, f, {"in"}) : c.value \in d.value
<1>1. /\ LowerBound(fl, f) = Tightest(TRUE, Side(fl, f, TRUE))
      /\ UpperBound(fl, f) = Tightest(FALSE, Side(fl, f, FALSE))
      /\ Side(fl, f, TRUE) = Ops(fl, f, Lower) /\ Side(fl, f, FALSE) = Ops(fl, f, Upper)
  BY BoundsAre
<1>2. SameType(Side(fl, f, TRUE)) /\ SameType(Side(fl, f, FALSE))
  BY <1>1 DEF FieldSatisfiable
<1>3. Cardinality({c.value : c \in Ops(fl, f, {"eq"})}) <= 1
  BY DEF FieldSatisfiable
<1>4. ASSUME NEW c \in Ops(fl, f, {"eq"})
      PROVE  /\ LowerBound(fl, f) # NoBound => InsideLower(c.value, LowerBound(fl, f))
             /\ UpperBound(fl, f) # NoBound => InsideUpper(c.value, UpperBound(fl, f))
             /\ \A d \in Ops(fl, f, {"in"}) : c.value \in d.value
  BY DEF FieldSatisfiable
<1>5. ASSUME NEW c \in Ops(fl, f, {"eq"}), NEW lower \in BOOLEAN
      PROVE  LET b == Tightest(lower, Side(fl, f, lower)) IN b # NoBound => Inside(lower, c.value, b)
  <2>1. CASE lower
    BY <1>1, <1>4, <2>1 DEF Inside
  <2>2. CASE ~lower
    BY <1>1, <1>4, <2>2 DEF Inside
  <2>3. QED
    BY <2>1, <2>2
<1>6. \A lower \in BOOLEAN : SameType(Side(fl, f, lower))
  BY <1>2
<1>7. QED
  BY <1>3, <1>4, <1>5, <1>6

InRangeFree(fl) == ~InAndRange(fl)

(* A clause of an implied filter holds of every document the query         *)
(* accepts, for queries and filters outside the exceptions.                *)
LEMMA FilterClauseHolds ==
  ASSUME NEW fl, WellFormed(fl), NEW f \in QField, FieldSatisfiable(fl, f), InRangeFree(fl),
         NEW q, WellFormed(q), NoObjects(q), PureIns(q), FieldImplies(fl, q, f),
         NEW doc \in QDoc, matchesWire(q, doc), NEW c \in fl, c.field = f
  PROVE  matchesClause(c, doc[f])
<1> DEFINE v == doc[f]
           feqs == Ops(fl, f, {"eq"})
           fins == Ops(fl, f, {"in"})
           qeqs == Ops(q, f, {"eq"})
           qins == Ops(q, f, {"in"})
<1>1. /\ On(q, f) # {} /\ Cardinality(fins) <= 1
      /\ feqs # {} => \E x \in feqs, y \in qeqs : x.value = y.value
      /\ feqs = {} /\ fins # {} =>
           LET set == (CHOOSE x \in fins : TRUE).value IN
           IF qeqs # {} THEN \A y \in qeqs : y.value \in set
           ELSE qins # {} /\ \A y \in qins : y.value \subseteq set
      /\ feqs = {} /\ fins = {} =>
           /\ LowerBound(fl, f) # NoBound => BoundImplies(TRUE, LowerBound(fl, f), QueryBound(TRUE, q, f))
           /\ UpperBound(fl, f) # NoBound => BoundImplies(FALSE, UpperBound(fl, f), QueryBound(FALSE, q, f))
  BY DEF FieldImplies
<1>2. /\ v \in DocValue /\ \A y \in qeqs : y.value = v
      /\ \A y \in qins : v \in y.value
  BY <1>1, Matched
<1>3. v # Missing /\ v \in QValue
  BY <1>2, QueryAssumption
<1>4. /\ \A lower \in BOOLEAN : SameType(Side(fl, f, lower))
      /\ Cardinality({x.value : x \in feqs}) <= 1
      /\ \A x \in feqs :
           /\ \A lower \in BOOLEAN : LET b == Tightest(lower, Side(fl, f, lower)) IN
                                     b # NoBound => Inside(lower, x.value, b)
           /\ \A d \in fins : x.value \in d.value
  BY SatisfiableFacts
<1>5. c.op \in {"eq", "in", "gt", "gte", "lt", "lte"}
  BY DEF WellFormed
<1>6. /\ (c.op = "eq" => c \in feqs) /\ (c.op = "in" => c \in fins)
      /\ IsFiniteSet(feqs) /\ IsFiniteSet(fins)
  BY OpsFacts
<1>7. c.op \notin {"eq", "in"} => \E lower \in BOOLEAN : c \in Side(fl, f, lower)
  <2>1. c.op \in Lower => c \in Side(fl, f, TRUE)
    BY OpsFacts DEF Side, SideOps
  <2>2. c.op \in Upper => c \in Side(fl, f, FALSE)
    BY OpsFacts DEF Side, SideOps
  <2>3. c.op \notin {"eq", "in"} => c.op \in Lower \cup Upper
    BY <1>5 DEF Lower, Upper
  <2>4. QED
    BY <2>1, <2>2, <2>3
<1>8. ASSUME NEW lower \in BOOLEAN, c \in Side(fl, f, lower),
             Inside(lower, v, Tightest(lower, Side(fl, f, lower)))
      PROVE  matchesClause(c, v)
  <2>1. Side(fl, f, lower) # {} /\ SameType(Side(fl, f, lower))
    BY <1>4, <1>8
  <2> DEFINE b == Tightest(lower, Side(fl, f, lower))
  <2>2. Inside(lower, v, b) <=> \A x \in Side(fl, f, lower) : matchesClause(x, v)
    BY <1>2, <2>1, SideFacts
  <2>3. QED
    BY <1>8, <2>2
<1>9. ASSUME NEW lower \in BOOLEAN, c \in Side(fl, f, lower)
      PROVE  Tightest(lower, Side(fl, f, lower)) # NoBound
  <2>1. Side(fl, f, lower) # {} /\ SameType(Side(fl, f, lower))
    BY <1>4, <1>9
  <2>2. QED
    BY <2>1, SideFacts
<1>10. CASE feqs # {}
  <2>1. PICK x \in feqs, y \in qeqs : x.value = y.value
    BY <1>1, <1>10
  <2>2. x.value = v
    BY <1>2, <2>1
  <2>3. CASE c.op = "eq"
    <3>1. IsFiniteSet({z.value : z \in feqs})
      BY <1>6, ValuesAreFinite
    <3>2. c.value \in {z.value : z \in feqs} /\ x.value \in {z.value : z \in feqs}
      BY <1>6, <2>1, <2>3
    <3>3. c.value = v
      BY <1>4, <2>2, <3>1, <3>2, AtMostOne
    <3>4. QED
      BY <1>3, <2>3, <3>3 DEF matchesClause, matchesEq
  <2>4. CASE c.op = "in"
    <3>1. v \in c.value
      BY <1>4, <1>6, <2>1, <2>2, <2>4
    <3>2. QED
      BY <1>3, <2>4, <3>1 DEF matchesClause, matchesEq
  <2>5. CASE c.op \notin {"eq", "in"}
    <3>1. PICK lower \in BOOLEAN : c \in Side(fl, f, lower)
      BY <1>7, <2>5
    <3>2. Inside(lower, v, Tightest(lower, Side(fl, f, lower)))
      BY <1>4, <1>9, <2>1, <2>2, <3>1
    <3>3. QED
      BY <1>8, <3>1, <3>2
  <2>6. QED
    BY <2>3, <2>4, <2>5
<1>11. CASE feqs = {} /\ fins # {}
  <2>1. PICK x \in fins : x = CHOOSE y \in fins : TRUE
    BY <1>11
  <2>2. v \in x.value
    <3>1. CASE qeqs # {}
      BY <1>1, <1>2, <1>11, <2>1, <3>1
    <3>2. CASE qeqs = {}
      BY <1>1, <1>2, <1>11, <2>1, <3>2
    <3>3. QED
      BY <3>1, <3>2
  <2>3. CASE c.op = "in"
    <3>1. c = x
      BY <1>1, <1>6, <2>1, <2>3, AtMostOne
    <3>2. QED
      BY <1>3, <2>2, <2>3, <3>1 DEF matchesClause, matchesEq
  <2>4. CASE c.op \notin {"eq", "in"}
    <3>1. x \in fl /\ x.field = f /\ x.op = "in"
      BY OpsFacts
    <3>2. c.op \in Lower \cup Upper
      BY <1>5, <2>4 DEF Lower, Upper
    <3>3. QED
      BY <3>1, <3>2 DEF InRangeFree, InAndRange
  <2>5. QED
    BY <1>6, <1>11, <2>3, <2>4
<1>12. CASE feqs = {} /\ fins = {}
  <2>1. c.op \notin {"eq", "in"}
    BY <1>6, <1>12
  <2>2. PICK lower \in BOOLEAN : c \in Side(fl, f, lower)
    BY <1>7, <2>1
  <2>3. Tightest(lower, Side(fl, f, lower)) # NoBound
    BY <1>9, <2>2
  <2>4. BoundImplies(lower, Tightest(lower, Side(fl, f, lower)), QueryBound(lower, q, f))
    <3>1. /\ LowerBound(fl, f) = Tightest(TRUE, Side(fl, f, TRUE))
          /\ UpperBound(fl, f) = Tightest(FALSE, Side(fl, f, FALSE))
      BY BoundsAre
    <3>2. CASE lower = TRUE
      BY <1>1, <1>12, <2>3, <3>1, <3>2
    <3>3. CASE lower = FALSE
      BY <1>1, <1>12, <2>3, <3>1, <3>3
    <3>4. QED
      BY <3>2, <3>3
  <2>5. SameType(Side(fl, f, lower)) /\ Side(fl, f, lower) # {}
    BY <1>4, <2>2
  <2>6. QED
    BY <1>2, <2>2, <2>4, <2>5, SideImplied
<1>13. QED
  BY <1>10, <1>11, <1>12

LEMMA ImpliedFilterMatches ==
  ASSUME NEW fl, WellFormed(fl), Satisfiable(fl), InRangeFree(fl),
         NEW q, WellFormed(q), NoObjects(q), PureIns(q), predicateImplies(fl, q),
         NEW doc \in QDoc, matchesWire(q, doc)
  PROVE  matchesWire(fl, doc)
<1> SUFFICES ASSUME NEW c \in fl PROVE matchesClause(c, doc[c.field])
  BY DEF matchesWire
<1>1. PICK f \in QField : f = c.field
  BY DEF WellFormed
<1>2. FieldSatisfiable(fl, f) /\ FieldImplies(fl, q, f)
  BY <1>1 DEF Satisfiable, predicateImplies
<1>3. QED
  BY <1>1, <1>2, FilterClauseHolds

-----------------------------------------------------------------------------
(* planQuery and the walk.                                                 *)

LEMMA EqPrefixFacts ==
  ASSUME NEW w, NEW def, def.on \in Seq(QField)
  PROVE  /\ EqPrefix(w, def) \in 0 .. Len(def.on) /\ EqPrefix(w, def) \in Nat
         /\ \A i \in 1 .. EqPrefix(w, def) : Channel(w, def.on[i]) = "eq"
<1> DEFINE S == {n \in 0 .. Len(def.on) : \A i \in 1 .. n : Channel(w, def.on[i]) = "eq"}
<1>1. Len(def.on) \in Nat
  OBVIOUS
<1>2. S \in SUBSET (0 .. Len(def.on)) /\ S \in SUBSET Nat /\ 0 \in S
  BY <1>1
<1>3. IsFiniteSet(0 .. Len(def.on))
  BY <1>1, FS_Interval
<1>4. IsFiniteSet(S)
  BY <1>2, <1>3, FS_Subset
<1>5. PICK m \in S : \A n \in S : n <= m
  BY <1>2, <1>4, FiniteHasGreatest
<1>6. \A n \in S : m >= n
  BY <1>2, <1>5
<1>7. Max(S) \in S
  BY <1>5, <1>6 DEF Max
<1>8. EqPrefix(w, def) \in S
  BY <1>7 DEF EqPrefix
<1>9. QED
  BY <1>2, <1>8

LEMMA ConsumedFacts ==
  ASSUME NEW w, NEW def, def.on \in Seq(QField)
  PROVE  Consumed(w, def) \in Nat /\ Rank(w, def) \in Nat
<1>1. EqPrefix(w, def) \in Nat
  BY EqPrefixFacts
<1>2. QED
  BY <1>1 DEF Consumed, Rank

(* The index the planner picks is one of the collection's.                 *)
LEMMA PlanFacts ==
  ASSUME NEW w, NEW l \in IndexList
  PROVE  /\ planQuery(w, l).kind \in {"full-scan", "index-walk"}
         /\ planQuery(w, l).kind = "index-walk" => planQuery(w, l).def \in DOMAIN l
<1> DEFINE C == Candidates(w, l)
           rk(i) == Rank(w, l[i])
           co(i) == Consumed(w, l[i])
<1>1. CASE w = {} \/ C = {}
  <2>1. planQuery(w, l) = FullScan
    BY <1>1 DEF planQuery
  <2>2. QED
    BY <2>1 DEF FullScan
<1>2. CASE ~(w = {} \/ C = {})
  <2>1. /\ Len(l) \in Nat /\ DOMAIN l = 1 .. Len(l)
        /\ \A i \in DOMAIN l : l[i].on \in Seq(QField)
    BY QueryAssumption
  <2>2. C \in SUBSET (1 .. Len(l)) /\ C # {} /\ \A i \in C : i \in DOMAIN l /\ i \in Nat
    BY <1>2, <2>1 DEF Candidates
  <2>3. \A i \in C : rk(i) \in Nat /\ co(i) \in Nat
    BY <2>1, <2>2, ConsumedFacts
  <2>4. IsFiniteSet(C)
    <3>1. IsFiniteSet(1 .. Len(l))
      BY <2>1, FS_Interval
    <3>2. QED
      BY <2>2, <3>1, FS_Subset
  <2> HIDE DEF C
  <2>5. PICK r \in Nat : (\E i \in C : rk(i) = r) /\ \A j \in C : r <= rk(j)
    <3> DEFINE R == {rk(i) : i \in C}
    <3>1. R \in SUBSET Nat /\ R # {}
      BY <2>2, <2>3
    <3>2. PICK r \in R : \A x \in R : r <= x
      BY <3>1, HasLeast
    <3>3. r \in Nat /\ (\E i \in C : rk(i) = r) /\ \A j \in C : r <= rk(j)
      BY <3>1, <3>2
    <3>4. QED
      BY <3>3
  <2> DEFINE D == {i \in C : rk(i) = r}
             K == {co(i) : i \in D}
             g == [i \in D |-> co(i)]
  <2>6. D \in SUBSET C /\ D # {} /\ IsFiniteSet(D) /\ \A i \in D : co(i) \in Nat
    <3>1. D \in SUBSET C /\ D # {}
      BY <2>5
    <3>2. IsFiniteSet(D)
      BY <2>4, <3>1, FS_Subset
    <3>3. QED
      BY <2>3, <3>1, <3>2
  <2>7. K \in SUBSET Nat /\ K # {}
    BY <2>6
  <2>8. IsFiniteSet(K)
    <3>1. g \in Surjection(D, K)
      BY DEF Surjection
    <3> HIDE DEF D, K, g
    <3>2. QED
      BY <2>6, <3>1, FS_Surjection
  <2>9. PICK k \in K : \A x \in K : x <= k
    BY <2>7, <2>8, FiniteHasGreatest
  <2> DEFINE E == {i \in D : co(i) = k}
  <2>10. E \in SUBSET Nat /\ E # {} /\ E \in SUBSET C
    BY <2>2, <2>6, <2>9
  <2>11. PICK b \in E : \A x \in E : b <= x
    BY <2>10, HasLeast
  <2>12. ASSUME NEW j \in C PROVE Preferred(w, l, b, j)
    <3>1. rk(b) = r /\ co(b) = k /\ b \in C /\ r \in Nat /\ k \in Nat
      BY <2>7, <2>9, <2>10, <2>11
    <3>2. rk(j) \in Nat /\ co(j) \in Nat /\ r <= rk(j)
      BY <2>3, <2>5
    <3>3. CASE rk(j) # r
      <4>1. rk(b) < rk(j)
        BY <3>1, <3>2, <3>3
      <4>2. QED
        BY <4>1 DEF Preferred
    <3>4. CASE rk(j) = r /\ co(j) # k
      <4>1. co(j) \in K
        BY <3>4
      <4>2. co(j) <= k
        BY <2>9, <4>1
      <4>3. co(b) > co(j) /\ rk(b) = rk(j)
        BY <3>1, <3>2, <3>4, <4>2
      <4>4. QED
        BY <4>3 DEF Preferred
    <3>5. CASE rk(j) = r /\ co(j) = k
      <4>1. b <= j
        BY <2>11, <3>5
      <4>2. QED
        BY <3>1, <3>5, <4>1 DEF Preferred
    <3>6. QED
      BY <3>3, <3>4, <3>5
  <2> DEFINE best == CHOOSE i \in C : \A j \in C : Preferred(w, l, i, j)
  <2>13. b \in C
    BY <2>10, <2>11
  <2> HIDE DEF D, K, E
  <2>14. best \in C
    BY <2>12, <2>13
  <2>15. best = CHOOSE i \in Candidates(w, l) : \A j \in Candidates(w, l) : Preferred(w, l, i, j)
    BY DEF C
  <2> HIDE DEF best
  <2>16. planQuery(w, l) \in {FullScan, [kind |-> "index-walk", def |-> best]}
    BY <1>2, <2>15 DEF planQuery, C
  <2>17. QED
    BY <2>2, <2>14, <2>16 DEF FullScan
<1>3. QED
  BY <1>1, <1>2

(* A matching document is under the walked part of the index, unless it is *)
(* one of the documented exceptions.                                       *)
LEMMA MatchIsWalked ==
  ASSUME NEW w, WellFormed(w), NoObjects(w), NEW doc \in QDoc, matchesWire(w, doc),
         NEW def, def.on \in Seq(QField),
         def.filter # NoFilter => /\ PureIns(w) /\ WellFormed(def.filter) /\ Satisfiable(def.filter)
                                  /\ InRangeFree(def.filter) /\ predicateImplies(def.filter, w),
         \A i \in DOMAIN def.on : doc[def.on[i]] = Missing => On(w, def.on[i]) # {},
         \A c \in w : c.op \in Lower \cup Upper => ~OrdersDiffer(doc[c.field], c.value)
  PROVE  Walked(w, def, doc)
<1> DEFINE n == EqPrefix(w, def)
           f == def.on[n + 1]
<1>1. /\ DOMAIN def.on = 1 .. Len(def.on) /\ Len(def.on) \in Nat
      /\ \A i \in DOMAIN def.on : def.on[i] \in QField
  BY ElementOfSeq, LenProperties
<1>2. n \in 0 .. Len(def.on) /\ n \in Nat
  BY EqPrefixFacts
<1> HIDE DEF n
<1>3. Indexed(def, doc)
  <2>1. def.filter # NoFilter => matchesWire(def.filter, doc)
    BY ImpliedFilterMatches
  <2>2. ASSUME NEW i \in DOMAIN def.on PROVE doc[def.on[i]] # Missing
    <3>1. On(w, def.on[i]) # {} => doc[def.on[i]] \in DocValue
      BY <1>1, Matched
    <3>2. QED
      BY <3>1, QueryAssumption
  <2>3. QED
    BY <2>1, <2>2 DEF Indexed
<1>4. \A i \in 1 .. n : \A c \in Ops(w, def.on[i], {"eq"}) : EncSame(doc[def.on[i]], c.value)
  <2>1. ASSUME NEW i \in 1 .. n, NEW c \in Ops(w, def.on[i], {"eq"})
        PROVE  EncSame(doc[def.on[i]], c.value)
    <3>1. def.on[i] \in QField
      BY <1>1, <1>2
    <3>2. doc[def.on[i]] = c.value
      BY <3>1, Matched
    <3>3. QED
      BY <3>2 DEF EncSame
  <2>2. QED
    BY <2>1
<1>5. ASSUME TailChannel(w, def) \in {"range", "in"}
      PROVE  f \in QField /\ Channel(w, f) = TailChannel(w, def)
  <2>1. n < Len(def.on) /\ Channel(w, f) = TailChannel(w, def)
    BY <1>5 DEF TailChannel, n
  <2>2. n + 1 \in DOMAIN def.on
    BY <1>1, <1>2, <2>1
  <2>3. QED
    BY <1>1, <2>1, <2>2
<1>6. ASSUME TailChannel(w, def) = "range"
      PROVE  InRange(doc[f], LowerBound(w, f), UpperBound(w, f))
  <2>1. f \in QField
    BY <1>5, <1>6
  <2> HIDE DEF f
  <2> DEFINE v == doc[f]
  <2>2. \A lower \in BOOLEAN : \A c \in Side(w, f, lower) : matchesClause(c, v) /\ v \in DocValue
    BY <2>1, Matched
  <2> HIDE DEF v
  <2>3. ASSUME NEW lower \in BOOLEAN, Tightest(lower, Side(w, f, lower)) # NoBound
        PROVE  LET b == Tightest(lower, Side(w, f, lower)) IN
               /\ b \in Bounds /\ Inside(lower, v, b) /\ v \in QValue /\ ~OrdersDiffer(v, b.value)
    <3>1. Side(w, f, lower) # {}
      BY <2>3, BoundsAre
    <3>2. v \in DocValue /\ \A c \in Side(w, f, lower) : matchesClause(c, v)
      BY <2>2, <3>1
    <3>3. SameType(Side(w, f, lower))
      BY <3>2, MetSameType
    <3> DEFINE b == Tightest(lower, Side(w, f, lower))
    <3>4. /\ b \in Bounds /\ (Inside(lower, v, b) <=> \A c \in Side(w, f, lower) : matchesClause(c, v))
          /\ \E c \in Side(w, f, lower) : b.value = c.value
      BY <3>1, <3>2, <3>3, SideFacts
    <3> HIDE DEF b
    <3>5. b \in Bounds /\ Inside(lower, v, b) /\ v \in QValue
      BY <3>2, <3>4, QueryAssumption
    <3>6. PICK c \in Side(w, f, lower) : b.value = c.value
      BY <3>4
    <3>7. c \in w /\ c.field = f /\ c.op \in Lower \cup Upper
      BY SideValues DEF SideOps
    <3>8. ~OrdersDiffer(v, b.value)
      BY <3>6, <3>7 DEF v
    <3>9. QED
      BY <3>5, <3>8 DEF b
  <2>4. /\ LowerBound(w, f) = Tightest(TRUE, Side(w, f, TRUE))
        /\ UpperBound(w, f) = Tightest(FALSE, Side(w, f, FALSE))
    BY BoundsAre
  <2>5. ASSUME LowerBound(w, f) # NoBound
        PROVE  LET b == LowerBound(w, f) IN
               IF b.inclusive THEN ~EncLess(v, b.value) ELSE EncLess(b.value, v)
    <3>1. PICK b \in Bounds : /\ b = LowerBound(w, f) /\ InsideLower(v, b) /\ v \in QValue
                             /\ ~OrdersDiffer(v, b.value)
      BY <2>3, <2>4, <2>5 DEF Inside
    <3>2. PICK u \in QValue : u = b.value
      BY DEF Bounds
    <3>3. Comparable(v, u) /\ (JsLess(u, v) \/ (v = u /\ b.inclusive))
      BY <3>1, <3>2 DEF InsideLower
    <3>4. (EncLess(v, u) <=> JsLess(v, u)) /\ (EncLess(u, v) <=> JsLess(u, v))
      BY <3>1, <3>2, <3>3, OrdersAgree
    <3>5. u[2] \in Nat /\ v[2] \in Nat
      BY <3>1, <3>2, ValueFacts
    <3>6. ~JsLess(v, u)
      BY <3>3, <3>5 DEF JsLess
    <3>7. QED
      BY <3>1, <3>2, <3>3, <3>4, <3>6
  <2>6. ASSUME UpperBound(w, f) # NoBound
        PROVE  LET b == UpperBound(w, f) IN
               IF b.inclusive THEN ~EncLess(b.value, v) ELSE EncLess(v, b.value)
    <3>1. PICK b \in Bounds : /\ b = UpperBound(w, f) /\ InsideUpper(v, b) /\ v \in QValue
                             /\ ~OrdersDiffer(v, b.value)
      BY <2>3, <2>4, <2>6 DEF Inside
    <3>2. PICK u \in QValue : u = b.value
      BY DEF Bounds
    <3>3. Comparable(v, u) /\ (JsLess(v, u) \/ (v = u /\ b.inclusive))
      BY <3>1, <3>2 DEF InsideUpper
    <3>4. (EncLess(v, u) <=> JsLess(v, u)) /\ (EncLess(u, v) <=> JsLess(u, v))
      BY <3>1, <3>2, <3>3, OrdersAgree
    <3>5. u[2] \in Nat /\ v[2] \in Nat
      BY <3>1, <3>2, ValueFacts
    <3>6. ~JsLess(u, v)
      BY <3>3, <3>5 DEF JsLess
    <3>7. QED
      BY <3>1, <3>2, <3>3, <3>4, <3>6
  <2>7. InRange(v, LowerBound(w, f), UpperBound(w, f))
    BY <2>5, <2>6 DEF InRange
  <2>8. QED
    BY <2>7 DEF v
<1>7. ASSUME TailChannel(w, def) = "in"
      PROVE  \E c \in Ops(w, f, {"in"}) : \E m \in c.value : EncSame(doc[f], m)
  <2>1. f \in QField /\ Channel(w, f) = "in"
    BY <1>5, <1>7
  <2> HIDE DEF f
  <2>2. Cardinality(Ops(w, f, {"in"})) = 1
    BY <2>1 DEF Channel
  <2>3. Ops(w, f, {"in"}) # {}
    <3> SUFFICES ASSUME Ops(w, f, {"in"}) = {} PROVE FALSE
      OBVIOUS
    <3>1. Cardinality(Ops(w, f, {"in"})) = Cardinality({})
      OBVIOUS
    <3>2. Cardinality({}) = 0
      BY FS_EmptySet
    <3>3. QED
      BY <2>2, <3>1, <3>2
  <2>4. PICK c \in Ops(w, f, {"in"}) : doc[f] \in c.value
    BY <2>1, <2>3, Matched
  <2>5. EncSame(doc[f], doc[f])
    BY DEF EncSame
  <2>6. QED
    BY <2>4, <2>5
<1>8. QED
  BY <1>3, <1>4, <1>6, <1>7 DEF Walked, n

-----------------------------------------------------------------------------
(* One query, from validation to its rows.                                 *)

QueryInv ==
  /\ wire \in Wire /\ indexes \in Declarable
  /\ plan.kind = "refused" => ~Satisfiable(wire)
  /\ plan.kind \in {"index-walk", "walked"} => plan.def \in DOMAIN indexes
  /\ plan.kind = "walked" =>
       rows = {doc \in QDoc : Walked(wire, indexes[plan.def], doc) /\ matchesWire(wire, doc)}

(* A query's plan names a declared index, its rows are the walk's, and it  *)
(* was refused for a reason (assertWireSatisfiable, planQuery,             *)
(* runIndexWalkPlan).                                                      *)
THEOREM QueryInvHolds == QuerySpec => []QueryInv
<1>1. QueryInit => QueryInv
  BY DEF QueryInit, QueryInv
<1>2. QueryInv /\ [QueryNext]_queryVars => QueryInv'
  <2> SUFFICES ASSUME QueryInv, [QueryNext]_queryVars PROVE QueryInv'
    OBVIOUS
  <2>1. CASE Validate
    <3>1. CASE Satisfiable(wire)
      <4>1. plan'.kind = "valid"
        BY <2>1, <3>1 DEF Validate
      <4>2. QED
        BY <2>1, <4>1 DEF Validate, QueryInv
    <3>2. CASE ~Satisfiable(wire)
      <4>1. plan'.kind = "refused" /\ UNCHANGED <<wire, indexes, rows>>
        BY <2>1, <3>2 DEF Validate
      <4>2. ~Satisfiable(wire)'
        BY <3>2, <4>1 DEF Satisfiable, FieldSatisfiable, Ops, On, LowerBound, UpperBound
      <4>3. QED
        BY <4>1, <4>2 DEF QueryInv
    <3>3. QED
      BY <3>1, <3>2
  <2>2. CASE PlanRead
    <3>1. indexes \in IndexList
      BY DEF QueryInv, Declarable
    <3>2. /\ plan'.kind \in {"full-scan", "index-walk"}
          /\ plan'.kind = "index-walk" => plan'.def \in DOMAIN indexes
      BY <2>2, <3>1, PlanFacts DEF PlanRead
    <3>3. QED
      BY <2>2, <3>2 DEF PlanRead, QueryInv
  <2>3. CASE runIndexWalkPlan
    BY <2>3 DEF runIndexWalkPlan, QueryInv
  <2>4. CASE ScanRows
    BY <2>4 DEF ScanRows, QueryInv
  <2>5. CASE UNCHANGED queryVars
    BY <2>5 DEF queryVars, QueryInv
  <2>6. QED
    BY <2>1, <2>2, <2>3, <2>4, <2>5 DEF QueryNext
<1>3. QED
  BY <1>1, <1>2, PTL DEF QuerySpec

(* Refusing a query hides no row: a predicate without object operands that *)
(* assertWireSatisfiable rejects matches no document, whatever the values  *)
(* and however many clauses.                                               *)
THEOREM RefusedQueriesMatchNothing == QuerySpec => []RefusedMatchesNothing
<1>1. QueryInv => RefusedMatchesNothing
  <2> SUFFICES ASSUME QueryInv, plan.kind = "refused", ~\E c \in wire : ObjectOperand(c),
                      NEW doc \in QDoc, matchesWire(wire, doc)
               PROVE  FALSE
    BY DEF RefusedMatchesNothing
  <2>1. WellFormed(wire) /\ NoObjects(wire) /\ ~Satisfiable(wire)
    BY QueryAssumption DEF QueryInv, NoObjects
  <2>2. QED
    BY <2>1, MatchedIsSatisfiable
<1>2. QED
  BY <1>1, QueryInvHolds, PTL

(* Outside the exceptions it names, a walk over an index the planner chose *)
(* returns every document a scan would (planQuery, predicateImplies,       *)
(* projectIndexValues, runIndexWalkPlan).                                  *)
THEOREM IndexRoutesAreComplete == QuerySpec => []IndexRouteIsComplete
<1>1. QueryInv => IndexRouteIsComplete
  <2> SUFFICES ASSUME QueryInv, plan.kind = "walked", NEW doc \in QDoc, matchesWire(wire, doc),
                      ~\E c \in wire : ObjectOperand(c),
                      ~(indexes[plan.def].filter # NoFilter /\
                          (~predicateImplies(indexes[plan.def].filter, wire) \/ MixedIn
                           \/ InAndRange(indexes[plan.def].filter))),
                      ~\E i \in DOMAIN indexes[plan.def].on :
                          doc[indexes[plan.def].on[i]] = Missing /\ On(wire, indexes[plan.def].on[i]) = {},
                      ~\E c \in wire : c.op \in Lower \cup Upper /\ OrdersDiffer(doc[c.field], c.value)
               PROVE  doc \in rows
    BY DEF IndexRouteIsComplete
  <2> DEFINE def == indexes[plan.def]
  <2>1. WellFormed(wire) /\ NoObjects(wire)
    BY QueryAssumption DEF QueryInv, NoObjects
  <2>2. /\ plan.def \in DOMAIN indexes /\ indexes \in Declarable /\ indexes \in IndexList
        /\ rows = {d \in QDoc : Walked(wire, def, d) /\ matchesWire(wire, d)}
    BY DEF QueryInv, Declarable
  <2>3. /\ def.on \in Seq(QField)
        /\ def.filter # NoFilter => WellFormed(def.filter) /\ Satisfiable(def.filter)
    BY <2>2, QueryAssumption DEF Declarable
  <2>4. /\ def.filter # NoFilter => predicateImplies(def.filter, wire) /\ ~MixedIn
                                     /\ ~InAndRange(def.filter)
        /\ \A i \in DOMAIN def.on : doc[def.on[i]] = Missing => On(wire, def.on[i]) # {}
    OBVIOUS
  <2> HIDE DEF def
  <2>5. ~MixedIn => PureIns(wire)
    BY DEF MixedIn, PureIns
  <2>6. def.filter # NoFilter => /\ PureIns(wire) /\ WellFormed(def.filter) /\ Satisfiable(def.filter)
                                 /\ InRangeFree(def.filter) /\ predicateImplies(def.filter, wire)
    BY <2>3, <2>4, <2>5 DEF InRangeFree
  <2>7. Walked(wire, def, doc)
    BY <2>1, <2>3, <2>4, <2>6, MatchIsWalked
  <2>8. QED
    BY <2>2, <2>7
<1>2. QED
  BY <1>1, QueryInvHolds, PTL

=============================================================================
