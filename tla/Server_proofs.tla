---------------------------- MODULE Server_proofs ----------------------------
(***************************************************************************)
(* The write verbs and the storage contract under them.                    *)
(*                                                                         *)
(* The verbs, for any number of calls, documents and log slots and any     *)
(* retention: the first insert of an _id wins, what an insert says of the  *)
(* row in its way is true, a batch commits each row at most once           *)
(* (DocVerbs), and all of it behaves as a collection of atomic row writes  *)
(* (Collection).                                                           *)
(*                                                                         *)
(* What a conditional PUT of the remote adapters reports is true, for      *)
(* every adapter, every number of attempts and any peers (StorageCall);    *)
(* and the local file-system adapter keeps its CAS and its format check,   *)
(* for any number of calls, instances, spellings of the root and crashes   *)
(* (LocalFs).                                                              *)
(***************************************************************************)
EXTENDS DocVerbs, StorageCall, LocalFs, FiniteSetTheorems, SequenceTheorems, TLAPS

(* Log entries: all but a delete carry a body.                             *)
Entries ==
  {e \in [doc : Docs, op : {"I", "U", "D"}, body : Body \cup {Absent}, by : Call] :
     e.op # "D" => e.body \in Body}

Calls ==
  [pc : {"idle", "planned", "next", "window", "create", "resolve", "check", "done"},
   req : Request \cup {Absent}, start : Nat, absentBelow : Nat, floor : Nat, at : Nat,
   window : Seq(Entries), todo : SUBSET Entries,
   out : {"none", "ok", "exists", "replayed", "notfound", "refused", "conflict", "ambiguous",
          "failed"},
   overtaken : BOOLEAN]

Running == {"planned", "next", "window", "create", "resolve", "check"}

(* Creates of which a send may be in flight.                               *)
Sends == [at : Slot, entry : Entries]

(* The slots among the first n that hold an entry of document d.           *)
Mine(d, n) == {i \in 1..n : history[i].doc = d}

(* A document with an entry has a newest one.                              *)
HasLast ==
  \A d \in Docs : \A n \in 0..LogEnd :
    Mine(d, n) # {} => \E i \in Mine(d, n) : \A j \in Mine(d, n) : j <= i

VerbTypes ==
  /\ history \in Seq(Entries)
  /\ HasLast
  /\ slots \in [Slot -> Entries \cup {Absent}]
  /\ foldedTo \in Nat
  /\ certified \in Nat
  /\ late \in SUBSET Sends
  /\ call \in [Call -> Calls]

(* Outside the certified prefix the log holds exactly the history.         *)
LogIsHistory ==
  /\ certified <= foldedTo /\ foldedTo <= LogEnd /\ LogEnd <= MaxLog
  /\ \A s \in Slot : s >= LogEnd => slots[s] = Absent
  /\ \A s \in Slot : certified <= s /\ s < LogEnd => slots[s] = history[s + 1]

-----------------------------------------------------------------------------
(* What the local state k of call c says of the log.                       *)

(* A call under way has a request, and the slot it has reached is in the   *)
(* log or at its end.                                                      *)
SoundCall(k) ==
  /\ IF k.pc = "idle" THEN ~k.overtaken ELSE k.req \in Request /\ k.start <= LogEnd
  /\ k.pc # "done" => k.out = "none"
  /\ k.pc = "window" => k.req.verb \in Inserts
  /\ k.pc \in Running => k.at <= LogEnd
  /\ k.pc = "resolve" => k.at \in Slot

(* The documents an acknowledgement is about.                              *)
Target(k, d) ==
  /\ d \in k.req.docs
  /\ k.req.verb \in Inserts \/ \E n \in 0..LogEnd : n = k.start /\ RowAt(d, n) # Absent

(* Its plan has one write per document, for documents it is about, and an  *)
(* insert has one write.                                                   *)
SoundPlan(c, k) ==
  k.pc \in Running =>
    /\ \A e \in k.todo : e.by = c
    /\ \A e \in k.todo : Target(k, e.doc)
    /\ \A e, f \in k.todo : e.doc = f.doc => e = f
    /\ \A e \in k.todo : e.op = "I" <=> k.req.verb \in Inserts
    /\ k.req.verb \in Inserts => \E e \in Entries : k.todo = {e} /\ k.req.docs = {e.doc}
    /\ k.pc # "planned" => k.todo # {}
    /\ k.pc \in {"create", "resolve", "check"} /\ k.req.verb \notin Inserts =>
         k.window # <<>> /\ k.window[1] \in k.todo

PendingOf(k) ==
  IF k.req.verb \in Inserts THEN CHOOSE e \in k.todo : TRUE ELSE k.window[1]

By(c) == {n \in 1..LogEnd : history[n].by = c}

Written(c, d) == \E n \in By(c) : history[n].doc = d

(* It has no entry for a row it still has to write, and never two for one, *)
(* unless retirement overtook it.  While its create is to be resolved, the *)
(* one entry it may have for the row is that create, at its slot.          *)
WritesOnce(c, k) ==
  /\ k.pc \in {"idle", "planned"} => By(c) = {}
  /\ k.out \in {"refused", "notfound"} => By(c) = {}
  /\ ~k.overtaken =>
       /\ k.pc \in {"next", "window", "create"} =>
            /\ \A n \in By(c) : \A e \in k.todo : history[n].doc # e.doc
            /\ k.req.verb \in Inserts => By(c) = {}
       /\ k.pc \in {"resolve", "check"} =>
            \A n \in By(c) : \A e \in k.todo : e # PendingOf(k) => history[n].doc # e.doc
       /\ k.pc = "resolve" =>
            \A n \in By(c) : history[n].doc = PendingOf(k).doc \/ k.req.verb \in Inserts =>
              n = k.at + 1 /\ history[n] = PendingOf(k)
       /\ k.out \in {"exists", "replayed", "conflict"} => By(c) = {}
       /\ \A m, n \in By(c) : history[m].doc = history[n].doc => m = n

(* It has an entry for every row it has to write and no longer plans to,   *)
(* unless retirement overtook it; a create at or above the delete floor is *)
(* in the history.                                                         *)
WritesAll(c, k) ==
  /\ k.pc = "check" /\ certified <= k.at => Written(c, PendingOf(k).doc)
  /\ ~k.overtaken =>
       /\ k.pc \in Running => \A d \in Docs : Target(k, d) =>
            Written(c, d) \/ \E e \in k.todo : e.doc = d
       /\ k.out = "ok" => \A d \in Docs : Target(k, d) => Written(c, d)
       /\ k.out = "failed" => \E d \in Docs : Target(k, d) /\ ~Written(c, d)

(* A guarded insert knows the log from its absence check up to where it    *)
(* has read, unless retirement overtook it, and creates where its document *)
(* is absent.                                                              *)
SoundWindow(k) ==
  k.pc \in Running /\ k.req.verb \in Inserts =>
    /\ k.absentBelow = k.start
    /\ \A d \in k.req.docs : RowAt(d, k.start) = Absent
    /\ k.pc \in {"planned", "next"} => k.window = <<>>
    /\ k.pc \in {"window", "create", "resolve"} /\ ~k.overtaken =>
         /\ Len(k.window) = k.at - k.start
         /\ \A i \in 1..Len(k.window) : k.window[i] = history[k.start + i]
    /\ k.pc \in {"create", "resolve"} /\ ~k.overtaken =>
         \A d \in k.req.docs : RowAt(d, k.at) = Absent

(* The row an insert reports was there at some moment of the call.         *)
TrueVerdict(k) ==
  k.out \in {"exists", "replayed"} /\ ~k.overtaken =>
    \E n \in k.start .. LogEnd : \A d \in k.req.docs :
      IF k.out = "replayed" THEN RowAt(d, n) = k.req.content ELSE RowAt(d, n) # Absent

CallOk(c, k) ==
  /\ SoundCall(k) /\ SoundPlan(c, k) /\ WritesOnce(c, k) /\ WritesAll(c, k)
  /\ SoundWindow(k) /\ TrueVerdict(k)

(* FirstInsertWins, with the document named.                               *)
FirstWins ==
  \A n \in 1..LogEnd : \A d \in Docs :
    history[n].doc = d /\ history[n].op = "I" /\ ~call[history[n].by].overtaken =>
      RowAt(d, n - 1) = Absent

(* A send in flight x and the state k of its call: while the slot is still *)
(* the end of the log, the call is resolving that create or has reported   *)
(* it ambiguous, and has no entry for the row.                             *)
LateFit(x, k) ==
  /\ x.at <= LogEnd /\ k.pc # "idle"
  /\ x.entry.op = "I" /\ ~k.overtaken => RowAt(x.entry.doc, x.at) = Absent
  /\ x.at = LogEnd =>
       /\ \/ k.pc = "resolve" /\ k.at = x.at /\ x.entry = PendingOf(k)
          \/ k.pc = "done" /\ k.out = "ambiguous"
       /\ ~k.overtaken => ~Written(x.entry.by, x.entry.doc)

LateOk == \A x \in late : \A k \in {call[x.entry.by]} : LateFit(x, k)

VerbInv ==
  /\ VerbTypes /\ LogIsHistory /\ FirstWins /\ LateOk
  /\ \A c \in Call : \A k \in {call[c]} : CallOk(c, k)

-----------------------------------------------------------------------------
(* The rows of the history.                                                *)

LEMMA RowIsLast ==
  ASSUME VerbTypes, NEW d \in Docs, NEW n \in 0..LogEnd
  PROVE  \/ Mine(d, n) = {} /\ RowAt(d, n) = Absent
         \/ \E i \in Mine(d, n) :
              /\ \A j \in Mine(d, n) : j <= i
              /\ RowAt(d, n) = IF history[i].op = "D" THEN Absent ELSE history[i].body
<1>1. CASE Mine(d, n) = {}
  BY <1>1 DEF Mine, RowAt
<1>2. CASE Mine(d, n) # {}
  <2> DEFINE last == CHOOSE i \in Mine(d, n) : \A j \in Mine(d, n) : j <= i
  <2>1. \E i \in Mine(d, n) : \A j \in Mine(d, n) : j <= i
    BY <1>2 DEF VerbTypes, HasLast
  <2>2. last \in Mine(d, n) /\ \A j \in Mine(d, n) : j <= last
    BY <2>1
  <2>3. RowAt(d, n) = IF history[last].op = "D" THEN Absent ELSE history[last].body
    BY <1>2 DEF Mine, RowAt
  <2>4. QED
    BY <2>2, <2>3
<1>3. QED
  BY <1>1, <1>2

LEMMA HistoryType ==
  ASSUME VerbTypes
  PROVE  LogEnd \in Nat /\ \A i \in 1..LogEnd : history[i] \in Entries
BY DEF VerbTypes, LogEnd

LEMMA EntryType ==
  ASSUME NEW e \in Entries
  PROVE  /\ e.doc \in Docs /\ e.op \in {"I", "U", "D"} /\ e.by \in Call /\ e # Absent
         /\ e.op # "D" => e.body \in Body /\ e.body # Absent
BY AbsentAssumption DEF Entries

LEMMA RowType ==
  ASSUME VerbTypes, NEW d \in Docs, NEW n \in 0..LogEnd
  PROVE  RowAt(d, n) \in Body \cup {Absent}
<1>1. \A i \in Mine(d, n) : history[i] \in Entries
  BY HistoryType DEF Mine
<1>2. QED
  BY <1>1, RowIsLast, EntryType

(* The row after a step, from the newest entry.                            *)
LEMMA LastIsRow ==
  ASSUME NEW d \in Docs, NEW n \in Int,
         NEW i \in Mine(d, n)', \A j \in Mine(d, n)' : j <= i
  PROVE  RowAt(d, n)' = IF history'[i].op = "D" THEN Absent ELSE history'[i].body
<1> DEFINE mine == {k \in 1..n : history'[k].doc = d}
           last == CHOOSE k \in mine : \A j \in mine : j <= k
<1>1. mine = Mine(d, n)' /\ mine \subseteq Int
  BY DEF Mine
<1>2. RowAt(d, n)' = IF history'[last].op = "D" THEN Absent ELSE history'[last].body
  BY <1>1 DEF RowAt
<1> HIDE DEF mine
<1>3. last \in mine /\ \A j \in mine : j <= last
  BY <1>1
<1>4. last = i
  BY <1>1, <1>3
<1>5. QED
  BY <1>2, <1>4

LEMMA AppendEntry ==
  ASSUME VerbTypes, NEW e \in Entries, history' = Append(history, e)
  PROVE  /\ history' \in Seq(Entries) /\ LogEnd' = LogEnd + 1 /\ LogEnd \in Nat
         /\ \A i \in 1..LogEnd : history'[i] = history[i]
         /\ history'[LogEnd + 1] = e
BY AppendProperties DEF VerbTypes, LogEnd

LEMMA AppendMine ==
  ASSUME VerbTypes, NEW e \in Entries, history' = Append(history, e), NEW d \in Docs
  PROVE  /\ \A n \in 0..LogEnd : Mine(d, n)' = Mine(d, n)
         /\ \A n : n = LogEnd + 1 =>
              /\ e.doc = d => Mine(d, n)' = Mine(d, LogEnd) \cup {n}
              /\ e.doc # d => Mine(d, n)' = Mine(d, LogEnd)
<1>0. /\ LogEnd' = LogEnd + 1 /\ LogEnd \in Nat
      /\ \A i \in 1..LogEnd : history'[i] = history[i]
      /\ history'[LogEnd + 1] = e
  BY AppendEntry
<1>1. \A n \in 0..LogEnd : Mine(d, n)' = Mine(d, n)
  BY <1>0 DEF Mine, LogEnd
<1>2. ASSUME NEW n, n = LogEnd + 1
      PROVE  /\ e.doc = d => Mine(d, n)' = Mine(d, LogEnd) \cup {n}
             /\ e.doc # d => Mine(d, n)' = Mine(d, LogEnd)
  <2>1. 1..n = 1..LogEnd \cup {n}
    BY <1>2, <1>0
  <2>2. QED
    BY <1>2, <2>1, <1>0 DEF Mine
<1>3. QED
  BY <1>1, <1>2

LEMMA AppendHasLast ==
  ASSUME VerbTypes, NEW e \in Entries, history' = Append(history, e)
  PROVE  HasLast'
<1> SUFFICES ASSUME NEW d \in Docs, NEW n \in 0..LogEnd', Mine(d, n)' # {}
             PROVE  \E i \in Mine(d, n)' : \A j \in Mine(d, n)' : j <= i
  BY DEF HasLast
<1>1. CASE n \in 0..LogEnd
  BY <1>1, AppendMine DEF VerbTypes, HasLast
<1>2. CASE n = LogEnd'
  <2>1. CASE e.doc = d
    <3>1. Mine(d, n)' = Mine(d, LogEnd) \cup {n}
      BY <1>2, <2>1, AppendMine, AppendEntry
    <3>2. \A j \in Mine(d, LogEnd) : j <= n
      BY <1>2, AppendEntry DEF Mine
    <3>3. n <= n
      BY AppendEntry
    <3>4. QED
      BY <3>1, <3>2, <3>3
  <2>2. CASE e.doc # d
    <3>1. Mine(d, n)' = Mine(d, LogEnd)
      BY <1>2, <2>2, AppendMine, AppendEntry
    <3>2. LogEnd \in 0..LogEnd
      BY AppendEntry
    <3>3. QED
      BY <3>1, <3>2 DEF VerbTypes, HasLast
  <2>3. QED
    BY <2>1, <2>2
<1>3. QED
  BY <1>1, <1>2, AppendEntry

(* An entry leaves the rows before it alone.                               *)
LEMMA AppendRow ==
  ASSUME VerbTypes, NEW e \in Entries, history' = Append(history, e),
         NEW d \in Docs, NEW n \in 0..LogEnd
  PROVE  RowAt(d, n)' = RowAt(d, n)
<1>1. Mine(d, n)' = Mine(d, n)
  BY AppendMine
<1>2. CASE Mine(d, n) = {}
  BY <1>1, <1>2 DEF RowAt, Mine
<1>3. CASE Mine(d, n) # {}
  <2>1. PICK i \in Mine(d, n) :
            /\ \A j \in Mine(d, n) : j <= i
            /\ RowAt(d, n) = IF history[i].op = "D" THEN Absent ELSE history[i].body
    BY <1>3, RowIsLast
  <2>2. history'[i] = history[i]
    <3>1. i \in 1..LogEnd
      BY HistoryType DEF Mine
    <3>2. QED
      BY <3>1, AppendEntry
  <2>3. RowAt(d, n)' = IF history'[i].op = "D" THEN Absent ELSE history'[i].body
    BY <1>1, <2>1, LastIsRow, n \in Int
  <2>4. QED
    BY <2>1, <2>2, <2>3
<1>4. QED
  BY <1>2, <1>3

-----------------------------------------------------------------------------
(* Frames: what a step leaves alone.                                       *)

(* The history and the delete floor only grow.                             *)
Grows ==
  /\ LogEnd' \in Nat /\ LogEnd <= LogEnd'
  /\ \A i \in 1..LogEnd : history'[i] = history[i]
  /\ \A d \in Docs : \A n \in 0..LogEnd : RowAt(d, n)' = RowAt(d, n)
  /\ certified \in Nat /\ certified' \in Nat /\ certified <= certified'

(* The step commits nothing of call c.                                     *)
NotBy(c) == \A i \in 1..LogEnd' : i > LogEnd => history'[i].by # c

LEMMA AppendGrows ==
  ASSUME VerbTypes, NEW e \in Entries, history' = Append(history, e), UNCHANGED certified
  PROVE  Grows /\ \A c \in Call : c # e.by => NotBy(c)
<1>0. /\ LogEnd' = LogEnd + 1 /\ LogEnd \in Nat
      /\ \A i \in 1..LogEnd : history'[i] = history[i]
      /\ history'[LogEnd + 1] = e
  BY AppendEntry
<1>1. \A d \in Docs : \A n \in 0..LogEnd : RowAt(d, n)' = RowAt(d, n)
  BY AppendRow
<1>2. certified \in Nat /\ certified' = certified
  BY DEF VerbTypes
<1>3. Grows
  BY <1>0, <1>1, <1>2 DEF Grows, LogEnd
<1>4. \A i \in 1..LogEnd' : i > LogEnd => history'[i] = e
  BY <1>0 DEF LogEnd
<1>5. QED
  BY <1>3, <1>4 DEF NotBy

LEMMA HistoryKept ==
  ASSUME VerbTypes, UNCHANGED history, certified' \in Nat, certified <= certified'
  PROVE  Grows /\ (HasLast' <=> HasLast) /\ \A c \in Call : NotBy(c)
<1>1. LogEnd' = LogEnd /\ LogEnd \in Nat
  BY DEF VerbTypes, LogEnd
<1>2. \A d, n : RowAt(d, n)' = RowAt(d, n)
  BY DEF RowAt
<1>3. HasLast' <=> HasLast
  BY <1>1 DEF HasLast, Mine
<1>4. QED
  BY <1>1, <1>2, <1>3 DEF Grows, NotBy, VerbTypes

LEMMA ByKept ==
  ASSUME VerbTypes, Grows, NEW c \in Call, NotBy(c)
  PROVE  By(c)' = By(c) /\ \A n \in By(c) : history'[n] = history[n]
BY HistoryType DEF Grows, NotBy, By

LEMMA CallFrame ==
  ASSUME VerbTypes, Grows, NEW c \in Call, NEW k \in Calls, CallOk(c, k)
  PROVE  /\ SoundCall(k)' /\ SoundPlan(c, k)' /\ SoundWindow(k)' /\ TrueVerdict(k)'
         /\ k.pc # "idle" => \A d \in Docs : Target(k, d)' <=> Target(k, d)
<1>1. /\ LogEnd \in Nat /\ LogEnd' \in Nat /\ LogEnd <= LogEnd'
      /\ k.start \in Nat /\ k.at \in Nat /\ k.todo \in SUBSET Entries
  BY HistoryType DEF Grows, Calls
<1>4. SoundCall(k)'
  BY <1>1 DEF CallOk, SoundCall
<1>7. k.pc # "idle" => k.req \in Request /\ k.req.docs \subseteq Docs /\ k.start <= LogEnd
  BY RequestAssumption DEF CallOk, SoundCall
<1>8. ASSUME NEW d \in Docs, k.pc # "idle" PROVE Target(k, d)' <=> Target(k, d)
  <2>1. k.start \in 0..LogEnd /\ k.start \in 0..LogEnd'
    BY <1>1, <1>7, <1>8
  <2>2. RowAt(d, k.start)' = RowAt(d, k.start)
    BY <2>1 DEF Grows
  <2>3. QED
    BY <2>1, <2>2 DEF Target
<1>5. SoundPlan(c, k)'
  <2>1. ASSUME k.pc \in Running PROVE \A e \in k.todo : Target(k, e.doc)'
    <3>1. \A e \in k.todo : e.doc \in Docs /\ Target(k, e.doc)
      BY <1>1, <2>1, EntryType DEF CallOk, SoundPlan
    <3>2. k.pc # "idle"
      BY <2>1 DEF Running
    <3>3. QED
      BY <1>8, <3>1, <3>2
  <2>2. QED
    BY <2>1 DEF CallOk, SoundPlan
<1>10. SoundWindow(k)'
  <2> SUFFICES ASSUME k.pc \in Running, k.req.verb \in Inserts
               PROVE  /\ k.absentBelow = k.start
                      /\ \A d \in k.req.docs : RowAt(d, k.start)' = Absent
                      /\ k.pc \in {"planned", "next"} => k.window = <<>>
                      /\ k.pc \in {"window", "create", "resolve"} /\ ~k.overtaken =>
                           /\ Len(k.window) = k.at - k.start
                           /\ \A i \in 1..Len(k.window) : k.window[i] = history'[k.start + i]
                      /\ k.pc \in {"create", "resolve"} /\ ~k.overtaken =>
                           \A d \in k.req.docs : RowAt(d, k.at)' = Absent
    BY DEF SoundWindow
  <2>1. k.start \in 0..LogEnd /\ k.at \in 0..LogEnd /\ k.req.docs \subseteq Docs
    BY <1>1, <1>7 DEF CallOk, SoundCall, Running
  <2>2. \A d \in k.req.docs : RowAt(d, k.start)' = RowAt(d, k.start)
                           /\ RowAt(d, k.at)' = RowAt(d, k.at)
    BY <2>1 DEF Grows
  <2>3. ASSUME Len(k.window) = k.at - k.start, NEW i \in 1..Len(k.window)
        PROVE  history'[k.start + i] = history[k.start + i]
    <3>1. k.start + i \in 1..LogEnd
      BY <1>1, <2>1, <2>3
    <3>2. QED
      BY <3>1 DEF Grows
  <2>4. QED
    BY <2>2, <2>3 DEF CallOk, SoundWindow
<1>11. TrueVerdict(k)'
  <2> SUFFICES ASSUME k.out \in {"exists", "replayed"}, ~k.overtaken
               PROVE  \E n \in k.start .. LogEnd' : \A d \in k.req.docs :
                        IF k.out = "replayed" THEN RowAt(d, n)' = k.req.content ELSE RowAt(d, n)' # Absent
    BY DEF TrueVerdict
  <2>1. PICK n \in k.start .. LogEnd : \A d \in k.req.docs :
          IF k.out = "replayed" THEN RowAt(d, n) = k.req.content ELSE RowAt(d, n) # Absent
    BY DEF CallOk, TrueVerdict
  <2>2. k.req.docs \subseteq Docs
    BY <1>7 DEF CallOk, SoundCall
  <2>3. n \in 0..LogEnd /\ n \in k.start .. LogEnd'
    BY <1>1
  <2>4. \A d \in k.req.docs : RowAt(d, n)' = RowAt(d, n)
    BY <2>2, <2>3 DEF Grows
  <2>5. QED
    BY <2>1, <2>3, <2>4
<1>12. QED
  BY <1>4, <1>5, <1>8, <1>10, <1>11

LEMMA CallKept ==
  ASSUME VerbTypes, Grows, NEW c \in Call, NotBy(c), NEW k \in Calls, CallOk(c, k)
  PROVE  CallOk(c, k)'
<1>1. /\ SoundCall(k)' /\ SoundPlan(c, k)' /\ SoundWindow(k)' /\ TrueVerdict(k)'
      /\ k.pc # "idle" => \A d \in Docs : Target(k, d)' <=> Target(k, d)
  BY CallFrame
<1>2. By(c)' = By(c) /\ \A n \in By(c) : history'[n] = history[n]
  BY ByKept
<1>3. \A d : Written(c, d)' <=> Written(c, d)
  BY <1>2 DEF Written
<1>4. WritesOnce(c, k)'
  BY <1>2 DEF CallOk, WritesOnce
<1>5. WritesAll(c, k)'
  <2>1. k.pc \in Running => \A d \in Docs : Target(k, d)' <=> Target(k, d)
    BY <1>1 DEF Running
  <2>2. k.pc = "check" /\ certified' <= k.at => Written(c, PendingOf(k).doc)'
    BY <1>3 DEF CallOk, WritesAll, Grows, Calls
  <2>3. k.out # "none" => \A d \in Docs : Target(k, d)' <=> Target(k, d)
    BY <1>1 DEF CallOk, SoundCall
  <2>4. QED
    BY <1>3, <2>1, <2>2, <2>3 DEF CallOk, WritesAll
<1>6. QED
  BY <1>1, <1>4, <1>5 DEF CallOk

LEMMA CallType ==
  ASSUME VerbInv, NEW c \in Call
  PROVE  call[c] \in Calls /\ CallOk(c, call[c]) /\ VerbTypes /\ LogIsHistory
BY DEF VerbInv, VerbTypes

LEMMA FirstWinsKept ==
  ASSUME VerbInv, Grows, UNCHANGED history,
         \A b \in Call : call[b].overtaken => call'[b].overtaken
  PROVE  FirstWins'
<1>1. LogEnd' = LogEnd /\ LogEnd \in Nat /\ \A n \in 1..LogEnd : history[n].by \in Call
  BY HistoryType, EntryType DEF LogEnd, VerbInv
<1>2. \A d \in Docs : \A n \in 1..LogEnd : RowAt(d, n - 1)' = RowAt(d, n - 1)
  BY <1>1 DEF Grows
<1>3. QED
  BY <1>1, <1>2 DEF VerbInv, FirstWins

(* A send in flight still fits its call, when the call has moved to k2.    *)
LEMMA LateGrows ==
  ASSUME VerbTypes, Grows, LogEnd < LogEnd', NEW x \in Sends, NEW k, LateFit(x, k),
         NEW k2, k2.pc # "idle", k.overtaken => k2.overtaken
  PROVE  LateFit(x, k2)'
<1>1. /\ x.at \in Nat /\ x.entry.doc \in Docs /\ LogEnd \in Nat /\ LogEnd' \in Nat
      /\ LogEnd <= LogEnd' /\ x.at <= LogEnd
  BY HistoryType, EntryType, VerbBoundsAssumption DEF Sends, Slot, Grows, LateFit
<1>2. RowAt(x.entry.doc, x.at)' = RowAt(x.entry.doc, x.at)
  BY <1>1 DEF Grows
<1>3. QED
  BY <1>1, <1>2 DEF LateFit

LEMMA LateStays ==
  ASSUME UNCHANGED history, NEW x, NEW k, LateFit(x, k),
         NEW k2, k2.pc # "idle", k.overtaken => k2.overtaken,
         x.at = LogEnd => \/ k2.pc = "resolve" /\ k2.at = x.at /\ x.entry = PendingOf(k2)
                          \/ k2.pc = "done" /\ k2.out = "ambiguous"
  PROVE  LateFit(x, k2)'
<1>1. LogEnd' = LogEnd /\ \A d, n : RowAt(d, n)' = RowAt(d, n)
  BY DEF LogEnd, RowAt
<1>2. \A c, d : Written(c, d)' <=> Written(c, d)
  BY DEF LogEnd, Written, By
<1>3. QED
  BY <1>1, <1>2 DEF LateFit

(* No send in flight can be a commit but one that is being resolved or was *)
(* reported ambiguous.                                                     *)
LEMMA LateMoves ==
  ASSUME VerbInv, Grows, UNCHANGED history, NEW c \in Call, NEW k, k.pc # "idle",
         call[c].overtaken => k.overtaken, call[c].pc # "done",
         call[c].pc = "resolve" => call[c].at < LogEnd \/ (k.pc = "done" /\ k.out = "ambiguous"),
         NEW x \in late, x.entry.by = c
  PROVE  LateFit(x, k)'
<1>1. VerbTypes /\ x \in Sends /\ LateFit(x, call[c]) /\ LogEnd \in Nat /\ call[c].at \in Nat
  BY HistoryType DEF VerbInv, VerbTypes, LateOk, Calls
<1>2. x.at = LogEnd => k.pc = "done" /\ k.out = "ambiguous"
  BY <1>1 DEF LateFit
<1>3. QED
  BY <1>1, <1>2, LateStays

(* A call moves, and nothing else does: what is left to show is what the   *)
(* invariant says of it.                                                   *)
LEMMA CallMovesOver ==
  ASSUME VerbInv, NEW c \in Call, NEW k \in Calls, call' = [call EXCEPT ![c] = k],
         UNCHANGED <<history, foldedTo, certified>>, slots' \in [Slot -> Entries \cup {Absent}],
         LogIsHistory', CallOk(c, k), call[c].overtaken => k.overtaken, k.pc # "idle",
         call[c].pc # "done",
         call[c].pc = "resolve" => call[c].at < LogEnd \/ (k.pc = "done" /\ k.out = "ambiguous"),
         \A x \in late' : x \in late \/ (x \in Sends /\ x.entry.by = c /\ LateFit(x, k))
  PROVE  VerbInv'
<1>1. VerbTypes /\ certified \in Nat /\ certified' \in Nat
  BY DEF VerbInv, VerbTypes
<1>2. Grows /\ (HasLast' <=> HasLast) /\ \A b \in Call : NotBy(b)
  BY <1>1, HistoryKept
<1>3. call' \in [Call -> Calls] /\ call'[c] = k /\ \A b \in Call : b # c => call'[b] = call[b]
  BY <1>1 DEF VerbTypes
<1>4. VerbTypes'
  BY <1>1, <1>2, <1>3 DEF VerbTypes
<1>6. FirstWins'
  BY <1>1, <1>2, <1>3, FirstWinsKept
<1>7. ASSUME NEW b \in Call, NEW x \in {call'[b]} PROVE CallOk(b, x)'
  <2>1. x \in Calls /\ CallOk(b, x)
    BY <1>3, CallType
  <2>2. QED
    BY <1>1, <1>2, <2>1, CallKept
<1>8. ASSUME NEW x \in late', NEW j \in {call'[x.entry.by]} PROVE LateFit(x, j)'
  <2>1. x \in Sends /\ x.entry.by \in Call
    BY <1>4, EntryType DEF VerbTypes, Sends
  <2>2. CASE x \notin late
    <3>1. x.entry.by = c /\ LateFit(x, k) /\ j = k
      BY <1>3, <1>8, <2>2
    <3>2. x.at = LogEnd => \/ k.pc = "resolve" /\ k.at = x.at /\ x.entry = PendingOf(k)
                           \/ k.pc = "done" /\ k.out = "ambiguous"
      BY <3>1 DEF LateFit
    <3>3. LateFit(x, k)'
      BY <3>1, <3>2, LateStays
    <3>4. QED
      BY <3>1, <3>3
  <2>3. CASE x \in late /\ x.entry.by = c
    BY <1>2, <1>3, <1>8, <2>3, LateMoves
  <2>4. CASE x \in late /\ x.entry.by # c
    <3>1. j = call[x.entry.by] /\ LateFit(x, j) /\ j.pc # "idle"
      BY <1>3, <1>8, <2>1, <2>4 DEF VerbInv, LateOk, LateFit
    <3>2. x.at = LogEnd => \/ j.pc = "resolve" /\ j.at = x.at /\ x.entry = PendingOf(j)
                           \/ j.pc = "done" /\ j.out = "ambiguous"
      BY <3>1 DEF LateFit
    <3>3. QED
      BY <3>1, <3>2, LateStays
  <2>5. QED
    BY <2>2, <2>3, <2>4
<1>9. QED
  BY <1>4, <1>6, <1>7, <1>8 DEF VerbInv, LateOk

LEMMA CallMoves ==
  ASSUME VerbInv, NEW c \in Call, NEW k \in Calls, call' = [call EXCEPT ![c] = k],
         UNCHANGED Bucket, CallOk(c, k), call[c].overtaken => k.overtaken, k.pc # "idle",
         call[c].pc # "done",
         call[c].pc = "resolve" => call[c].at < LogEnd \/ (k.pc = "done" /\ k.out = "ambiguous")
  PROVE  VerbInv'
<1>1. /\ UNCHANGED <<history, foldedTo, certified>> /\ late' = late /\ slots' = slots
      /\ slots \in [Slot -> Entries \cup {Absent}]
  BY DEF VerbInv, VerbTypes, Bucket
<1>2. LogIsHistory'
  BY <1>1 DEF VerbInv, LogIsHistory, LogEnd
<1>3. QED
  BY <1>1, <1>2, CallMovesOver

(* The bucket moves below the history's end, and no call does.             *)
LEMMA BucketMoves ==
  ASSUME VerbInv, UNCHANGED <<history, call, late>>, slots' \in [Slot -> Entries \cup {Absent}],
         foldedTo' \in Nat, certified' \in Nat, certified <= certified', LogIsHistory'
  PROVE  VerbInv'
<1>1. VerbTypes
  BY DEF VerbInv
<1>2. Grows /\ (HasLast' <=> HasLast) /\ \A b \in Call : NotBy(b)
  BY <1>1, HistoryKept
<1>3. VerbTypes'
  BY <1>1, <1>2 DEF VerbTypes
<1>4. FirstWins'
  BY <1>2, FirstWinsKept
<1>5. ASSUME NEW b \in Call, NEW x \in {call'[b]} PROVE CallOk(b, x)'
  BY <1>1, <1>2, CallType, CallKept
<1>6. LateOk'
  <2>1. LogEnd' = LogEnd /\ \A d, n : RowAt(d, n)' = RowAt(d, n)
    BY DEF LogEnd, RowAt
  <2>2. \A c, d : Written(c, d)' <=> Written(c, d)
    BY DEF Written, By, LogEnd
  <2>3. QED
    BY <2>1, <2>2 DEF VerbInv, LateOk, LateFit
<1>7. QED
  BY <1>3, <1>4, <1>5, <1>6 DEF VerbInv

(* A create lands, at the history's end or in the certified prefix, and    *)
(* its call moves, unless it was a send in flight.                         *)
LEMMA CallLands ==
  ASSUME VerbInv, NEW c \in Call, NEW k \in Calls, NEW e \in Entries, e.by = c,
         NEW s \in Slot, s <= LogEnd, slots[s] = Absent, Land(s, e),
         call' = [call EXCEPT ![c] = k], UNCHANGED <<foldedTo, certified>>,
         CallOk(c, k)', call[c].overtaken => k.overtaken, k.pc # "idle",
         e.op = "I" /\ ~k.overtaken => \A d \in {e.doc} : RowAt(d, s) = Absent,
         k = call[c] \/ call[c].pc = "create",
         \A x \in late' : x \in late \/ (x \in Sends /\ x.at = s /\ x.entry = e)
  PROVE  VerbInv'
<1>1. VerbTypes /\ LogEnd \in Nat /\ LogIsHistory /\ s \in 0..(MaxLog - 1) /\ MaxLog \in Nat
      /\ certified \in Nat /\ foldedTo \in Nat
  BY HistoryType, VerbBoundsAssumption DEF VerbInv, VerbTypes, Slot
<1>2. call' \in [Call -> Calls] /\ call'[c] = k /\ \A b \in Call : b # c => call'[b] = call[b]
  BY <1>1 DEF VerbTypes
<1>3. slots' = [slots EXCEPT ![s] = e] /\ slots' \in [Slot -> Entries \cup {Absent}]
  BY <1>1 DEF Land, VerbTypes
<1>a. late' \in SUBSET Sends
  BY <1>1 DEF VerbTypes
<1>4. CASE s = LogEnd
  <2>1. history' = Append(history, e)
    BY <1>4 DEF Land
  <2>2. /\ history' \in Seq(Entries) /\ LogEnd' = LogEnd + 1
        /\ \A i \in 1..LogEnd : history'[i] = history[i]
        /\ history'[LogEnd + 1] = e
    BY <1>1, <2>1, AppendEntry
  <2>3. HasLast'
    BY <1>1, <2>1, AppendHasLast
  <2>4. Grows /\ \A b \in Call : b # c => NotBy(b)
    BY <1>1, <2>1, AppendGrows
  <2>5. VerbTypes'
    BY <1>1, <1>2, <1>3, <1>a, <2>2, <2>3 DEF VerbTypes
  <2>6. LogIsHistory'
    <3>1. certified <= foldedTo /\ foldedTo <= LogEnd'
      BY <1>1, <2>2 DEF LogIsHistory
    <3>2. LogEnd' <= MaxLog
      BY <1>1, <1>4, <2>2
    <3>3. ASSUME NEW x \in Slot, x >= LogEnd' PROVE slots'[x] = Absent
      BY <1>1, <1>3, <1>4, <2>2, <3>3 DEF LogIsHistory, VerbTypes, Slot
    <3>4. ASSUME NEW x \in Slot, certified <= x, x < LogEnd' PROVE slots'[x] = history'[x + 1]
      <4>1. CASE x = s
        BY <1>1, <1>3, <1>4, <2>2, <4>1 DEF VerbTypes
      <4>2. CASE x # s
        <5>1. x \in Nat /\ x < LogEnd /\ x + 1 \in 1..LogEnd
          BY <1>1, <1>4, <2>2, <3>4, <4>2 DEF Slot
        <5>2. slots'[x] = slots[x] /\ slots[x] = history[x + 1]
          BY <1>1, <1>3, <3>4, <4>2, <5>1 DEF LogIsHistory, VerbTypes
        <5>3. QED
          BY <2>2, <5>1, <5>2
      <4>3. QED
        BY <4>1, <4>2
    <3>5. QED
      BY <3>1, <3>2, <3>3, <3>4 DEF LogIsHistory
  <2>7. FirstWins'
    <3> SUFFICES ASSUME NEW n \in 1..LogEnd', NEW d \in Docs, history'[n].doc = d,
                        history'[n].op = "I", ~call'[history'[n].by].overtaken
                 PROVE  RowAt(d, n - 1)' = Absent
      BY DEF FirstWins
    <3>1. CASE n \in 1..LogEnd
      <4>1. history'[n] = history[n] /\ history[n].by \in Call
        BY <1>1, <2>2, <3>1, HistoryType, EntryType
      <4>2. ~call[history[n].by].overtaken
        BY <1>2, <4>1
      <4>3. RowAt(d, n - 1) = Absent
        BY <3>1, <4>1, <4>2 DEF VerbInv, FirstWins
      <4>4. n - 1 \in 0..LogEnd
        BY <1>1, <3>1
      <4>5. QED
        BY <2>4, <4>3, <4>4 DEF Grows
    <3>2. CASE n = LogEnd + 1
      <4>1. n - 1 = s /\ s \in 0..LogEnd /\ history'[n] = e
        BY <1>1, <1>4, <2>2, <3>2
      <4>2. RowAt(d, s) = Absent
        BY <1>2, <1>4, <4>1
      <4>3. QED
        BY <2>4, <4>1, <4>2 DEF Grows
    <3>3. QED
      BY <1>1, <2>2, <3>1, <3>2
  <2>8. ASSUME NEW b \in Call, NEW x \in {call'[b]} PROVE CallOk(b, x)'
    <3>1. CASE b = c
      BY <1>2, <2>8, <3>1
    <3>2. CASE b # c
      BY <1>1, <1>2, <2>4, <2>8, <3>2, CallType, CallKept
    <3>3. QED
      BY <3>1, <3>2
  <2>9. ASSUME NEW x \in late', NEW j \in {call'[x.entry.by]} PROVE LateFit(x, j)'
    <3>1. x \in Sends /\ x.entry.by \in Call /\ x.at \in Nat
      BY <1>a, EntryType, VerbBoundsAssumption DEF Sends, Slot
    <3>2. CASE x \in late
      <4>1. PICK i \in Calls : i = call[x.entry.by] /\ LateFit(x, i)
        BY <1>1, <3>1, <3>2 DEF VerbInv, LateOk, VerbTypes
      <4>2. j.pc # "idle" /\ (i.overtaken => j.overtaken)
        BY <1>2, <2>9, <3>1, <4>1 DEF LateFit
      <4>3. LogEnd < LogEnd'
        BY <1>1, <2>2
      <4>4. QED
        BY <1>1, <2>4, <3>1, <4>1, <4>2, <4>3, LateGrows
    <3>3. CASE x.at = s /\ x.entry = e
      <4>1. j = k /\ e.doc \in Docs /\ s \in 0..LogEnd
        BY <1>1, <1>2, <1>4, <2>9, <3>3, EntryType
      <4>2. RowAt(e.doc, s)' = RowAt(e.doc, s)
        BY <2>4, <4>1 DEF Grows
      <4>3. x.at <= LogEnd' /\ x.at # LogEnd'
        BY <1>1, <1>4, <2>2, <3>3
      <4>4. QED
        BY <3>3, <4>1, <4>2, <4>3 DEF LateFit
    <3>4. QED
      BY <3>2, <3>3
  <2>10. QED
    BY <2>5, <2>6, <2>7, <2>8, <2>9 DEF VerbInv, LateOk
<1>5. CASE s # LogEnd
  <2>1. history' = history /\ LogEnd' = LogEnd
    BY <1>5 DEF Land, LogEnd
  <2>2. s < certified
    <3>1. s \in Nat /\ s < LogEnd /\ s + 1 \in 1..LogEnd
      BY <1>1, <1>5
    <3>2. history[s + 1] # Absent
      BY <1>1, <3>1, HistoryType, EntryType
    <3>3. QED
      BY <1>1, <3>1, <3>2 DEF LogIsHistory
  <2>3. Grows /\ (HasLast' <=> HasLast) /\ \A b \in Call : NotBy(b)
    BY <1>1, <2>1, HistoryKept
  <2>4. VerbTypes'
    BY <1>1, <1>2, <1>3, <1>a, <2>1, <2>3 DEF VerbTypes
  <2>5. LogIsHistory'
    <3>1. \A x \in Slot : x >= certified => slots'[x] = slots[x]
      BY <1>1, <1>3, <2>2 DEF VerbTypes, Slot
    <3>2. LogEnd >= certified
      BY <1>1 DEF LogIsHistory
    <3>3. \A x \in Slot : x >= LogEnd => x >= certified
      BY <1>1, <3>2 DEF Slot
    <3>4. QED
      BY <1>1, <2>1, <3>1, <3>3 DEF LogIsHistory
  <2>6. FirstWins'
    BY <1>2, <2>1, <2>3, FirstWinsKept
  <2>7. ASSUME NEW b \in Call, NEW x \in {call'[b]} PROVE CallOk(b, x)'
    <3>1. CASE b = c
      BY <1>2, <2>7, <3>1
    <3>2. CASE b # c
      BY <1>1, <1>2, <2>3, <2>7, <3>2, CallType, CallKept
    <3>3. QED
      BY <3>1, <3>2
  <2>8. ASSUME NEW x \in late', NEW j \in {call'[x.entry.by]} PROVE LateFit(x, j)'
    <3>1. x \in Sends /\ x.entry.by \in Call /\ x.at \in Nat
      BY <1>a, EntryType, VerbBoundsAssumption DEF Sends, Slot
    <3>2. CASE x \in late
      <4>1. PICK i \in Calls : i = call[x.entry.by] /\ LateFit(x, i)
        BY <1>1, <3>1, <3>2 DEF VerbInv, LateOk, VerbTypes
      <4>2. j.pc # "idle" /\ (i.overtaken => j.overtaken)
        BY <1>2, <2>8, <3>1, <4>1 DEF LateFit
      <4>3. x.at = LogEnd => i = j
        BY <1>2, <2>8, <3>1, <4>1 DEF LateFit
      <4>4. x.at = LogEnd => \/ j.pc = "resolve" /\ j.at = x.at /\ x.entry = PendingOf(j)
                             \/ j.pc = "done" /\ j.out = "ambiguous"
        BY <4>1, <4>3 DEF LateFit
      <4>5. QED
        BY <2>1, <4>1, <4>2, <4>4, LateStays
    <3>3. CASE x.at = s /\ x.entry = e
      <4>1. j = k /\ e.doc \in Docs /\ s \in 0..LogEnd
        BY <1>1, <1>2, <2>8, <3>3, EntryType
      <4>2. RowAt(e.doc, s)' = RowAt(e.doc, s)
        BY <2>3, <4>1 DEF Grows
      <4>3. x.at <= LogEnd' /\ x.at # LogEnd'
        BY <1>1, <1>5, <2>1, <3>3
      <4>4. QED
        BY <3>3, <4>1, <4>2, <4>3 DEF LateFit
    <3>4. QED
      BY <3>2, <3>3
  <2>9. QED
    BY <2>4, <2>5, <2>6, <2>7, <2>8 DEF VerbInv, LateOk
<1>6. QED
  BY <1>4, <1>5

-----------------------------------------------------------------------------
(* The steps of a call up to its first commit.                             *)

LEMMA IdleCallType ==
  /\ IdleCall \in Calls /\ IdleCall.pc = "idle" /\ IdleCall.out = "none" /\ IdleCall.at = 0
  /\ IdleCall.window = <<>> /\ ~IdleCall.overtaken /\ IdleCall.todo = {}
BY DEF IdleCall, Calls

LEMMA VerbInvInit == VerbInit => VerbInv
<1> SUFFICES ASSUME VerbInit PROVE VerbInv
  OBVIOUS
<1>1. IdleCall \in Calls
  BY IdleCallType
<1>2. history \in Seq(Entries) /\ LogEnd = 0
  BY DEF VerbInit, LogEnd
<1>3. VerbTypes
  BY <1>1, <1>2 DEF VerbInit, VerbTypes, HasLast, Mine
<1>4. LogIsHistory
  BY <1>2, VerbBoundsAssumption DEF VerbInit, LogIsHistory, Slot
<1>5. \A c \in Call : By(c) = {}
  BY <1>2 DEF By
<1>6. ASSUME NEW c \in Call, NEW k \in {call[c]} PROVE CallOk(c, k)
  <2>1. k.pc = "idle" /\ k.out = "none" /\ ~k.overtaken
    BY IdleCallType DEF VerbInit
  <2>2. QED
    BY <1>5, <2>1 DEF CallOk, SoundCall, SoundPlan, WritesOnce, WritesAll, SoundWindow,
         TrueVerdict, Running
<1>7. FirstWins /\ LateOk
  BY <1>2 DEF FirstWins, VerbInit, LateOk
<1>8. QED
  BY <1>3, <1>4, <1>6, <1>7 DEF VerbInv

(* A call that ends.                                                       *)
EndFits(c, out, o) ==
  /\ out \in {"ok", "exists", "replayed", "notfound", "refused", "conflict", "ambiguous", "failed"}
  /\ o \in BOOLEAN /\ (call[c].overtaken => o)
  /\ out \in {"refused", "notfound"} => By(c) = {}
  /\ ~o =>
       /\ out \in {"exists", "replayed", "conflict"} => By(c) = {}
       /\ out = "ok" => \A d \in Docs : Target(call[c], d) => Written(c, d)
       /\ out = "failed" => \E d \in Docs : Target(call[c], d) /\ ~Written(c, d)
       /\ out \in {"exists", "replayed"} =>
            \E n \in call[c].start .. LogEnd : \A d \in call[c].req.docs :
              IF out = "replayed" THEN RowAt(d, n) = call[c].req.content ELSE RowAt(d, n) # Absent

Ended(c, out, o) ==
  [IdleCall EXCEPT !.pc = "done", !.req = call[c].req, !.start = call[c].start, !.out = out,
                   !.overtaken = o]

LEMMA EndOk ==
  ASSUME VerbInv, NEW c \in Call, call[c].pc \in Running, NEW out, NEW o, EndFits(c, out, o)
  PROVE  \E k \in Calls :
           /\ k = Ended(c, out, o) /\ CallOk(c, k)
           /\ k.overtaken = o /\ k.pc = "done" /\ k.out = out
<1> DEFINE k == Ended(c, out, o)
<1>1. call[c] \in Calls /\ CallOk(c, call[c])
  BY CallType
<1>2. /\ k \in Calls /\ k.pc = "done" /\ k.out = out /\ k.req = call[c].req
      /\ k.start = call[c].start /\ k.overtaken = o
  BY <1>1, IdleCallType DEF Calls, EndFits, Ended
<1>3. k = Ended(c, out, o)
  OBVIOUS
<1> HIDE DEF k
<1>4. \A d : Target(k, d) <=> Target(call[c], d)
  BY <1>2 DEF Target
<1>5. SoundCall(k) /\ SoundPlan(c, k) /\ SoundWindow(k)
  BY <1>1, <1>2 DEF CallOk, SoundCall, SoundPlan, SoundWindow, Running
<1>6. WritesOnce(c, k)
  BY <1>1, <1>2 DEF CallOk, WritesOnce, Running, EndFits
<1>7. WritesAll(c, k)
  BY <1>2, <1>4 DEF WritesAll, Running, EndFits
<1>8. TrueVerdict(k)
  BY <1>2 DEF TrueVerdict, EndFits
<1>9. CallOk(c, k)
  BY <1>5, <1>6, <1>7, <1>8 DEF CallOk
<1>10. QED
  BY <1>2, <1>3, <1>9

LEMMA EndInv ==
  ASSUME VerbInv, NEW c \in Call, call[c].pc \in Running, NEW out, NEW o, EndFits(c, out, o),
         call[c].pc = "resolve" => call[c].at < LogEnd \/ out = "ambiguous",
         EndCall(c, out, o), UNCHANGED Bucket
  PROVE  VerbInv'
<1>1. PICK k \in Calls :
        /\ k = Ended(c, out, o) /\ CallOk(c, k)
        /\ k.overtaken = o /\ k.pc = "done" /\ k.out = out
  BY EndOk
<1>2. call' = [call EXCEPT ![c] = k]
  BY <1>1 DEF EndCall, Ended
<1>3. call[c].overtaken => k.overtaken
  BY <1>1 DEF EndFits
<1>4. call[c].pc # "done" /\ k.pc # "idle"
  BY <1>1 DEF Running
<1>5. QED
  BY <1>1, <1>2, <1>3, <1>4, CallMoves

(* A plan made from a read of the whole log.                               *)
LEMMA PlanInv ==
  ASSUME VerbInv, NEW c \in Call, call[c].pc = "idle", NEW r \in Request,
         NEW writes \in SUBSET Entries, Plan(c, r, writes), UNCHANGED Bucket,
         \A e \in writes : e.by = c /\ (e.op = "I" <=> r.verb \in Inserts),
         \A e, f \in writes : e.doc = f.doc => e = f,
         r.verb \in Inserts =>
           \E e \in Entries : writes = {e} /\ r.docs = {e.doc} /\ Row(e.doc) = Absent,
         r.verb \notin Inserts =>
           /\ \A d \in r.docs : Row(d) # Absent => \E e \in writes : e.doc = d
           /\ \A e \in writes : e.doc \in r.docs /\ Row(e.doc) # Absent
  PROVE  VerbInv'
<1> DEFINE k == [IdleCall EXCEPT !.pc = "planned", !.req = r, !.start = LogEnd,
                                 !.absentBelow = LogEnd, !.todo = writes]
<1>1. VerbTypes /\ call[c] \in Calls /\ CallOk(c, call[c]) /\ LogEnd \in Nat
  BY CallType, HistoryType
<1>2. /\ k \in Calls /\ k.pc = "planned" /\ k.out = "none" /\ k.req = r /\ k.start = LogEnd
      /\ k.absentBelow = LogEnd /\ k.todo = writes /\ k.at = 0 /\ k.window = <<>>
  BY <1>1, IdleCallType DEF Calls
<1>3. call' = [call EXCEPT ![c] = k]
  BY DEF Plan
<1> HIDE DEF k
<1>4. By(c) = {} /\ \A d : ~Written(c, d)
  BY <1>1 DEF CallOk, WritesOnce, Written
<1>5. SoundCall(k)
  BY <1>1, <1>2 DEF SoundCall
<1>6. SoundPlan(c, k)
  <2>1. LogEnd \in 0..LogEnd
    BY <1>1
  <2>2. \A e \in writes : Target(k, e.doc)
    BY <1>2, <2>1 DEF Target, Row
  <2>3. QED
    BY <1>2, <2>2 DEF SoundPlan
<1>7. WritesOnce(c, k)
  BY <1>2, <1>4 DEF WritesOnce
<1>8. ASSUME NEW d \in Docs, Target(k, d) PROVE \E e \in writes : e.doc = d
  <2>1. d \in r.docs
    BY <1>2, <1>8 DEF Target
  <2>2. CASE r.verb \in Inserts
    BY <2>1, <2>2
  <2>3. CASE r.verb \notin Inserts
    BY <1>2, <1>8, <2>1, <2>3 DEF Target, Row
  <2>4. QED
    BY <2>2, <2>3
<1>9. WritesAll(c, k)
  BY <1>2, <1>8 DEF WritesAll
<1>10. SoundWindow(k)
  BY <1>2 DEF SoundWindow, Row
<1>11. TrueVerdict(k)
  BY <1>2 DEF TrueVerdict
<1>12. CallOk(c, k)
  BY <1>5, <1>6, <1>7, <1>9, <1>10, <1>11 DEF CallOk
<1>13. call[c].overtaken => k.overtaken
  BY <1>1 DEF CallOk, SoundCall
<1>14. call[c].pc # "done" /\ call[c].pc # "resolve" /\ k.pc # "idle"
  BY <1>2
<1>15. QED
  BY <1>2, <1>3, <1>12, <1>13, <1>14, CallMoves

(* A call that ends with its read.                                         *)
LEMMA EndAtOnceInv ==
  ASSUME VerbInv, NEW c \in Call, call[c].pc = "idle", NEW r \in Request,
         NEW out \in {"exists", "replayed", "notfound"}, UNCHANGED Bucket,
         call' = [call EXCEPT ![c] = [IdleCall EXCEPT
                    !.pc = "done", !.req = r, !.start = LogEnd, !.out = out]],
         out = "exists" => \A d \in r.docs : Row(d) # Absent,
         out = "replayed" => \A d \in r.docs : Row(d) = r.content
  PROVE  VerbInv'
<1> DEFINE k == [IdleCall EXCEPT !.pc = "done", !.req = r, !.start = LogEnd, !.out = out]
<1>1. VerbTypes /\ call[c] \in Calls /\ CallOk(c, call[c]) /\ LogEnd \in Nat
  BY CallType, HistoryType
<1>2. /\ k \in Calls /\ k.pc = "done" /\ k.out = out /\ k.req = r /\ k.start = LogEnd
      /\ call' = [call EXCEPT ![c] = k]
  BY <1>1, IdleCallType DEF Calls
<1> HIDE DEF k
<1>3. By(c) = {}
  BY <1>1 DEF CallOk, WritesOnce
<1>4. SoundCall(k) /\ SoundPlan(c, k) /\ SoundWindow(k) /\ WritesAll(c, k)
  BY <1>1, <1>2 DEF SoundCall, SoundPlan, SoundWindow, WritesAll, Running
<1>5. WritesOnce(c, k)
  BY <1>2, <1>3 DEF WritesOnce
<1>6. LogEnd \in k.start .. LogEnd
  BY <1>1, <1>2
<1>7. TrueVerdict(k)
  BY <1>2, <1>6 DEF TrueVerdict, Row
<1>8. CallOk(c, k)
  BY <1>4, <1>5, <1>7 DEF CallOk
<1>9. call[c].overtaken => k.overtaken
  BY <1>1 DEF CallOk, SoundCall
<1>10. call[c].pc # "done" /\ call[c].pc # "resolve" /\ k.pc # "idle"
  BY <1>2
<1>11. QED
  BY <1>2, <1>8, <1>9, <1>10, CallMoves

LEMMA EntryOk ==
  ASSUME NEW c \in Call, NEW d \in Docs, NEW op \in {"I", "U", "D"}, NEW body,
         body \in Body \/ (op = "D" /\ body = Absent)
  PROVE  /\ Entry(c, d, op, body) \in Entries /\ Entry(c, d, op, body).doc = d
         /\ Entry(c, d, op, body).op = op /\ Entry(c, d, op, body).by = c
BY DEF Entry, Entries

LEMMA BeginInsertInv ==
  ASSUME VerbInv, NEW c \in Call, NEW r \in Request, BeginInsert(c, r) PROVE VerbInv'
<1>1. PICK d \in r.docs :
        IF Row(d) # Absent
        THEN call' = [call EXCEPT ![c] = [IdleCall EXCEPT
                        !.pc = "done", !.req = r, !.start = LogEnd,
                        !.out = IF Replays(r, Row(d)) THEN "replayed" ELSE "exists"]]
        ELSE Plan(c, r, {Entry(c, d, "I", r.content)})
  BY DEF BeginInsert
<1>2. call[c].pc = "idle" /\ r.verb \in Inserts /\ UNCHANGED Bucket
  BY DEF BeginInsert
<1>3. d \in Docs /\ r.docs = {d} /\ r.content \in Body
  BY <1>2, RequestAssumption
<1>4. CASE Row(d) # Absent
  <2>1. CASE Replays(r, Row(d))
    <3>1. Row(d) = r.content
      BY <2>1 DEF Replays
    <3>2. call' = [call EXCEPT ![c] = [IdleCall EXCEPT
                     !.pc = "done", !.req = r, !.start = LogEnd, !.out = "replayed"]]
      BY <1>1, <1>4, <2>1
    <3>3. QED
      BY <1>2, <1>3, <3>1, <3>2, EndAtOnceInv
  <2>2. CASE ~Replays(r, Row(d))
    <3>1. call' = [call EXCEPT ![c] = [IdleCall EXCEPT
                     !.pc = "done", !.req = r, !.start = LogEnd, !.out = "exists"]]
      BY <1>1, <1>4, <2>2
    <3>2. QED
      BY <1>2, <1>3, <1>4, <3>1, EndAtOnceInv
  <2>3. QED
    BY <2>1, <2>2
<1>5. CASE Row(d) = Absent
  <2> DEFINE e == Entry(c, d, "I", r.content)
  <2>1. e \in Entries /\ e.doc = d /\ e.op = "I" /\ e.by = c
    BY <1>3, EntryOk
  <2>2. Plan(c, r, {e})
    BY <1>1, <1>5
  <2> HIDE DEF e
  <2>3. QED
    BY <1>2, <1>3, <1>5, <2>1, <2>2, PlanInv
<1>6. QED
  BY <1>4, <1>5

(* The writes of a verb that maps every matched document to one entry.     *)
LEMMA MatchedPlanInv ==
  ASSUME VerbInv, NEW c \in Call, call[c].pc = "idle", NEW r \in Request, r.verb \notin Inserts,
         NEW op \in {"U", "D"}, NEW body,
         \A d \in Matched(r) : body[d] \in Body \/ (op = "D" /\ body[d] = Absent),
         Plan(c, r, {Entry(c, d, op, body[d]) : d \in Matched(r)}), UNCHANGED Bucket
  PROVE  VerbInv'
<1> DEFINE writes == {Entry(c, d, op, body[d]) : d \in Matched(r)}
<1>1. Matched(r) \subseteq Docs /\ \A d \in r.docs : Row(d) # Absent => d \in Matched(r)
  BY RequestAssumption DEF Matched
<1>2. \A d \in Matched(r) :
         /\ Entry(c, d, op, body[d]) \in Entries /\ Entry(c, d, op, body[d]).doc = d
         /\ Entry(c, d, op, body[d]).op = op /\ Entry(c, d, op, body[d]).by = c
  BY <1>1, EntryOk
<1>3. writes \in SUBSET Entries
  BY <1>2
<1>4. \A e \in writes : e.by = c /\ e.op # "I"
  BY <1>2
<1>5. \A e, f \in writes : e.doc = f.doc => e = f
  BY <1>2
<1>6. /\ \A d \in r.docs : Row(d) # Absent => \E e \in writes : e.doc = d
      /\ \A e \in writes : e.doc \in r.docs /\ Row(e.doc) # Absent
  BY <1>1, <1>2 DEF Matched
<1>7. Plan(c, r, writes)
  OBVIOUS
<1> HIDE DEF writes
<1>8. QED
  BY <1>3, <1>4, <1>5, <1>6, <1>7, PlanInv

LEMMA MatchedRow ==
  ASSUME VerbInv, NEW r \in Request, NEW d \in Matched(r)
  PROVE  Row(d) \in Body
<1>1. d \in Docs /\ Row(d) # Absent /\ LogEnd \in 0..LogEnd /\ VerbTypes
  BY RequestAssumption, HistoryType DEF Matched, VerbInv
<1>2. QED
  BY <1>1, RowType DEF Row

LEMMA BeginUpdateInv ==
  ASSUME VerbInv, NEW c \in Call, NEW r \in Request, BeginUpdate(c, r) PROVE VerbInv'
<1>1. call[c].pc = "idle" /\ r.verb = "update" /\ r.verb \notin Inserts /\ UNCHANGED Bucket
  BY DEF BeginUpdate, Inserts
<1>2. PICK fs \in SUBSET Field : r.content \in [fs -> Value]
  BY <1>1, RequestAssumption
<1>3. ASSUME NEW d \in Matched(r) PROVE MergeFlat(Row(d), r.content) \in Body
  <2>1. Row(d) \in [Field -> Value]
    BY MatchedRow DEF Body
  <2>2. QED
    BY <1>2, <2>1 DEF MergeFlat, Body
<1> DEFINE body == [d \in Matched(r) |-> MergeFlat(Row(d), r.content)]
<1>4. \A d \in Matched(r) : body[d] = MergeFlat(Row(d), r.content) /\ body[d] \in Body
  BY <1>3
<1> HIDE DEF body
<1>5. {Entry(c, d, "U", MergeFlat(Row(d), r.content)) : d \in Matched(r)}
      = {Entry(c, d, "U", body[d]) : d \in Matched(r)}
  BY <1>4
<1>6. Plan(c, r, {Entry(c, d, "U", body[d]) : d \in Matched(r)})
  BY <1>5 DEF BeginUpdate
<1>7. QED
  BY <1>1, <1>4, <1>6, MatchedPlanInv

LEMMA BeginDeleteInv ==
  ASSUME VerbInv, NEW c \in Call, NEW r \in Request, BeginDelete(c, r) PROVE VerbInv'
<1>1. call[c].pc = "idle" /\ r.verb \notin Inserts /\ UNCHANGED Bucket
  BY DEF BeginDelete, Inserts
<1> DEFINE body == [d \in Matched(r) |-> Absent]
<1>2. \A d \in Matched(r) : body[d] = Absent
  OBVIOUS
<1> HIDE DEF body
<1>3. {Entry(c, d, "D", Absent) : d \in Matched(r)} = {Entry(c, d, "D", body[d]) : d \in Matched(r)}
  BY <1>2
<1>4. Plan(c, r, {Entry(c, d, "D", body[d]) : d \in Matched(r)})
  BY <1>3 DEF BeginDelete
<1>5. QED
  BY <1>1, <1>2, <1>4, MatchedPlanInv

LEMMA BeginReplaceInv ==
  ASSUME VerbInv, NEW c \in Call, NEW r \in Request, BeginReplace(c, r) PROVE VerbInv'
<1>1. call[c].pc = "idle" /\ r.verb \notin Inserts /\ UNCHANGED Bucket /\ r.content \in Body
  BY RequestAssumption DEF BeginReplace, Inserts
<1>2. CASE Matched(r) = {}
  BY <1>1, <1>2, EndAtOnceInv DEF BeginReplace
<1>3. CASE Matched(r) # {}
  <2> DEFINE body == [d \in Matched(r) |-> r.content]
  <2>1. \A d \in Matched(r) : body[d] = r.content
    OBVIOUS
  <2> HIDE DEF body
  <2>2. {Entry(c, d, "U", r.content) : d \in Matched(r)} = {Entry(c, d, "U", body[d]) : d \in Matched(r)}
    BY <2>1
  <2>3. Plan(c, r, {Entry(c, d, "U", body[d]) : d \in Matched(r)})
    BY <1>3, <2>2 DEF BeginReplace
  <2>4. QED
    BY <1>1, <2>1, <2>3, MatchedPlanInv
<1>4. QED
  BY <1>2, <1>3

LEMMA RefuseInv == ASSUME VerbInv, NEW c \in Call, Refuse(c) PROVE VerbInv'
<1>1. /\ call[c].pc = "planned" /\ call[c] \in Calls /\ CallOk(c, call[c])
      /\ call[c].pc \in Running /\ UNCHANGED Bucket /\ EndCall(c, "refused", call[c].overtaken)
  BY CallType DEF Refuse, Running, EndWith
<1>2. EndFits(c, "refused", call[c].overtaken)
  BY <1>1 DEF CallOk, WritesOnce, EndFits, Calls
<1>3. QED
  BY <1>1, <1>2, EndInv

LEMMA AcceptInv == ASSUME VerbInv, NEW c \in Call, Accept(c) PROVE VerbInv'
<1>1. /\ call[c].pc = "planned" /\ call[c] \in Calls /\ CallOk(c, call[c])
      /\ call[c].pc \in Running /\ UNCHANGED Bucket
  BY CallType DEF Accept, Running
<1>2. CASE call[c].todo = {}
  <2>1. ~call[c].overtaken => \A d \in Docs : Target(call[c], d) => Written(c, d)
    BY <1>1, <1>2 DEF CallOk, WritesAll
  <2>2. EndCall(c, "ok", call[c].overtaken)
    BY <1>2 DEF Accept, EndWith
  <2>3. EndFits(c, "ok", call[c].overtaken)
    BY <1>1, <2>1 DEF EndFits, Calls
  <2>4. QED
    BY <1>1, <2>2, <2>3, EndInv
<1>3. CASE call[c].todo # {}
  <2> DEFINE k == [call[c] EXCEPT !.pc = "next"]
  <2>1. /\ k \in Calls /\ k.pc = "next" /\ k.out = call[c].out /\ k.req = call[c].req
        /\ k.start = call[c].start /\ k.absentBelow = call[c].absentBelow /\ k.at = call[c].at
        /\ k.window = call[c].window /\ k.todo = call[c].todo /\ k.overtaken = call[c].overtaken
    BY <1>1 DEF Calls
  <2>2. call' = [call EXCEPT ![c] = k]
    BY <1>1, <1>3 DEF Accept, VerbInv, VerbTypes
  <2> HIDE DEF k
  <2>3. SoundCall(k)
    BY <1>1, <2>1 DEF CallOk, SoundCall, Running
  <2>6. \A d : Target(k, d) <=> Target(call[c], d)
    BY <2>1 DEF Target
  <2>4. SoundPlan(c, k)
    BY <1>1, <1>3, <2>1, <2>6 DEF CallOk, SoundPlan, Running
  <2>5. WritesOnce(c, k)
    BY <1>1, <2>1 DEF CallOk, WritesOnce, SoundCall, Running
  <2>7. WritesAll(c, k)
    BY <1>1, <2>1, <2>6 DEF CallOk, WritesAll, SoundCall
  <2>8. SoundWindow(k) /\ TrueVerdict(k)
    BY <1>1, <2>1 DEF CallOk, SoundWindow, SoundCall, TrueVerdict, Running
  <2>9. QED
    BY <1>1, <2>1, <2>2, <2>3, <2>4, <2>5, <2>7, <2>8, CallMoves DEF CallOk
<1>4. QED
  BY <1>2, <1>3

-----------------------------------------------------------------------------
(* The steps of a commit that write nothing.                               *)

(* A call moves on inside its commit, with its plan as it was.             *)
LEMMA CommitMoves ==
  ASSUME VerbInv, NEW c \in Call, call[c].pc \in {"next", "window", "create", "resolve"},
         NEW k \in Calls,
         k.pc \in {"window", "create"}, k.out = call[c].out, k.req = call[c].req,
         k.start = call[c].start, k.todo = call[c].todo, k.absentBelow = call[c].absentBelow,
         call[c].overtaken => k.overtaken, k.at <= LogEnd,
         k.pc = "window" => k.req.verb \in Inserts,
         k.pc = "create" /\ k.req.verb \notin Inserts => k.window # <<>> /\ k.window[1] \in k.todo,
         k.req.verb \in Inserts /\ ~k.overtaken =>
           /\ Len(k.window) = k.at - k.start
           /\ \A i \in 1..Len(k.window) : k.window[i] = history[k.start + i]
           /\ k.pc = "create" => \A d \in k.req.docs : RowAt(d, k.at) = Absent,
         call[c].pc = "resolve" => call[c].at < LogEnd,
         call[c].pc = "resolve" /\ ~k.overtaken =>
           \A n \in By(c) : history[n].doc # PendingOf(call[c]).doc /\ k.req.verb \notin Inserts,
         call' = [call EXCEPT ![c] = k], UNCHANGED Bucket
  PROVE  VerbInv'
<1>1. /\ CallOk(c, call[c]) /\ call[c].pc \in Running /\ call[c].pc # "check" /\ call[c].pc # "done"
      /\ k.pc # "idle"
  BY CallType DEF Running
<1>2. SoundCall(k)
  BY <1>1 DEF CallOk, SoundCall
<1>3. \A d : Target(k, d) <=> Target(call[c], d)
  BY DEF Target
<1>4. SoundPlan(c, k)
  BY <1>1, <1>3 DEF CallOk, SoundPlan, Running
<1>5. WritesOnce(c, k)
  <2>1. CASE call[c].pc # "resolve"
    BY <1>1, <2>1 DEF CallOk, WritesOnce, SoundCall
  <2>2. CASE call[c].pc = "resolve"
    <3>1. ~k.overtaken => \A n \in By(c) : \A e \in k.todo : history[n].doc # e.doc
      BY <1>1, <2>2 DEF CallOk, WritesOnce
    <3>2. ~k.overtaken /\ k.req.verb \in Inserts => By(c) = {}
      BY <2>2
    <3>3. QED
      BY <1>1, <2>2, <3>1, <3>2 DEF CallOk, WritesOnce, SoundCall
  <2>3. QED
    BY <2>1, <2>2
<1>6. WritesAll(c, k)
  BY <1>1, <1>3 DEF CallOk, WritesAll, SoundCall, Running
<1>7. SoundWindow(k)
  BY <1>1 DEF CallOk, SoundWindow
<1>8. TrueVerdict(k)
  BY <1>1 DEF CallOk, SoundCall, TrueVerdict
<1>9. QED
  BY <1>1, <1>2, <1>4, <1>5, <1>6, <1>7, <1>8, CallMoves DEF CallOk

LEMMA ProbeTailInv == ASSUME VerbInv, NEW c \in Call, ProbeTail(c) PROVE VerbInv'
<1>1. PICK e \in call[c].todo :
        call' = [call EXCEPT ![c].pc = "create", ![c].at = LogEnd, ![c].window = <<e>>]
  BY DEF ProbeTail
<1>2. /\ call[c].pc = "next" /\ call[c].req.verb \notin Inserts /\ UNCHANGED Bucket
      /\ call[c] \in Calls /\ LogEnd \in Nat
  BY CallType, HistoryType DEF ProbeTail
<1>3. e \in Entries
  BY <1>2 DEF Calls
<1>4. <<e>> \in Seq(Entries) /\ <<e>> # <<>> /\ <<e>>[1] = e
  BY <1>3
<1> DEFINE w == <<e>>
           k == [call[c] EXCEPT !.pc = "create", !.at = LogEnd, !.window = w]
<1>5. call' = [call EXCEPT ![c] = k]
  BY <1>1 DEF VerbInv, VerbTypes
<1>6. w \in Seq(Entries) /\ w # <<>> /\ w[1] = e
  BY <1>4
<1> HIDE DEF w
<1>7. /\ k \in Calls /\ k.pc = "create" /\ k.out = call[c].out /\ k.req = call[c].req
      /\ k.start = call[c].start /\ k.absentBelow = call[c].absentBelow /\ k.at = LogEnd
      /\ k.window = w /\ k.todo = call[c].todo /\ k.overtaken = call[c].overtaken
  BY <1>2, <1>6 DEF Calls
<1> HIDE DEF k
<1>8. k.at <= LogEnd /\ k.req.verb \notin Inserts /\ k.window # <<>> /\ k.window[1] \in k.todo
  BY <1>2, <1>6, <1>7
<1>9. QED
  BY <1>2, <1>5, <1>7, <1>8, CommitMoves

LEMMA OpenWindowInv == ASSUME VerbInv, NEW c \in Call, OpenWindow(c) PROVE VerbInv'
<1> DEFINE k == [call[c] EXCEPT !.pc = "window", !.floor = foldedTo, !.at = call[c].absentBelow]
<1>1. /\ call[c].pc = "next" /\ call[c].req.verb \in Inserts /\ UNCHANGED Bucket
      /\ call[c] \in Calls /\ LogEnd \in Nat /\ foldedTo \in Nat /\ CallOk(c, call[c])
      /\ call[c].absentBelow \in Nat /\ call[c].start \in Nat
  BY CallType, HistoryType DEF OpenWindow, VerbTypes, Calls
<1>2. call' = [call EXCEPT ![c] = k]
  BY <1>1 DEF OpenWindow, VerbInv, VerbTypes
<1>3. /\ k \in Calls /\ k.pc = "window" /\ k.out = call[c].out /\ k.req = call[c].req
      /\ k.start = call[c].start /\ k.absentBelow = call[c].absentBelow
      /\ k.at = call[c].absentBelow
      /\ k.window = call[c].window /\ k.todo = call[c].todo /\ k.overtaken = call[c].overtaken
  BY <1>1 DEF Calls
<1> HIDE DEF k
<1>4. k.at = k.start /\ k.start <= LogEnd /\ k.window = <<>>
  BY <1>1, <1>3 DEF CallOk, SoundWindow, SoundCall, Running
<1>5. Len(k.window) = k.at - k.start /\ Len(k.window) = 0
  BY <1>1, <1>3, <1>4
<1>6. \A i \in 1..Len(k.window) : k.window[i] = history[k.start + i]
  BY <1>5
<1>7. QED
  BY <1>1, <1>2, <1>3, <1>4, <1>5, <1>6, CommitMoves

(* The slot a call reads, or loses to: its object joins the window.        *)
LEMMA Joins ==
  ASSUME VerbInv, NEW c \in Call, call[c].pc \in {"window", "resolve"},
         call[c].req.verb \in Inserts, call[c].at \in Slot, slots[call[c].at] # Absent
  PROVE  /\ slots[call[c].at] \in Entries /\ call[c].at + 1 <= LogEnd
         /\ Append(call[c].window, slots[call[c].at]) \in Seq(Entries)
         /\ ~call[c].overtaken /\ ~(call[c].at < certified) =>
              /\ Len(Append(call[c].window, slots[call[c].at])) = (call[c].at + 1) - call[c].start
              /\ \A i \in 1..Len(Append(call[c].window, slots[call[c].at])) :
                   Append(call[c].window, slots[call[c].at])[i] = history[call[c].start + i]
<1> DEFINE w == call[c].window
           at == call[c].at
           e == slots[at]
<1>1. /\ call[c] \in Calls /\ CallOk(c, call[c]) /\ LogIsHistory /\ LogEnd \in Nat
      /\ certified \in Nat /\ slots \in [Slot -> Entries \cup {Absent}]
  BY CallType, HistoryType DEF VerbTypes
<1>2. at \in Nat /\ w \in Seq(Entries) /\ e \in Entries /\ call[c].start \in Nat
  BY <1>1 DEF Calls
<1>3. at < LogEnd
  BY <1>1, <1>2 DEF LogIsHistory
<1>4. Append(w, e) \in Seq(Entries) /\ Len(Append(w, e)) = Len(w) + 1
      /\ (\A i \in 1..Len(w) : Append(w, e)[i] = w[i]) /\ Append(w, e)[Len(w) + 1] = e
      /\ Len(w) \in Nat
  BY <1>2, AppendProperties
<1>5. ASSUME ~call[c].overtaken, ~(at < certified)
      PROVE  /\ Len(Append(w, e)) = (at + 1) - call[c].start
             /\ \A i \in 1..Len(Append(w, e)) : Append(w, e)[i] = history[call[c].start + i]
  <2>1. Len(w) = at - call[c].start /\ \A i \in 1..Len(w) : w[i] = history[call[c].start + i]
    BY <1>1, <1>5 DEF CallOk, SoundWindow, Running
  <2>2. e = history[at + 1]
    BY <1>1, <1>2, <1>3, <1>5 DEF LogIsHistory
  <2>3. call[c].start + (Len(w) + 1) = at + 1
    BY <1>2, <2>1
  <2>4. QED
    BY <1>2, <1>4, <2>1, <2>2, <2>3
<1>6. at + 1 <= LogEnd
  BY <1>1, <1>2, <1>3
<1>7. QED
  BY <1>2, <1>4, <1>5, <1>6

LEMMA WindowEntryInv == ASSUME VerbInv, NEW c \in Call, WindowEntry(c) PROVE VerbInv'
<1> DEFINE w == Append(call[c].window, slots[call[c].at])
           o == call[c].overtaken \/ call[c].at < certified
           n == call[c].at + 1
           k == [call[c] EXCEPT !.window = w, !.at = n, !.overtaken = o]
<1>1. /\ call[c].pc = "window" /\ call[c].at \in Slot /\ slots[call[c].at] # Absent
      /\ UNCHANGED Bucket /\ call[c] \in Calls /\ CallOk(c, call[c]) /\ call[c].at \in Nat
  BY CallType DEF WindowEntry, Calls
<1>2. call[c].req.verb \in Inserts
  BY <1>1 DEF CallOk, SoundCall
<1>3. call' = [call EXCEPT ![c] = k]
  BY <1>1 DEF WindowEntry, VerbInv, VerbTypes
<1>4. /\ w \in Seq(Entries) /\ call[c].at + 1 <= LogEnd
      /\ ~call[c].overtaken /\ ~(call[c].at < certified) =>
              /\ Len(w) = (call[c].at + 1) - call[c].start
              /\ \A i \in 1..Len(w) : w[i] = history[call[c].start + i]
  BY <1>1, <1>2, Joins
<1>5. o \in BOOLEAN /\ (call[c].overtaken => o) /\ (call[c].at < certified => o)
  BY <1>1 DEF Calls
<1>a. n \in Nat /\ n = call[c].at + 1 /\ w \in Seq(Entries)
  BY <1>1, <1>4
<1> HIDE DEF w, o, n
<1>6. /\ k \in Calls /\ k.pc = "window" /\ k.out = call[c].out /\ k.req = call[c].req
      /\ k.start = call[c].start /\ k.absentBelow = call[c].absentBelow
      /\ k.at = n /\ k.window = w /\ k.todo = call[c].todo /\ k.overtaken = o
  BY <1>1, <1>a, <1>5 DEF Calls
<1> HIDE DEF k
<1>7. QED
  BY <1>1, <1>2, <1>3, <1>4, <1>5, <1>6, <1>a, CommitMoves

LEMMA WindowRetiredInv == ASSUME VerbInv, NEW c \in Call, WindowRetired(c) PROVE VerbInv'
<1>1. /\ call[c].pc = "window" /\ call[c] \in Calls /\ CallOk(c, call[c])
      /\ call[c].pc \in Running /\ UNCHANGED Bucket /\ EndCall(c, "conflict", call[c].overtaken)
  BY CallType DEF WindowRetired, Running, EndWith
<1>2. EndFits(c, "conflict", call[c].overtaken)
  BY <1>1 DEF CallOk, WritesOnce, SoundCall, EndFits, Calls
<1>3. QED
  BY <1>1, <1>2, EndInv

LEMMA DecisionType ==
  ASSUME NEW c \in Call PROVE decideInsertTarget(c) \in {"absent", "exists", "replayed"}
<1> DEFINE w == call[c].window
           mine == {i \in DOMAIN w : {w[i].doc} = call[c].req.docs}
           last == CHOOSE i \in mine : \A j \in mine : j <= i
<1>1. decideInsertTarget(c) = IF mine = {} THEN "absent"
                              ELSE IF w[last].op = "D" THEN "absent"
                              ELSE IF Replays(call[c].req, w[last].body) THEN "replayed" ELSE "exists"
  BY DEF decideInsertTarget
<1> HIDE DEF mine, last
<1>2. QED
  BY <1>1

(* decideInsertTarget looks at the window only, and the window is the log  *)
(* since the absence check: its verdict is about the row as of the slot    *)
(* the window has reached.                                                 *)
LEMMA DecisionIsTrue ==
  ASSUME VerbInv, NEW c \in Call, call[c].pc = "window", ~call[c].overtaken,
         NEW d \in Docs, call[c].req.docs = {d}, NEW at, at = call[c].at
  PROVE  /\ decideInsertTarget(c) = "absent" => RowAt(d, at) = Absent
         /\ decideInsertTarget(c) = "exists" => RowAt(d, at) # Absent
         /\ decideInsertTarget(c) = "replayed" => RowAt(d, at) = call[c].req.content
<1> DEFINE w == call[c].window
           start == call[c].start
           mine == {i \in DOMAIN w : {w[i].doc} = call[c].req.docs}
           last == CHOOSE i \in mine : \A j \in mine : j <= i
<1>1. /\ call[c] \in Calls /\ CallOk(c, call[c]) /\ VerbTypes /\ LogEnd \in Nat
      /\ \A i \in 1..LogEnd : history[i] \in Entries
  BY CallType, HistoryType
<1>2. call[c].req.verb \in Inserts /\ call[c].pc \in Running /\ at <= LogEnd /\ start <= LogEnd
  BY <1>1 DEF CallOk, SoundCall, Running
<1>3. /\ Len(w) = at - start /\ \A i \in 1..Len(w) : w[i] = history[start + i]
      /\ RowAt(d, start) = Absent
  BY <1>1, <1>2 DEF CallOk, SoundWindow
<1>4. start \in Nat /\ at \in Nat /\ w \in Seq(Entries) /\ Len(w) \in Nat /\ DOMAIN w = 1..Len(w)
  BY <1>1 DEF Calls
<1>5. at \in 0..LogEnd /\ start \in 0..LogEnd
  BY <1>1, <1>2, <1>4
<1>6. ASSUME NEW i \in 1..Len(w) PROVE start + i \in 1..at /\ start + i \in 1..LogEnd
  BY <1>1, <1>2, <1>3, <1>4, <1>6
<1>7. mine = {i \in 1..Len(w) : history[start + i].doc = d}
  BY <1>3, <1>4
<1>8. decideInsertTarget(c) = IF mine = {} THEN "absent"
                              ELSE IF w[last].op = "D" THEN "absent"
                              ELSE IF Replays(call[c].req, w[last].body) THEN "replayed" ELSE "exists"
  BY DEF decideInsertTarget
<1> HIDE DEF mine
<1>9. CASE mine = {}
  <2>1. ASSUME NEW j \in Mine(d, at) PROVE j \in Mine(d, start)
    <3>1. j \in 1..at /\ history[j].doc = d
      BY <2>1 DEF Mine
    <3>2. CASE j > start
      <4>1. j - start \in 1..Len(w) /\ start + (j - start) = j
        BY <1>3, <1>4, <3>1, <3>2
      <4>2. j - start \in mine
        BY <1>7, <3>1, <4>1
      <4>3. QED
        BY <1>9, <4>2
    <3>3. CASE ~(j > start)
      BY <1>4, <3>1, <3>3 DEF Mine
    <3>4. QED
      BY <3>2, <3>3
  <2>2. Mine(d, start) \subseteq Mine(d, at)
    BY <1>3, <1>4, <1>5 DEF Mine
  <2>3. Mine(d, at) = Mine(d, start)
    BY <2>1, <2>2
  <2>4. RowAt(d, at) = RowAt(d, start)
    <3>1. CASE Mine(d, start) = {}
      BY <2>3, <3>1 DEF RowAt, Mine
    <3>2. CASE Mine(d, start) # {}
      <4> DEFINE top == CHOOSE i \in Mine(d, start) : \A j \in Mine(d, start) : j <= i
      <4>1. RowAt(d, start) = IF history[top].op = "D" THEN Absent ELSE history[top].body
        BY <3>2 DEF RowAt, Mine
      <4>2. RowAt(d, at) = IF history[top].op = "D" THEN Absent ELSE history[top].body
        <5>1. top = CHOOSE i \in Mine(d, at) : \A j \in Mine(d, at) : j <= i
          BY <2>3
        <5>2. Mine(d, at) # {}
          BY <2>3, <3>2
        <5> HIDE DEF top
        <5>3. QED
          BY <5>1, <5>2 DEF RowAt, Mine
      <4>3. QED
        BY <4>1, <4>2
    <3>3. QED
      BY <3>1, <3>2
  <2>5. QED
    BY <1>3, <1>8, <1>9, <2>4
<1>10. CASE mine # {}
  <2>1. PICK i0 \in mine : TRUE
    BY <1>10
  <2>2. start + i0 \in Mine(d, at)
    BY <1>6, <1>7, <2>1 DEF Mine
  <2>3. PICK m \in Mine(d, at) :
          /\ \A j \in Mine(d, at) : j <= m
          /\ RowAt(d, at) = IF history[m].op = "D" THEN Absent ELSE history[m].body
    BY <1>1, <1>5, <2>2, RowIsLast
  <2>4. m \in 1..at /\ history[m].doc = d /\ start + i0 <= m /\ i0 \in 1..Len(w)
    BY <1>7, <2>1, <2>2, <2>3 DEF Mine
  <2>5. m - start \in 1..Len(w) /\ start + (m - start) = m
    BY <1>3, <1>4, <2>4
  <2>6. m - start \in mine
    BY <1>7, <2>4, <2>5
  <2>7. ASSUME NEW j \in mine PROVE j <= m - start
    <3>1. start + j \in Mine(d, at) /\ j \in 1..Len(w)
      BY <1>6, <1>7, <2>7 DEF Mine
    <3>2. start + j <= m
      BY <2>3, <3>1
    <3>3. QED
      BY <1>4, <2>4, <3>1, <3>2
  <2>8. last \in mine /\ \A j \in mine : j <= last
    BY <2>6, <2>7
  <2>9. last = m - start
    <3>1. last \in Int /\ m - start \in Int
      BY <1>4, <1>7, <2>4, <2>8
    <3>2. last <= m - start /\ m - start <= last
      BY <2>6, <2>7, <2>8
    <3> HIDE DEF last
    <3>3. QED
      BY <3>1, <3>2
  <2>10. w[last] = history[m]
    BY <1>3, <2>5, <2>9
  <2>11. history[m] \in Entries
    BY <1>1, <1>5, <2>4
  <2>12. decideInsertTarget(c) = IF history[m].op = "D" THEN "absent"
                                 ELSE IF Replays(call[c].req, history[m].body) THEN "replayed" ELSE "exists"
    BY <1>8, <1>10, <2>10
  <2>13. QED
    BY <2>3, <2>11, <2>12, EntryType DEF Replays
<1>11. QED
  BY <1>9, <1>10

LEMMA WindowTailInv == ASSUME VerbInv, NEW c \in Call, WindowTail(c) PROVE VerbInv'
<1>1. /\ call[c].pc = "window" /\ UNCHANGED Bucket /\ call[c] \in Calls /\ CallOk(c, call[c])
      /\ call[c].pc \in Running /\ LogEnd \in Nat
  BY CallType, HistoryType DEF WindowTail, Running
<1>2. call[c].req.verb \in Inserts /\ call[c].req \in Request
  BY <1>1 DEF CallOk, SoundCall
<1>3. PICK d \in Docs : call[c].req.docs = {d}
  BY <1>2, RequestAssumption
<1>4. PICK at : at = call[c].at
  OBVIOUS
<1>5. CASE decideInsertTarget(c) = "absent"
  <2> DEFINE k == [call[c] EXCEPT !.pc = "create"]
  <2>1. call' = [call EXCEPT ![c] = k]
    BY <1>5 DEF WindowTail, VerbInv, VerbTypes
  <2>2. /\ k \in Calls /\ k.pc = "create" /\ k.out = call[c].out /\ k.req = call[c].req
        /\ k.start = call[c].start /\ k.absentBelow = call[c].absentBelow
        /\ k.at = call[c].at /\ k.window = call[c].window /\ k.todo = call[c].todo
        /\ k.overtaken = call[c].overtaken
    BY <1>1 DEF Calls
  <2> HIDE DEF k
  <2>3. k.at <= LogEnd
    BY <1>1, <2>2 DEF CallOk, SoundCall
  <2>4. ~k.overtaken =>
           /\ Len(k.window) = k.at - k.start
           /\ \A i \in 1..Len(k.window) : k.window[i] = history[k.start + i]
    BY <1>1, <1>2, <2>2 DEF CallOk, SoundWindow
  <2>5. ~k.overtaken => \A x \in k.req.docs : RowAt(x, k.at) = Absent
    BY <1>1, <1>3, <1>4, <1>5, <2>2, DecisionIsTrue
  <2>6. QED
    BY <1>1, <1>2, <2>1, <2>2, <2>3, <2>4, <2>5, CommitMoves
<1>6. CASE decideInsertTarget(c) # "absent"
  <2>1. PICK out \in {"exists", "replayed"} : out = decideInsertTarget(c)
    BY <1>6, DecisionType
  <2>2. EndCall(c, out, call[c].overtaken)
    BY <1>6, <2>1 DEF WindowTail, EndWith
  <2>3. ~call[c].overtaken => By(c) = {}
    BY <1>1, <1>2 DEF CallOk, WritesOnce
  <2>4. ASSUME ~call[c].overtaken
        PROVE  \E n \in call[c].start .. LogEnd : \A x \in call[c].req.docs :
                 IF out = "replayed" THEN RowAt(x, n) = call[c].req.content ELSE RowAt(x, n) # Absent
    <3>1. Len(call[c].window) = call[c].at - call[c].start /\ Len(call[c].window) \in Nat
          /\ call[c].at \in Nat /\ call[c].start \in Nat /\ call[c].at <= LogEnd
      BY <1>1, <1>2, <2>4 DEF CallOk, SoundWindow, SoundCall, Calls
    <3>2. at \in call[c].start .. LogEnd
      BY <1>1, <1>4, <3>1
    <3>3. IF out = "replayed" THEN RowAt(d, at) = call[c].req.content ELSE RowAt(d, at) # Absent
      BY <1>1, <1>3, <1>4, <2>1, <2>4, DecisionIsTrue
    <3>4. QED
      BY <1>3, <3>2, <3>3
  <2>5. EndFits(c, out, call[c].overtaken)
    BY <1>1, <2>3, <2>4 DEF EndFits, Calls
  <2>6. QED
    BY <1>1, <2>2, <2>5, EndInv
<1>7. QED
  BY <1>5, <1>6

-----------------------------------------------------------------------------
(* The create and what follows it.                                         *)

(* The entry a create puts is one of the plan's.                           *)
LEMMA PendingFacts ==
  ASSUME NEW c \in Call, NEW k \in Calls, SoundPlan(c, k),
         k.pc \in {"create", "resolve", "check"}
  PROVE  /\ PendingOf(k) \in k.todo /\ PendingOf(k) \in Entries /\ PendingOf(k).by = c
         /\ PendingOf(k).op = "I" <=> k.req.verb \in Inserts
         /\ k.req.verb \in Inserts => k.todo = {PendingOf(k)} /\ k.req.docs = {PendingOf(k).doc}
<1>1. k.todo \subseteq Entries /\ k.pc \in Running
  BY DEF Calls, Running
<1>2. CASE k.req.verb \in Inserts
  <2>1. PICK e \in Entries : k.todo = {e} /\ k.req.docs = {e.doc}
    BY <1>1, <1>2 DEF SoundPlan
  <2>2. PendingOf(k) = e
    BY <1>2, <2>1 DEF PendingOf
  <2>3. QED
    BY <1>1, <1>2, <2>1, <2>2 DEF SoundPlan
<1>3. CASE k.req.verb \notin Inserts
  <2>1. PendingOf(k) = k.window[1] /\ k.window[1] \in k.todo
    BY <1>1, <1>3 DEF SoundPlan, PendingOf
  <2>2. QED
    BY <1>1, <1>3, <2>1 DEF SoundPlan
<1>4. QED
  BY <1>2, <1>3

(* A create that lands is a commit, or it re-fills a slot below the delete *)
(* floor.                                                                  *)
LEMMA LandsWhere ==
  ASSUME VerbInv, NEW s \in Slot, s <= LogEnd, slots[s] = Absent, NEW e, Land(s, e)
  PROVE  \/ s = LogEnd /\ history' = Append(history, e)
         \/ history' = history /\ s < certified
<1>1. /\ LogEnd \in Nat /\ LogIsHistory /\ VerbTypes /\ s \in Nat /\ certified \in Nat
      /\ \A i \in 1..LogEnd : history[i] \in Entries
  BY HistoryType, VerbBoundsAssumption DEF VerbInv, VerbTypes, Slot
<1>2. CASE s = LogEnd
  BY <1>2 DEF Land
<1>3. CASE s # LogEnd
  <2>1. s < LogEnd /\ s + 1 \in 1..LogEnd
    BY <1>1, <1>3
  <2>2. history[s + 1] # Absent
    BY <1>1, <2>1, EntryType
  <2>3. s < certified
    BY <1>1, <2>1, <2>2 DEF LogIsHistory
  <2>4. QED
    BY <1>3, <2>3 DEF Land
<1>4. QED
  BY <1>2, <1>3

(* An entry of call c is an old one or the one appended.                   *)
LEMMA OwnEntries ==
  ASSUME VerbTypes, NEW e \in Entries, history' = Append(history, e), NEW c \in Call
  PROVE  \A n \in By(c)' : \/ n \in By(c) /\ history'[n] = history[n]
                           \/ n = LogEnd + 1 /\ history'[n] = e
<1>1. /\ LogEnd' = LogEnd + 1 /\ LogEnd \in Nat /\ history'[LogEnd + 1] = e
      /\ \A i \in 1..LogEnd : history'[i] = history[i]
  BY AppendEntry
<1>2. ASSUME NEW n \in By(c)' PROVE n \in 1..LogEnd' /\ history'[n].by = c
  BY <1>2 DEF By
<1>3. ASSUME NEW n \in By(c)'
      PROVE  \/ n \in By(c) /\ history'[n] = history[n]
             \/ n = LogEnd + 1 /\ history'[n] = e
  <2>1. n \in 1..LogEnd' /\ history'[n].by = c
    BY <1>2, <1>3
  <2>2. n = LogEnd + 1 \/ n \in 1..LogEnd
    BY <1>1, <2>1
  <2>3. QED
    BY <1>1, <2>1, <2>2 DEF By
<1>4. QED
  BY <1>3

(* The call after its create has landed.                                   *)
LEMMA LandedOk ==
  ASSUME VerbInv, NEW c \in Call, NEW k \in Calls, k = call[c], k.pc \in {"create", "resolve"},
         NEW p \in Entries, p = PendingOf(k), UNCHANGED certified,
         \/ k.at = LogEnd /\ history' = Append(history, p)
         \/ history' = history /\ k.at < certified,
         k.pc = "resolve" /\ ~k.overtaken => ~Written(c, p.doc),
         NEW k2 \in Calls, k2.pc \in {"check", "resolve"}, k2.out = "none", k.at \in Slot,
         k2.req = k.req, k2.start = k.start, k2.absentBelow = k.absentBelow, k2.at = k.at,
         k2.window = k.window, k2.todo = k.todo, k2.overtaken = k.overtaken
  PROVE  CallOk(c, k2)'
<1>1. /\ VerbTypes /\ CallOk(c, k) /\ LogEnd \in Nat /\ k.pc \in Running /\ k2.pc \in Running
      /\ k.start \in Nat /\ k.at \in Nat /\ certified \in Nat /\ k.pc # "idle"
  BY CallType, HistoryType DEF Running, Calls, VerbTypes
<1>2. p \in k.todo /\ p.by = c
  BY <1>1, PendingFacts DEF CallOk
<1>3. Grows
  BY <1>1, AppendGrows, HistoryKept
<1>4. /\ LogEnd' \in Nat /\ LogEnd <= LogEnd'
      /\ \A i \in 1..LogEnd : history'[i] = history[i]
  BY <1>3 DEF Grows
<1>5. \A n \in By(c) : n \in By(c)' /\ history'[n] = history[n]
  BY <1>1, <1>4 DEF By
<1>6. \A n \in By(c)' : \/ n \in By(c) /\ history'[n] = history[n]
                        \/ n = k.at + 1 /\ history'[n] = p
  <2>1. CASE k.at = LogEnd /\ history' = Append(history, p)
    BY <1>1, <2>1, OwnEntries
  <2>2. CASE history' = history
    BY <2>2 DEF By, LogEnd
  <2>3. QED
    BY <2>1, <2>2
<1>7. certified <= k.at => \E n \in By(c)' : history'[n] = p
  <2>1. CASE k.at = LogEnd /\ history' = Append(history, p)
    <3>1. LogEnd' = LogEnd + 1 /\ history'[LogEnd + 1] = p
      BY <1>1, <2>1, AppendEntry
    <3>2. LogEnd + 1 \in By(c)'
      BY <1>1, <1>2, <3>1 DEF By
    <3>3. QED
      BY <3>1, <3>2
  <2>2. CASE k.at < certified
    BY <1>1, <2>2
  <2>3. QED
    BY <2>1, <2>2
<1>8. /\ SoundCall(k)' /\ SoundPlan(c, k)' /\ SoundWindow(k)'
      /\ \A d \in Docs : Target(k, d)' <=> Target(k, d)
  BY <1>1, <1>3, CallFrame
<1>9. \A d \in Docs : Target(k2, d)' <=> Target(k, d)
  <2>1. \A d \in Docs : Target(k2, d)' <=> Target(k, d)'
    BY DEF Target
  <2>2. QED
    BY <1>8, <2>1
<1>11. PendingOf(k2) = p
  BY DEF PendingOf
<1>12. SoundCall(k2)'
  BY <1>1, <1>8 DEF SoundCall, Running
<1>13. SoundPlan(c, k2)'
  <2>1. \A x \in k.todo : Target(k2, x.doc)' <=> Target(k, x.doc)'
    BY DEF Target
  <2>2. QED
    BY <1>1, <1>8, <2>1 DEF SoundPlan
<1>14. WritesOnce(c, k2)'
  <2> SUFFICES ASSUME ~k.overtaken
               PROVE  /\ \A n \in By(c)' : \A x \in k.todo : x # p => history'[n].doc # x.doc
                      /\ \A n \in By(c)' : history'[n].doc = p.doc \/ k.req.verb \in Inserts =>
                           n = k.at + 1 /\ history'[n] = p
                      /\ \A m, n \in By(c)' : history'[m].doc = history'[n].doc => m = n
    BY <1>1, <1>11 DEF WritesOnce, Running
  <2>1. /\ \A n \in By(c) : \A x \in k.todo : x # p => history[n].doc # x.doc
        /\ \A m, n \in By(c) : history[m].doc = history[n].doc => m = n
    BY <1>1 DEF CallOk, WritesOnce
  <2>2. \A n \in By(c) : history[n].doc # p.doc /\ k.req.verb \notin Inserts
    <3>1. CASE k.pc = "create"
      BY <1>1, <1>2, <3>1 DEF CallOk, WritesOnce
    <3>2. CASE k.pc = "resolve"
      <4>1. \A n \in By(c) : history[n].doc # p.doc
        BY <3>2 DEF Written
      <4>2. \A n \in By(c) : k.req.verb \in Inserts => history[n] = p
        BY <1>1, <3>2 DEF CallOk, WritesOnce
      <4>3. QED
        BY <4>1, <4>2
    <3>3. QED
      BY <3>1, <3>2
  <2>3. \A x \in k.todo : x.doc = p.doc => x = p
    BY <1>1, <1>2 DEF CallOk, SoundPlan
  <2>4. \A n \in By(c)' : \A x \in k.todo : x # p => history'[n].doc # x.doc
    BY <1>6, <2>1, <2>3
  <2>5. \A n \in By(c)' : history'[n].doc = p.doc \/ k.req.verb \in Inserts =>
          n = k.at + 1 /\ history'[n] = p
    BY <1>6, <2>2
  <2>6. \A m, n \in By(c)' : history'[m].doc = history'[n].doc => m = n
    BY <1>6, <2>1, <2>2
  <2>7. QED
    BY <2>4, <2>5, <2>6
<1>15. WritesAll(c, k2)'
  <2>1. \A d : Written(c, d) => Written(c, d)'
    BY <1>5 DEF Written
  <2>2. ~k2.overtaken => \A d \in Docs : Target(k2, d)' =>
          Written(c, d)' \/ \E x \in k2.todo : x.doc = d
    BY <1>1, <1>9, <2>1 DEF CallOk, WritesAll
  <2>3. certified' <= k2.at => Written(c, PendingOf(k2).doc)'
    BY <1>7, <1>11 DEF Written
  <2>4. QED
    BY <2>2, <2>3 DEF WritesAll
<1>16. SoundWindow(k2)'
  BY <1>1, <1>8 DEF SoundWindow
<1>17. TrueVerdict(k2)'
  BY DEF TrueVerdict
<1>18. QED
  BY <1>12, <1>13, <1>14, <1>15, <1>16, <1>17 DEF CallOk

(* A call that was told nothing, after a send of its create has landed.    *)
LEMMA DeliveredOk ==
  ASSUME VerbInv, NEW c \in Call, NEW k \in Calls, k = call[c], k.pc = "done",
         k.out = "ambiguous", NEW p \in Entries, p.by = c, UNCHANGED certified,
         history' = Append(history, p), ~k.overtaken => ~Written(c, p.doc)
  PROVE  CallOk(c, k)'
<1>1. VerbTypes /\ CallOk(c, k) /\ LogEnd \in Nat
  BY CallType, HistoryType
<1>2. Grows
  BY <1>1, AppendGrows
<1>3. SoundCall(k)' /\ SoundPlan(c, k)' /\ SoundWindow(k)' /\ TrueVerdict(k)'
  BY <1>1, <1>2, CallFrame
<1>4. /\ LogEnd' = LogEnd + 1 /\ history'[LogEnd + 1] = p
      /\ \A i \in 1..LogEnd : history'[i] = history[i]
  BY <1>1, AppendEntry
<1>5. \A n \in By(c)' : \/ n \in By(c) /\ history'[n] = history[n]
                        \/ n = LogEnd + 1 /\ history'[n] = p
  BY <1>1, OwnEntries
<1>6. ASSUME ~k.overtaken PROVE \A m, n \in By(c)' : history'[m].doc = history'[n].doc => m = n
  <2>1. \A m, n \in By(c) : history[m].doc = history[n].doc => m = n
    BY <1>1, <1>6 DEF CallOk, WritesOnce
  <2>2. \A n \in By(c) : history[n].doc # p.doc
    BY <1>6 DEF Written
  <2>3. QED
    BY <1>5, <2>1, <2>2
<1>7. WritesOnce(c, k)' /\ WritesAll(c, k)'
  BY <1>6 DEF WritesOnce, WritesAll, Running
<1>8. QED
  BY <1>3, <1>7 DEF CallOk

(* The create lands and its call moves, to its check or to its end.        *)
LEMMA LandsInv ==
  ASSUME VerbInv, NEW c \in Call, call[c].pc = "create", call[c].at \in Slot,
         slots[call[c].at] = Absent, Land(call[c].at, Pending(c)),
         UNCHANGED <<foldedTo, certified>>, NEW pc \in {"check", "resolve"},
         \A x \in late' : x \in late \/ x = Send(c),
         call' = [call EXCEPT ![c] = [call[c] EXCEPT !.pc = pc]]
  PROVE  VerbInv'
<1>1. PICK k \in Calls : k = call[c]
  BY CallType
<1>2. /\ VerbTypes /\ CallOk(c, k) /\ LogEnd \in Nat /\ k.pc \in Running /\ k.at \in Nat
  BY <1>1, CallType, HistoryType DEF Running, Calls
<1>3. PICK p \in Entries : p = PendingOf(k) /\ p.by = c /\ (p.op = "I" <=> k.req.verb \in Inserts)
                        /\ (k.req.verb \in Inserts => k.req.docs = {p.doc})
  BY <1>1, <1>2, PendingFacts DEF CallOk
<1>4. Pending(c) = p
  BY <1>1, <1>3 DEF Pending, PendingOf
<1> DEFINE j == [k EXCEPT !.pc = pc]
<1>a. /\ j \in Calls /\ j.pc = pc /\ j.out = k.out
      /\ j.req = k.req /\ j.start = k.start /\ j.absentBelow = k.absentBelow /\ j.at = k.at
      /\ j.window = k.window /\ j.todo = k.todo /\ j.overtaken = k.overtaken
      /\ call' = [call EXCEPT ![c] = j]
  BY <1>1 DEF Calls
<1> HIDE DEF j
<1>5. PICK k2 \in Calls :
        /\ k2.pc = pc /\ k2.out = k.out
        /\ k2.req = k.req /\ k2.start = k.start /\ k2.absentBelow = k.absentBelow
        /\ k2.at = k.at
        /\ k2.window = k.window /\ k2.todo = k.todo /\ k2.overtaken = k.overtaken
        /\ call' = [call EXCEPT ![c] = k2]
  BY <1>a
<1>6. /\ k.at \in Slot /\ k.at <= LogEnd /\ slots[k.at] = Absent /\ Land(k.at, p)
      /\ k.out = "none" /\ k.pc = "create"
  BY <1>1, <1>2, <1>4 DEF CallOk, SoundCall
<1>7. \/ k.at = LogEnd /\ history' = Append(history, p)
      \/ history' = history /\ k.at < certified
  BY <1>6, LandsWhere
<1>8. CallOk(c, k2)'
  <2>1. k2.pc \in {"check", "resolve"} /\ k2.out = "none" /\ certified' = certified
    BY <1>5, <1>6
  <2>2. QED
    BY <1>1, <1>3, <1>5, <1>6, <1>7, <2>1, LandedOk
<1>9. p.op = "I" /\ ~k2.overtaken => \A d \in {p.doc} : RowAt(d, k.at) = Absent
  BY <1>1, <1>2, <1>3, <1>5 DEF CallOk, SoundWindow
<1>10. (call[c].overtaken => k2.overtaken) /\ k2.pc # "idle"
  BY <1>1, <1>5
<1>11. \A x \in late' : x \in late \/ (x \in Sends /\ x.at = k.at /\ x.entry = p)
  BY <1>1, <1>4, <1>6 DEF Send, Sends
<1>12. PICK s \in Slot : s = k.at
  BY <1>6
<1>13. /\ s <= LogEnd /\ slots[s] = Absent /\ Land(s, p)
       /\ (p.op = "I" /\ ~k2.overtaken => \A d \in {p.doc} : RowAt(d, s) = Absent)
       /\ \A x \in late' : x \in late \/ (x \in Sends /\ x.at = s /\ x.entry = p)
  BY <1>6, <1>9, <1>11, <1>12
<1>14. k2 = call[c] \/ call[c].pc = "create"
  OBVIOUS
<1>15. /\ k2 \in Calls /\ p.by = c /\ CallOk(c, k2)' /\ call' = [call EXCEPT ![c] = k2]
       /\ k2.pc # "idle" /\ (call[c].overtaken => k2.overtaken)
  BY <1>3, <1>5, <1>8, <1>10
<1>16. QED
  <2>1. \A x \in late' : x \in late \/ (x \in Sends /\ x.at = s /\ x.entry = p)
    BY <1>13
  <2>2. p.op = "I" /\ ~k2.overtaken => \A d \in {p.doc} : RowAt(d, s) = Absent
    BY <1>13
  <2>3. s <= LogEnd /\ slots[s] = Absent /\ Land(s, p) /\ UNCHANGED <<foldedTo, certified>>
    BY <1>13
  <2>4. QED
    BY ONLY VerbInv, c \in Call, k2 \in Calls, p \in Entries, s \in Slot, <1>14, <1>15, <2>1,
       <2>2, <2>3, CallLands

LEMMA CreateWinsInv == ASSUME VerbInv, NEW c \in Call, CreateWins(c) PROVE VerbInv'
<1>1. call' = [call EXCEPT ![c] = [call[c] EXCEPT !.pc = "check"]]
  BY DEF CreateWins, VerbInv, VerbTypes
<1>2. /\ call[c].pc = "create" /\ call[c].at \in Slot /\ slots[call[c].at] = Absent
      /\ Land(call[c].at, Pending(c)) /\ UNCHANGED <<foldedTo, certified>>
      /\ late' = late
  BY DEF CreateWins
<1>3. QED
  BY <1>1, <1>2, LandsInv

LEMMA CreateUncertainInv == ASSUME VerbInv, NEW c \in Call, CreateUncertain(c) PROVE VerbInv'
<1>1. call' = [call EXCEPT ![c] = [call[c] EXCEPT !.pc = "resolve"]]
  BY DEF CreateUncertain, VerbInv, VerbTypes
<1>2. /\ call[c].pc = "create" /\ call[c].at \in Slot /\ UNCHANGED <<foldedTo, certified>>
      /\ \A x \in late' : x \in late \/ x = Send(c)
  BY DEF CreateUncertain, MayStayInFlight
<1>3. CASE slots[call[c].at] = Absent /\ Land(call[c].at, Pending(c))
  BY <1>1, <1>2, <1>3, LandsInv
<1>4. CASE UNCHANGED <<slots, history>>
  <2>1. PICK k \in Calls : k = call[c]
    BY CallType
  <2>2. /\ VerbTypes /\ CallOk(c, k) /\ LogEnd \in Nat /\ k.pc \in Running /\ k.pc = "create"
        /\ slots \in [Slot -> Entries \cup {Absent}]
    BY <1>2, <2>1, CallType, HistoryType DEF Running, VerbTypes
  <2>3. PICK p \in Entries :
          /\ p = PendingOf(k) /\ p.by = c /\ p \in k.todo /\ (p.op = "I" <=> k.req.verb \in Inserts)
          /\ (k.req.verb \in Inserts => k.req.docs = {p.doc})
    BY <2>1, <2>2, PendingFacts DEF CallOk
  <2>4. Pending(c) = p
    BY <2>1, <2>3 DEF Pending, PendingOf
  <2> DEFINE k2 == [k EXCEPT !.pc = "resolve"]
  <2>5. /\ k2 \in Calls /\ k2.pc = "resolve" /\ k2.out = k.out
        /\ k2.req = k.req /\ k2.start = k.start /\ k2.absentBelow = k.absentBelow /\ k2.at = k.at
        /\ k2.window = k.window /\ k2.todo = k.todo /\ k2.overtaken = k.overtaken
        /\ call' = [call EXCEPT ![c] = k2]
    BY <1>1, <2>1 DEF Calls
  <2> HIDE DEF k2
  <2>6. k.at <= LogEnd /\ k.at \in Slot /\ k.out = "none" /\ PendingOf(k2) = p
    BY <1>2, <2>1, <2>2, <2>3, <2>5 DEF CallOk, SoundCall, PendingOf
  <2>7. ~k.overtaken => \A n \in By(c) : /\ \A x \in k.todo : history[n].doc # x.doc
                                         /\ k.req.verb \notin Inserts
    BY <2>2 DEF CallOk, WritesOnce
  <2>8. \A d : Target(k2, d) <=> Target(k, d)
    BY <2>5 DEF Target
  <2>9. CallOk(c, k2)
    <3>1. SoundCall(k2)
      BY <2>2, <2>5, <2>6 DEF CallOk, SoundCall, Running
    <3>2. SoundPlan(c, k2)
      BY <2>2, <2>5, <2>8 DEF CallOk, SoundPlan, Running
    <3>3. WritesOnce(c, k2)
      BY <2>2, <2>3, <2>5, <2>6, <2>7 DEF CallOk, WritesOnce
    <3>4. WritesAll(c, k2)
      BY <2>2, <2>5, <2>6, <2>8 DEF CallOk, WritesAll, Running
    <3>5. SoundWindow(k2) /\ TrueVerdict(k2)
      BY <2>2, <2>5, <2>6 DEF CallOk, SoundWindow, TrueVerdict, Running
    <3>6. QED
      BY <3>1, <3>2, <3>3, <3>4, <3>5 DEF CallOk
  <2>10. Send(c).at = k.at /\ Send(c).entry = p /\ Send(c) \in Sends
    BY <2>1, <2>4, <2>6 DEF Send, Sends
  <2>11. LateFit(Send(c), k2)
    <3>1. p.op = "I" /\ ~k.overtaken => RowAt(p.doc, k.at) = Absent
      BY <2>2, <2>3 DEF CallOk, SoundWindow
    <3>2. ~k.overtaken => ~Written(c, p.doc)
      BY <2>3, <2>7 DEF Written
    <3>3. QED
      BY <2>3, <2>5, <2>6, <2>10, <3>1, <3>2 DEF LateFit
  <2>12. \A x \in late' : x \in late \/ (x \in Sends /\ x.entry.by = c /\ LateFit(x, k2))
    BY <1>2, <2>3, <2>10, <2>11
  <2>13. LogIsHistory'
    BY <1>2, <1>4 DEF VerbInv, LogIsHistory, LogEnd
  <2>14. /\ call[c].pc # "done" /\ call[c].pc # "resolve" /\ k2.pc # "idle"
         /\ (call[c].overtaken => k2.overtaken)
    BY <2>1, <2>2, <2>5
  <2>15. UNCHANGED <<history, foldedTo, certified>> /\ slots' \in [Slot -> Entries \cup {Absent}]
    BY <1>2, <1>4, <2>2
  <2>16. QED
    BY <2>5, <2>9, <2>12, <2>13, <2>14, <2>15, CallMovesOver
<1>5. QED
  BY <1>3, <1>4 DEF CreateUncertain

LEMMA CreateRefusedInv == ASSUME VerbInv, NEW c \in Call, CreateRefused(c) PROVE VerbInv'
<1>1. /\ call[c].pc = "create" /\ call[c] \in Calls /\ CallOk(c, call[c])
      /\ call[c].pc \in Running /\ UNCHANGED Bucket /\ EndCall(c, "failed", call[c].overtaken)
  BY CallType DEF CreateRefused, Running, EndWith
<1>2. PICK p \in call[c].todo : p \in Entries
  BY <1>1, PendingFacts DEF CallOk
<1>3. p.doc \in Docs /\ Target(call[c], p.doc)
  BY <1>1, <1>2, EntryType DEF CallOk, SoundPlan
<1>4. ~call[c].overtaken => ~Written(c, p.doc)
  BY <1>1, <1>2 DEF CallOk, WritesOnce, Written
<1>5. EndFits(c, "failed", call[c].overtaken)
  BY <1>1, <1>3, <1>4 DEF EndFits, Calls
<1>6. QED
  BY <1>1, <1>5, EndInv

(* What the readback finds in the slot.                                    *)
LEMMA Occupied ==
  ASSUME VerbInv, NEW s \in Slot, slots[s] # Absent
  PROVE  s < LogEnd /\ (certified <= s => slots[s] = history[s + 1])
<1>1. LogEnd \in Nat /\ s \in Nat /\ LogIsHistory /\ certified \in Nat
  BY HistoryType, VerbBoundsAssumption DEF VerbInv, VerbTypes, Slot
<1>2. s < LogEnd
  BY <1>1 DEF LogIsHistory
<1>3. QED
  BY <1>1, <1>2 DEF LogIsHistory

LEMMA ResolveOwnInv == ASSUME VerbInv, NEW c \in Call, ResolveOwn(c) PROVE VerbInv'
<1>1. PICK k \in Calls : k = call[c]
  BY CallType
<1>2. /\ VerbTypes /\ CallOk(c, k) /\ LogEnd \in Nat /\ k.pc \in Running /\ k.pc = "resolve"
      /\ UNCHANGED Bucket /\ slots[k.at] = Pending(c) /\ k.at \in Slot /\ k.at \in Nat
  BY <1>1, CallType, HistoryType DEF Running, ResolveOwn, CallOk, SoundCall, Calls
<1>3. PICK p \in Entries : p = PendingOf(k) /\ p.by = c
  BY <1>1, <1>2, PendingFacts DEF CallOk
<1>4. Pending(c) = p
  BY <1>1, <1>3 DEF Pending, PendingOf
<1>5. k.at < LogEnd /\ (certified <= k.at => history[k.at + 1] = p)
  BY <1>2, <1>3, <1>4, Occupied, EntryType
<1>6. certified <= k.at => Written(c, p.doc)
  <2>1. k.at + 1 \in 1..LogEnd
    BY <1>2, <1>5
  <2>2. QED
    BY <1>3, <1>5, <2>1 DEF Written, By
<1> DEFINE k2 == [k EXCEPT !.pc = "check"]
<1>7. /\ k2 \in Calls /\ k2.pc = "check" /\ k2.out = k.out
      /\ k2.req = k.req /\ k2.start = k.start /\ k2.absentBelow = k.absentBelow /\ k2.at = k.at
      /\ k2.window = k.window /\ k2.todo = k.todo /\ k2.overtaken = k.overtaken
      /\ call' = [call EXCEPT ![c] = k2]
  BY <1>1 DEF Calls, ResolveOwn, VerbInv, VerbTypes
<1> HIDE DEF k2
<1>8. PendingOf(k2) = p /\ \A d : Target(k2, d) <=> Target(k, d)
  BY <1>3, <1>7 DEF PendingOf, Target
<1>9. SoundCall(k2)
  BY <1>2, <1>7 DEF CallOk, SoundCall, Running
<1>10. SoundPlan(c, k2)
  BY <1>2, <1>7, <1>8 DEF CallOk, SoundPlan, Running
<1>11. WritesOnce(c, k2)
  BY <1>2, <1>3, <1>7, <1>8, <1>9 DEF CallOk, WritesOnce, SoundCall
<1>12. WritesAll(c, k2)
  BY <1>2, <1>6, <1>7, <1>8, <1>9 DEF CallOk, WritesAll, SoundCall, Running
<1>13. SoundWindow(k2) /\ TrueVerdict(k2)
  BY <1>2, <1>7, <1>9 DEF CallOk, SoundWindow, TrueVerdict, SoundCall, Running
<1>14. CallOk(c, k2)
  BY <1>9, <1>10, <1>11, <1>12, <1>13 DEF CallOk
<1>15. call[c].pc # "done" /\ k2.pc # "idle" /\ (call[c].overtaken => k2.overtaken)
  BY <1>1, <1>2, <1>7
<1>16. QED
  BY <1>1, <1>2, <1>5, <1>7, <1>14, <1>15, CallMoves

LEMMA ResolveForeignInv == ASSUME VerbInv, NEW c \in Call, ResolveForeign(c) PROVE VerbInv'
<1> DEFINE o == call[c].overtaken \/ call[c].at < certified
<1>1. /\ call[c].pc = "resolve" /\ slots[call[c].at] # Absent /\ slots[call[c].at] # Pending(c)
      /\ UNCHANGED Bucket /\ call[c] \in Calls /\ CallOk(c, call[c]) /\ call[c].at \in Nat
      /\ call \in [Call -> Calls] /\ LogEnd \in Nat /\ call[c].at \in Slot /\ certified \in Nat
  BY CallType, HistoryType DEF ResolveForeign, Calls, VerbTypes, CallOk, SoundCall
<1>a. o \in BOOLEAN /\ (call[c].overtaken => o) /\ (call[c].at < certified => o)
  BY <1>1 DEF Calls
<1>b. call[c].at < LogEnd /\ (~o => slots[call[c].at] = history[call[c].at + 1])
  BY <1>1, Occupied
<1>c. ~o => \A n \in By(c) :
              history[n].doc # PendingOf(call[c]).doc /\ call[c].req.verb \notin Inserts
  <2>1. Pending(c) = PendingOf(call[c])
    BY DEF Pending, PendingOf
  <2>2. ~o => history[call[c].at + 1] # PendingOf(call[c])
    BY <1>1, <1>b, <2>1
  <2>3. ~o => ~call[c].overtaken
    BY <1>a
  <2> HIDE DEF o
  <2>4. QED
    BY <1>1, <2>2, <2>3 DEF CallOk, WritesOnce
<1>2. CASE call[c].req.verb \in Inserts
  <2> DEFINE w == Append(call[c].window, slots[call[c].at])
             n == call[c].at + 1
             k == [call[c] EXCEPT !.pc = "window", !.floor = n, !.at = n, !.window = w,
                                  !.overtaken = o]
  <2>1. call' = [call EXCEPT ![c] = k]
    BY <1>1, <1>2 DEF ResolveForeign
  <2>2. /\ w \in Seq(Entries) /\ call[c].at + 1 <= LogEnd
        /\ ~call[c].overtaken /\ ~(call[c].at < certified) =>
                /\ Len(w) = (call[c].at + 1) - call[c].start
                /\ \A i \in 1..Len(w) : w[i] = history[call[c].start + i]
    BY <1>1, <1>2, Joins
  <2>3. n \in Nat /\ n = call[c].at + 1 /\ w \in Seq(Entries)
    BY <1>1, <2>2
  <2> HIDE DEF w, o, n
  <2>4. /\ k \in Calls /\ k.pc = "window" /\ k.out = call[c].out /\ k.req = call[c].req
        /\ k.start = call[c].start /\ k.absentBelow = call[c].absentBelow
        /\ k.at = n /\ k.window = w /\ k.todo = call[c].todo /\ k.overtaken = o
    BY <1>1, <1>a, <2>3 DEF Calls
  <2> HIDE DEF k
  <2>5. k.req.verb \in Inserts /\ k.at <= LogEnd /\ (call[c].overtaken => k.overtaken)
    BY <1>2, <1>a, <2>2, <2>3, <2>4
  <2>6. ~k.overtaken =>
          /\ Len(k.window) = k.at - k.start
          /\ \A i \in 1..Len(k.window) : k.window[i] = history[k.start + i]
    BY <1>a, <2>2, <2>3, <2>4
  <2>7. ~k.overtaken =>
          \A m \in By(c) : history[m].doc # PendingOf(call[c]).doc /\ k.req.verb \notin Inserts
    BY <1>c, <2>4
  <2>8. QED
    BY <1>1, <1>b, <2>1, <2>4, <2>5, <2>6, <2>7, CommitMoves
<1>3. CASE call[c].req.verb \notin Inserts
  <2>1. PICK s \in (call[c].at + 1) .. LogEnd :
          call' = [call EXCEPT ![c].pc = "create", ![c].at = s,
                               ![c].overtaken = @ \/ call[c].at < certified]
    BY <1>1, <1>3 DEF ResolveForeign
  <2> DEFINE k == [call[c] EXCEPT !.pc = "create", !.at = s, !.overtaken = o]
  <2>2. call' = [call EXCEPT ![c] = k]
    BY <1>1, <2>1
  <2>3. s \in Nat /\ s <= LogEnd
    BY <1>1
  <2> HIDE DEF o
  <2>4. /\ k \in Calls /\ k.pc = "create" /\ k.out = call[c].out /\ k.req = call[c].req
        /\ k.start = call[c].start /\ k.absentBelow = call[c].absentBelow
        /\ k.at = s /\ k.window = call[c].window /\ k.todo = call[c].todo
        /\ k.overtaken = o
    BY <1>1, <1>a, <2>3 DEF Calls
  <2> HIDE DEF k
  <2>5. k.window # <<>> /\ k.window[1] \in k.todo /\ k.at <= LogEnd /\ k.req.verb \notin Inserts
    BY <1>1, <1>3, <2>3, <2>4 DEF CallOk, SoundPlan, Running
  <2>6. (call[c].overtaken => k.overtaken) /\
        (~k.overtaken =>
          \A m \in By(c) : history[m].doc # PendingOf(call[c]).doc /\ k.req.verb \notin Inserts)
    BY <1>a, <1>c, <2>4
  <2>7. QED
    BY <1>1, <1>b, <2>2, <2>4, <2>5, <2>6, CommitMoves
<1>4. QED
  BY <1>2, <1>3

LEMMA ToldNothingInv ==
  ASSUME VerbInv, NEW c \in Call, call[c].pc \in {"resolve", "check"}, EndWith(c, "ambiguous"),
         UNCHANGED Bucket
  PROVE  VerbInv'
<1>1. call[c] \in Calls /\ call[c].pc \in Running /\ EndCall(c, "ambiguous", call[c].overtaken)
  BY CallType DEF Running, EndWith
<1>2. EndFits(c, "ambiguous", call[c].overtaken)
  BY <1>1 DEF EndFits, Calls
<1>3. QED
  BY <1>1, <1>2, EndInv

(* A send in flight lands: of a create that is being resolved, or of one   *)
(* that was reported ambiguous.                                            *)
LEMMA DeliverInv == ASSUME VerbInv, NEW x \in late, Deliver(x) PROVE VerbInv'
<1>1. /\ x \in Sends /\ UNCHANGED <<foldedTo, certified, late, call>> /\ slots[x.at] = Absent
      /\ Land(x.at, x.entry) /\ VerbTypes
  BY DEF Deliver, VerbInv, VerbTypes
<1>2. PICK p \in Entries : p = x.entry
  BY <1>1 DEF Sends
<1>3. PICK c \in Call : c = p.by
  BY <1>2, EntryType
<1>4. PICK k \in Calls : k = call[c] /\ CallOk(c, k)
  BY CallType
<1>5. LateFit(x, k)
  BY <1>2, <1>3, <1>4 DEF VerbInv, LateOk
<1>6. PICK s \in Slot : s = x.at
  BY <1>1 DEF Sends
<1>7. /\ s <= LogEnd /\ k.pc # "idle" /\ Land(s, p) /\ slots[s] = Absent
      /\ (p.op = "I" /\ ~k.overtaken => \A d \in {p.doc} : RowAt(d, s) = Absent)
  BY <1>1, <1>2, <1>5, <1>6 DEF LateFit
<1>8. CallOk(c, k)'
  <2>1. CASE s = LogEnd /\ history' = Append(history, p)
    <3>1. ~k.overtaken => ~Written(c, p.doc)
      BY <1>2, <1>3, <1>5, <1>6, <2>1 DEF LateFit
    <3>2. CASE k.pc = "resolve" /\ k.at = s /\ p = PendingOf(k)
      <4>1. k.out = "none"
        BY <1>4, <3>2 DEF CallOk, SoundCall
      <4>2. QED
        BY <1>1, <1>4, <2>1, <3>1, <3>2, <4>1, LandedOk
    <3>3. CASE k.pc = "done" /\ k.out = "ambiguous"
      BY <1>1, <1>3, <1>4, <2>1, <3>1, <3>3, DeliveredOk
    <3>4. QED
      BY <1>2, <1>5, <1>6, <2>1, <3>2, <3>3 DEF LateFit
  <2>2. CASE history' = history
    <3>1. Grows /\ NotBy(c)
      BY <1>1, <2>2, HistoryKept DEF VerbTypes
    <3>2. QED
      BY <1>1, <1>4, <3>1, CallKept
  <2>3. QED
    BY <1>7, <2>1, <2>2, LandsWhere
<1>9. call' = [call EXCEPT ![c] = k]
  BY <1>1, <1>4 DEF VerbTypes
<1>10. QED
  BY <1>1, <1>3, <1>4, <1>7, <1>8, <1>9, CallLands

(* The check of the delete floor ends the call, or leaves the rest of its  *)
(* plan.                                                                   *)
LEMMA RowDoneInv ==
  ASSUME VerbInv, NEW c \in Call, call[c].pc = "check", UNCHANGED Bucket, NEW o \in BOOLEAN,
         RowDone(c, o), call[c].overtaken => o, ~o => ~(call[c].at < certified)
  PROVE  VerbInv'
<1>1. PICK k \in Calls : k = call[c]
  BY CallType
<1>2. /\ VerbTypes /\ CallOk(c, k) /\ LogEnd \in Nat /\ k.pc \in Running
      /\ k.pc = "check" /\ k.at \in Nat /\ certified \in Nat /\ call \in [Call -> Calls]
  BY <1>1, CallType, HistoryType DEF Running, Calls, VerbTypes
<1>3. PICK p \in Entries : p = PendingOf(k) /\ p \in k.todo
                        /\ (k.req.verb \in Inserts => k.todo = {p})
  BY <1>1, <1>2, PendingFacts DEF CallOk
<1>4. Pending(c) = p
  BY <1>1, <1>3 DEF Pending, PendingOf
<1>5. ~o => \A d \in Docs : Target(k, d) => Written(c, d) \/ \E x \in k.todo \ {p} : x.doc = d
  <2>1. ~o => Written(c, p.doc)
    BY <1>1, <1>2, <1>3 DEF CallOk, WritesAll
  <2>2. ~o => \A d \in Docs : Target(k, d) => Written(c, d) \/ \E x \in k.todo : x.doc = d
    BY <1>1, <1>2 DEF CallOk, WritesAll
  <2>3. QED
    BY <2>1, <2>2
<1>6. CASE k.todo = {p}
  <2>1. EndCall(c, "ok", o)
    BY <1>1, <1>4, <1>6 DEF RowDone
  <2>2. EndFits(c, "ok", o)
    BY <1>1, <1>5, <1>6 DEF EndFits
  <2>3. QED
    BY <1>1, <1>2, <2>1, <2>2, EndInv
<1>7. CASE k.todo # {p}
  <2> DEFINE rest == k.todo \ {p}
             k2 == [k EXCEPT !.pc = "next", !.window = <<>>, !.todo = rest, !.overtaken = o]
  <2>1. call' = [call EXCEPT ![c] = k2]
    BY <1>1, <1>2, <1>4, <1>7 DEF RowDone
  <2>2. rest \subseteq k.todo /\ rest # {} /\ rest \in SUBSET Entries /\ p \notin rest
    BY <1>3, <1>7 DEF Calls
  <2> HIDE DEF rest
  <2>3. <<>> \in Seq(Entries)
    OBVIOUS
  <2>4. /\ k2 \in Calls /\ k2.pc = "next" /\ k2.out = k.out /\ k2.req = k.req
        /\ k2.start = k.start /\ k2.at = k.at /\ k2.todo = rest /\ k2.overtaken = o
    BY <2>2, <2>3 DEF Calls
  <2> HIDE DEF k2
  <2>5. k.req.verb \notin Inserts /\ k.out = "none"
    BY <1>2, <1>3, <1>7 DEF CallOk, SoundCall
  <2>6. SoundCall(k2)
    BY <1>2, <2>4 DEF CallOk, SoundCall, Running
  <2>a. \A d : Target(k2, d) <=> Target(k, d)
    BY <2>4 DEF Target
  <2>7. SoundPlan(c, k2)
    BY <1>2, <2>2, <2>4, <2>5, <2>a DEF CallOk, SoundPlan
  <2>8. WritesOnce(c, k2)
    <3>1. ~o => \A n \in By(c) : \A x \in k.todo : x # p => history[n].doc # x.doc
      BY <1>1, <1>2, <1>3 DEF CallOk, WritesOnce
    <3>2. ~o => \A m, n \in By(c) : history[m].doc = history[n].doc => m = n
      BY <1>1, <1>2 DEF CallOk, WritesOnce
    <3>3. QED
      BY <2>2, <2>4, <2>5, <3>1, <3>2 DEF WritesOnce
  <2>9. WritesAll(c, k2)
    <3>1. ~o => \A d \in Docs : Target(k2, d) => Written(c, d) \/ \E x \in k2.todo : x.doc = d
      BY <1>5, <2>4, <2>a DEF rest
    <3>2. QED
      BY <2>4, <2>5, <3>1 DEF WritesAll
  <2>10. SoundWindow(k2) /\ TrueVerdict(k2)
    BY <2>4, <2>5 DEF SoundWindow, TrueVerdict
  <2>11. CallOk(c, k2)
    BY <2>6, <2>7, <2>8, <2>9, <2>10 DEF CallOk
  <2>12. k2.pc # "idle" /\ (call[c].overtaken => k2.overtaken)
    BY <2>4
  <2>13. QED
    BY <2>1, <2>4, <2>11, <2>12, CallMoves
<1>8. QED
  BY <1>6, <1>7

LEMMA CheckDeleteFloorInv == ASSUME VerbInv, NEW c \in Call, CheckDeleteFloor(c) PROVE VerbInv'
<1>1. PICK k \in Calls : k = call[c]
  BY CallType
<1>2. /\ VerbTypes /\ LogIsHistory /\ LogEnd \in Nat /\ k.pc \in Running
      /\ k.pc = "check" /\ k.at \in Nat /\ certified \in Nat /\ call \in [Call -> Calls]
      /\ UNCHANGED <<history, foldedTo, certified>> /\ late' = late
  BY <1>1, CallType, HistoryType DEF Running, Calls, CheckDeleteFloor, VerbTypes
<1>5. CASE k.at < certified
  <2>1. EndCall(c, "ambiguous", k.overtaken) /\ slots' \in {slots, [slots EXCEPT ![k.at] = Absent]}
    BY <1>1, <1>5 DEF CheckDeleteFloor, EndWith
  <2>a. EndFits(c, "ambiguous", k.overtaken)
    BY <1>1 DEF EndFits, Calls
  <2>2. PICK k2 \in Calls :
          /\ k2 = Ended(c, "ambiguous", k.overtaken) /\ CallOk(c, k2)
          /\ k2.overtaken = k.overtaken /\ k2.pc = "done" /\ k2.out = "ambiguous"
    BY <1>1, <1>2, <2>a, EndOk
  <2>3. call' = [call EXCEPT ![c] = k2]
    BY <2>1, <2>2 DEF EndCall, Ended
  <2>4. slots' \in [Slot -> Entries \cup {Absent}]
        /\ \A x \in Slot : x # k.at => slots'[x] = slots[x]
    BY <1>2, <2>1 DEF VerbTypes
  <2>5. LogIsHistory'
    <3>1. \A x \in Slot : x >= certified => slots'[x] = slots[x]
      BY <1>2, <1>5, <2>4 DEF Slot
    <3>2. \A x \in Slot : x >= LogEnd => x >= certified
      BY <1>2, VerbBoundsAssumption DEF LogIsHistory, Slot, VerbTypes
    <3>3. LogEnd' = LogEnd
      BY <1>2 DEF LogEnd
    <3>4. QED
      BY <1>2, <3>1, <3>2, <3>3 DEF LogIsHistory
  <2>6. /\ call[c].overtaken => k2.overtaken
        /\ k2.pc # "idle" /\ call[c].pc # "done" /\ call[c].pc # "resolve"
    BY <1>1, <1>2, <2>2
  <2>7. QED
    BY <1>2, <2>2, <2>3, <2>4, <2>5, <2>6, CallMovesOver
<1>6. CASE ~(k.at < certified)
  <2>1. UNCHANGED Bucket /\ RowDone(c, k.overtaken) /\ k.overtaken \in BOOLEAN
    BY <1>1, <1>2, <1>6 DEF CheckDeleteFloor, Bucket, Calls
  <2>2. QED
    BY <1>1, <1>2, <1>6, <2>1, RowDoneInv
<1>7. QED
  BY <1>5, <1>6

LEMMA CheckSkippedInv == ASSUME VerbInv, NEW c \in Call, CheckSkipped(c) PROVE VerbInv'
<1> DEFINE o == call[c].overtaken \/ call[c].at < certified
<1>1. call[c].pc = "check" /\ UNCHANGED Bucket /\ RowDone(c, o) /\ call[c] \in Calls
  BY CallType DEF CheckSkipped
<1>2. o \in BOOLEAN /\ (call[c].overtaken => o) /\ (~o => ~(call[c].at < certified))
  BY <1>1 DEF Calls
<1> HIDE DEF o
<1>3. QED
  BY <1>1, <1>2, RowDoneInv

-----------------------------------------------------------------------------
(* Maintenance moves the floors and empties slots below the delete floor.  *)

LEMMA FoldPrefixInv == ASSUME VerbInv, FoldPrefix PROVE VerbInv'
<1>1. PICK n \in (foldedTo + 1) .. LogEnd : foldedTo' = n
  BY DEF FoldPrefix
<1>2. /\ UNCHANGED <<history, slots, certified, late, call>> /\ VerbTypes /\ LogIsHistory
      /\ LogEnd \in Nat /\ LogEnd' = LogEnd
  BY HistoryType DEF FoldPrefix, VerbInv, LogEnd
<1>3. foldedTo' \in Nat /\ foldedTo <= foldedTo' /\ foldedTo' <= LogEnd
      /\ certified \in Nat /\ foldedTo \in Nat
  BY <1>1, <1>2 DEF VerbTypes
<1>4. LogIsHistory'
  BY <1>2, <1>3 DEF LogIsHistory
<1>5. QED
  BY <1>2, <1>3, <1>4, BucketMoves DEF VerbTypes

LEMMA CertifyPrefixInv == ASSUME VerbInv, CertifyPrefix PROVE VerbInv'
<1>1. /\ UNCHANGED <<history, slots, foldedTo, late, call>> /\ VerbTypes /\ LogIsHistory
      /\ LogEnd \in Nat /\ LogEnd' = LogEnd /\ certified \in Nat /\ foldedTo \in Nat
      /\ slots \in [Slot -> Entries \cup {Absent}]
  BY HistoryType DEF CertifyPrefix, VerbInv, LogEnd, VerbTypes
<1>2. certified' \in Nat /\ certified <= certified' /\ certified' <= foldedTo
  BY <1>1, VerbBoundsAssumption DEF CertifyPrefix
<1>3. \A s \in Slot : certified' <= s => certified <= s
  BY <1>1, <1>2, VerbBoundsAssumption DEF Slot
<1>4. LogIsHistory'
  BY <1>1, <1>2, <1>3 DEF LogIsHistory
<1>5. QED
  BY <1>1, <1>2, <1>4, BucketMoves

LEMMA DeleteRetiredInv == ASSUME VerbInv, NEW s \in Slot, DeleteRetired(s) PROVE VerbInv'
<1>1. /\ UNCHANGED <<history, foldedTo, certified, late, call>> /\ VerbTypes /\ LogIsHistory
      /\ LogEnd \in Nat /\ LogEnd' = LogEnd /\ certified \in Nat /\ foldedTo \in Nat
      /\ slots \in [Slot -> Entries \cup {Absent}]
  BY HistoryType DEF DeleteRetired, VerbInv, LogEnd, VerbTypes
<1>2. s < certified /\ slots' = [slots EXCEPT ![s] = Absent]
  BY DEF DeleteRetired
<1>3. slots' \in [Slot -> Entries \cup {Absent}] /\ \A x \in Slot : x # s => slots'[x] = slots[x]
  BY <1>1, <1>2
<1>4. \A x \in Slot : x >= certified => slots'[x] = slots[x]
  BY <1>1, <1>2, <1>3, VerbBoundsAssumption DEF Slot
<1>5. \A x \in Slot : x >= LogEnd => x >= certified
  BY <1>1, VerbBoundsAssumption DEF LogIsHistory, Slot
<1>6. LogIsHistory'
  BY <1>1, <1>4, <1>5 DEF LogIsHistory
<1>7. certified <= certified' /\ certified' \in Nat /\ foldedTo' \in Nat
  BY <1>1
<1>8. QED
  BY <1>1, <1>3, <1>6, <1>7, BucketMoves

-----------------------------------------------------------------------------
(* The invariant, and what it is for.                                      *)

LEMMA CallStepInv == ASSUME VerbInv, NEW c \in Call, CallStep(c) PROVE VerbInv'
<1>1. CASE ResolveAmbiguous(c) \/ CheckAborted(c)
  BY <1>1, ToldNothingInv DEF ResolveAmbiguous, CheckAborted
<1>2. QED
  BY <1>1, BeginInsertInv, BeginUpdateInv, BeginDeleteInv, BeginReplaceInv, RefuseInv, AcceptInv,
     ProbeTailInv, OpenWindowInv, WindowEntryInv, WindowRetiredInv, WindowTailInv, CreateWinsInv,
     CreateUncertainInv, CreateRefusedInv, ResolveOwnInv, ResolveForeignInv, CheckDeleteFloorInv,
     CheckSkippedInv DEF CallStep

LEMMA VerbInvStep == VerbInv /\ [VerbNext]_verbVars => VerbInv'
<1> SUFFICES ASSUME VerbInv, [VerbNext]_verbVars PROVE VerbInv'
  OBVIOUS
<1>1. CASE VerbNext
  BY <1>1, CallStepInv, DeliverInv, FoldPrefixInv, CertifyPrefixInv, DeleteRetiredInv DEF VerbNext
<1>2. CASE UNCHANGED verbVars
  <2>1. UNCHANGED <<history, slots, foldedTo, certified, late, call>>
    BY <1>2 DEF verbVars
  <2>2. /\ slots' \in [Slot -> Entries \cup {Absent}] /\ foldedTo' \in Nat
        /\ certified' \in Nat /\ certified <= certified'
    BY <2>1 DEF VerbInv, VerbTypes
  <2>3. LogIsHistory'
    BY <2>1 DEF VerbInv, LogIsHistory, LogEnd
  <2>4. QED
    BY <2>1, <2>2, <2>3, BucketMoves
<1>3. QED
  BY <1>1, <1>2

(* The inductive invariant of the verbs.                                   *)
THEOREM VerbInvHolds == VerbSpec => []VerbInv
BY VerbInvInit, VerbInvStep, PTL DEF VerbSpec

(* The first I for an _id wins, for any number of concurrent inserts: the  *)
(* window a guarded insert reads (insertGuard) is the log since its        *)
(* absence check, so the slot it creates is one where the document is      *)
(* absent, unless retirement overtook the window while it was read.        *)
THEOREM FirstInsertsWin == VerbSpec => []FirstInsertWins
<1>1. VerbInv => FirstInsertWins
  <2> SUFFICES ASSUME VerbInv, NEW n \in 1..LogEnd, history[n].op = "I",
                      ~call[history[n].by].overtaken
               PROVE  RowAt(history[n].doc, n - 1) = Absent
    BY DEF FirstInsertWins
  <2>1. history[n].doc \in Docs
    BY HistoryType, EntryType DEF VerbInv
  <2>2. QED
    BY <2>1 DEF VerbInv, FirstWins
<1>2. QED
  BY <1>1, VerbInvHolds, PTL

(* AlreadyExists is said only of a row that was live at some moment of the *)
(* call, and a replay is reported only of a row that was equal to the      *)
(* body inserted (decideInsertTarget).                                     *)
THEOREM ExistsVerdictsAreTrue == VerbSpec => []ExistsVerdictIsTrue
<1>1. VerbInv => ExistsVerdictIsTrue
  BY DEF VerbInv, CallOk, TrueVerdict, ExistsVerdictIsTrue
<1>2. QED
  BY <1>1, VerbInvHolds, PTL

(* Of a verb that retirement did not overtake: every row it matched is     *)
(* committed when it is acknowledged, one is not when it failed, none is   *)
(* committed twice, whatever its creates lost and resumed and however late *)
(* their sends land, and one that was refused or lost to a live row has    *)
(* committed nothing (Writer.commit).                                      *)
THEOREM BatchesAreExact == VerbSpec => []BatchIsExact
<1>1. VerbInv => BatchIsExact
  <2> SUFFICES ASSUME VerbInv, NEW c \in Call
               PROVE  /\ ~call[c].overtaken =>
                           /\ \A d \in Docs : Cardinality(EntriesOf(c, d)) <= 1
                           /\ call[c].out = "ok" =>
                                \A d \in call[c].req.docs :
                                  RowAt(d, call[c].start) # Absent \/ call[c].req.verb \in Inserts
                                    => EntriesOf(c, d) # {}
                           /\ call[c].out = "failed" =>
                                \E d \in call[c].req.docs : EntriesOf(c, d) = {}
                           /\ call[c].out \in {"exists", "replayed", "conflict"} =>
                                \A d \in Docs : EntriesOf(c, d) = {}
                      /\ call[c].out \in {"refused", "notfound"} =>
                           \A d \in Docs : EntriesOf(c, d) = {}
    BY DEF BatchIsExact
  <2>1. CallOk(c, call[c]) /\ call[c] \in Calls /\ LogEnd \in Nat
    BY CallType, HistoryType
  <2>2. \A d : EntriesOf(c, d) = {n \in By(c) : history[n].doc = d}
    BY DEF EntriesOf, By
  <2>3. ASSUME ~call[c].overtaken, NEW d \in Docs PROVE Cardinality(EntriesOf(c, d)) <= 1
    <3>1. \A m, n \in EntriesOf(c, d) : m = n
      BY <2>1, <2>2, <2>3 DEF CallOk, WritesOnce
    <3>2. CASE EntriesOf(c, d) = {}
      BY <3>2, FS_EmptySet
    <3>3. CASE EntriesOf(c, d) # {}
      <4>1. PICK n \in EntriesOf(c, d) : TRUE
        BY <3>3
      <4>2. EntriesOf(c, d) = {n}
        BY <3>1, <4>1
      <4>3. QED
        BY <4>2, FS_Singleton
    <3>4. QED
      BY <3>2, <3>3
  <2>4. ASSUME ~call[c].overtaken, call[c].out = "ok", NEW d \in call[c].req.docs,
               RowAt(d, call[c].start) # Absent \/ call[c].req.verb \in Inserts
        PROVE  EntriesOf(c, d) # {}
    <3>1. call[c].req \in Request /\ call[c].start \in Nat /\ call[c].start <= LogEnd
      BY <2>1, <2>4 DEF CallOk, SoundCall, Calls
    <3>2. d \in Docs /\ call[c].start \in 0..LogEnd
      BY <2>1, <3>1, RequestAssumption
    <3>3. Target(call[c], d)
      BY <2>4, <3>2 DEF Target
    <3>4. QED
      BY <2>1, <2>2, <2>4, <3>2, <3>3 DEF CallOk, WritesAll, Written
  <2>5. ASSUME ~call[c].overtaken, call[c].out = "failed"
        PROVE  \E d \in call[c].req.docs : EntriesOf(c, d) = {}
    <3>1. PICK d \in Docs : Target(call[c], d) /\ ~Written(c, d)
      BY <2>1, <2>5 DEF CallOk, WritesAll
    <3>2. QED
      BY <2>2, <3>1 DEF Target, Written
  <2>6. ASSUME ~call[c].overtaken, call[c].out \in {"exists", "replayed", "conflict"}, NEW d \in Docs
        PROVE  EntriesOf(c, d) = {}
    BY <2>1, <2>2, <2>6 DEF CallOk, WritesOnce
  <2>7. ASSUME call[c].out \in {"refused", "notfound"}, NEW d \in Docs
        PROVE  EntriesOf(c, d) = {}
    BY <2>1, <2>2, <2>7 DEF CallOk, WritesOnce
  <2>8. QED
    BY <2>3, <2>4, <2>5, <2>6, <2>7
<1>2. QED
  BY <1>1, VerbInvHolds, PTL

-----------------------------------------------------------------------------
(* The verbs implement the collection.                                     *)
(*                                                                         *)
(* The argument: the log's history is the sequence of row writes.  An      *)
(* append of an entry is the one write of its document by its call, also   *)
(* when a send lands after the call was told nothing; every other step     *)
(* leaves the writes alone and at most blinds or ends a call, and what the *)
(* invariant says of an ended call is what its answer promises.  The plan  *)
(* a call made from the rows it saw says the rest: what each of its        *)
(* entries, and of its sends in flight, will write.                        *)

(* Entry e is what request r means for the row after n entries.            *)
PlannedWrite(r, n, e) ==
  /\ e.doc \in r.docs
  /\ e.op = "I" <=> r.verb \in Inserts
  /\ r.verb \notin Inserts => RowAt(e.doc, n) # Absent
  /\ RowOf(e) = Promised!Effect(r, RowAt(e.doc, n))

PlanOk(k) == k.pc \in Running => \A e \in k.todo : PlannedWrite(k.req, k.start, e)

SendOk(x) == \A k \in {call[x.entry.by]} : PlannedWrite(k.req, k.start, x.entry)

PlansOk == (\A c \in Call : PlanOk(call[c])) /\ (\A x \in late : SendOk(x))

CollInv == VerbInv /\ PlansOk

CollStep == [Promised!CollectionNext]_(Promised!collectionVars)

(* Call c moves on with the request it has.                                *)
Moves(c) ==
  /\ call' = [call EXCEPT ![c] = call'[c]]
  /\ call[c].pc \in Running /\ call'[c].pc # "idle"
  /\ call'[c].req = call[c].req /\ call'[c].start = call[c].start
  /\ call'[c].todo \subseteq call[c].todo
  /\ \A x \in late' : x \in late \/ x.entry \in call[c].todo

(* Call c begins with request r, at the end of the log.                    *)
Starts(c, r) ==
  /\ call[c].pc = "idle"
  /\ call' = [call EXCEPT ![c] = call'[c]]
  /\ call'[c].pc # "idle" /\ call'[c].req = r /\ call'[c].start = LogEnd
  /\ ~call'[c].overtaken

-----------------------------------------------------------------------------
(* Plans.                                                                  *)

LEMMA PlannedKept ==
  ASSUME Grows, NEW r, NEW n \in 0 .. LogEnd, NEW e, e.doc \in Docs, PlannedWrite(r, n, e)
  PROVE  PlannedWrite(r, n, e)'
<1>1. RowAt(e.doc, n)' = RowAt(e.doc, n)
  BY DEF Grows
<1>2. /\ e.doc \in r.docs /\ (e.op = "I" <=> r.verb \in Inserts)
      /\ (r.verb \notin Inserts => RowAt(e.doc, n)' # Absent)
      /\ RowOf(e) = Promised!Effect(r, RowAt(e.doc, n)')
  BY <1>1 DEF PlannedWrite
<1>3. QED
  BY <1>2 DEF PlannedWrite, RowOf, Promised!Effect

(* A call that has begun, as the plan lemmas need it.                      *)
LEMMA PlanFacts ==
  ASSUME VerbInv, NEW c \in Call, call[c].pc # "idle"
  PROVE  /\ call[c].req \in Request /\ call[c].start \in 0 .. LogEnd
         /\ \A e \in call[c].todo : e \in Entries /\ e.doc \in Docs
<1>1. call[c] \in Calls /\ SoundCall(call[c]) /\ LogEnd \in Nat
  BY CallType, HistoryType DEF CallOk
<1>2. call[c].start \in Nat /\ call[c].todo \in SUBSET Entries
  BY <1>1 DEF Calls
<1>3. QED
  BY <1>1, <1>2, EntryType DEF SoundCall

LEMMA PlanKept ==
  ASSUME CollInv, Grows, NEW b \in Call, NEW k, k = call[b]
  PROVE  PlanOk(k)'
<1>1. PlanOk(k) /\ VerbInv
  BY DEF CollInv, PlansOk
<1>2. ASSUME k.pc \in Running, NEW e \in k.todo PROVE PlannedWrite(k.req, k.start, e)'
  <2>1. k.start \in 0 .. LogEnd /\ e.doc \in Docs
    BY <1>1, <1>2, PlanFacts DEF Running
  <2>2. PlannedWrite(k.req, k.start, e)
    BY <1>1, <1>2 DEF PlanOk
  <2>3. QED
    BY <2>1, <2>2, PlannedKept
<1>3. QED
  BY <1>2 DEF PlanOk

(* A send in flight still is what its call planned.                        *)
LEMMA SendKept ==
  ASSUME CollInv, Grows, NEW x \in late, NEW k, k.req = call[x.entry.by].req,
         k.start = call[x.entry.by].start
  PROVE  PlannedWrite(k.req, k.start, x.entry)'
<1>1. x.entry \in Entries /\ VerbInv
  BY DEF CollInv, VerbInv, VerbTypes, Sends
<1>2. x.entry.by \in Call /\ x.entry.doc \in Docs
  BY <1>1, EntryType
<1>3. call[x.entry.by].pc # "idle"
  BY <1>1 DEF VerbInv, LateOk, LateFit
<1>4. k.start \in 0 .. LogEnd
  BY <1>1, <1>2, <1>3, PlanFacts
<1>5. PlannedWrite(k.req, k.start, x.entry)
  BY DEF CollInv, PlansOk, SendOk
<1>6. QED
  BY <1>2, <1>4, <1>5, PlannedKept

(* No plan changes but that of call c.                                     *)
LEMMA PlansKept ==
  ASSUME CollInv, VerbInv', Grows, NEW c \in Call, NEW w, call' = [call EXCEPT ![c] = w],
         PlanOk(w)',
         call[c].pc # "idle" => w.req = call[c].req /\ w.start = call[c].start,
         \A x \in late' : x \in late \/ (call[c].pc \in Running /\ x.entry \in call[c].todo)
  PROVE  PlansOk'
<1>1. VerbInv /\ call \in [Call -> Calls]
  BY DEF CollInv, VerbInv, VerbTypes
<1>2. call'[c] = w /\ \A b \in Call : b # c => call'[b] = call[b]
  BY <1>1
<1>3. ASSUME NEW b \in Call PROVE \A k \in {call'[b]} : PlanOk(k)'
  <2>1. CASE b = c
    BY <1>2, <2>1
  <2>2. CASE b # c
    BY <1>2, <2>2, PlanKept
  <2>3. QED
    BY <2>1, <2>2
<1>4. ASSUME NEW x \in late', NEW k \in {call'[x.entry.by]}
      PROVE  PlannedWrite(k.req, k.start, x.entry)'
  <2>1. x.entry \in Entries /\ x.entry.by \in Call
    BY EntryType DEF VerbInv, VerbTypes, Sends
  <2>2. CASE x \in late
    <3>1. call[x.entry.by].pc # "idle"
      BY <1>1, <2>2 DEF VerbInv, LateOk, LateFit
    <3>2. k.req = call[x.entry.by].req /\ k.start = call[x.entry.by].start
      BY <1>2, <1>4, <2>1, <3>1
    <3>3. QED
      BY <2>2, <3>2, SendKept
  <2>3. CASE call[c].pc \in Running /\ x.entry \in call[c].todo
    <3>1. x.entry.by = c /\ call[c].pc # "idle"
      BY <1>1, <2>3, CallType DEF CallOk, SoundPlan, Running
    <3>2. k.req = call[c].req /\ k.start = call[c].start
      BY <1>2, <1>4, <3>1
    <3>3. k.start \in 0 .. LogEnd /\ x.entry.doc \in Docs
      BY <1>1, <2>3, <3>1, <3>2, PlanFacts
    <3>4. PlannedWrite(k.req, k.start, x.entry)
      BY <2>3, <3>2 DEF CollInv, PlansOk, PlanOk
    <3>5. QED
      BY <3>3, <3>4, PlannedKept
  <2>4. QED
    BY <2>2, <2>3
<1>5. QED
  BY <1>3, <1>4 DEF PlansOk, SendOk

(* A call that moves on keeps what is left of its plan.                    *)
LEMMA MovesPlan ==
  ASSUME CollInv, VerbInv', Grows, NEW c \in Call, Moves(c)
  PROVE  PlansOk'
<1>1. PICK k : k = call[c]
  OBVIOUS
<1>2. PICK w : w = call'[c]
  OBVIOUS
<1>3. PlanOk(k)'
  BY <1>1, PlanKept
<1>4. /\ call' = [call EXCEPT ![c] = w] /\ w.req = k.req /\ w.start = k.start
      /\ w.todo \subseteq k.todo /\ k.pc \in Running
      /\ \A x \in late' : x \in late \/ x.entry \in k.todo
  BY <1>1, <1>2 DEF Moves
<1>5. PlanOk(w)'
  BY <1>3, <1>4 DEF PlanOk
<1>6. QED
  BY <1>1, <1>4, <1>5, PlansKept

(* A call that begins with the given plan.                                 *)
LEMMA BeginsPlan ==
  ASSUME CollInv, VerbInv', NEW c \in Call, UNCHANGED Bucket, call[c].pc = "idle",
         NEW w, call' = [call EXCEPT ![c] = w],
         w.pc \in Running => \A e \in w.todo : PlannedWrite(w.req, w.start, e)
  PROVE  PlansOk'
<1>1. VerbTypes /\ UNCHANGED history /\ certified' \in Nat /\ certified <= certified' /\ late' = late
  BY DEF CollInv, VerbInv, VerbTypes, Bucket
<1>2. Grows
  BY <1>1, HistoryKept
<1>3. \A d, n : RowAt(d, n)' = RowAt(d, n)
  BY <1>1 DEF RowAt
<1>4. PlanOk(w)'
  BY <1>3 DEF PlanOk, PlannedWrite, RowOf, Promised!Effect
<1>5. QED
  BY <1>1, <1>2, <1>4, PlansKept

(* The entries of a plan over the matched rows.                            *)
LEMMA MatchedPlan ==
  ASSUME CollInv, VerbInv', NEW c \in Call, call[c].pc = "idle", NEW r \in Request,
         r.verb \notin Inserts, NEW op \in {"U", "D"}, NEW body,
         \A d \in Matched(r) : IF op = "D" THEN Absent = Promised!Effect(r, Row(d))
                                           ELSE body[d] = Promised!Effect(r, Row(d)),
         Plan(c, r, {Entry(c, d, op, body[d]) : d \in Matched(r)}), UNCHANGED Bucket
  PROVE  PlansOk'
<1> DEFINE writes == {Entry(c, d, op, body[d]) : d \in Matched(r)}
           k == [IdleCall EXCEPT !.pc = "planned", !.req = r, !.start = LogEnd,
                                 !.absentBelow = LogEnd, !.todo = writes]
<1>1. call' = [call EXCEPT ![c] = k]
  BY DEF Plan
<1>2. k.req = r /\ k.start = LogEnd /\ k.todo = writes
  BY DEF IdleCall
<1>3. ASSUME NEW e \in writes PROVE PlannedWrite(r, LogEnd, e)
  <2>1. PICK d \in Matched(r) : e = Entry(c, d, op, body[d])
    BY <1>3
  <2>2. e.doc = d /\ e.op = op /\ e.body = body[d]
    BY <2>1 DEF Entry
  <2>3. d \in r.docs /\ Row(d) # Absent /\ Row(d) = RowAt(d, LogEnd)
    BY <2>1 DEF Matched, Row
  <2>4. RowOf(e) = Promised!Effect(r, Row(d))
    BY <2>1, <2>2 DEF RowOf
  <2>5. QED
    BY <2>2, <2>3, <2>4 DEF PlannedWrite
<1> HIDE DEF writes, k
<1>4. PICK w : w = k
  OBVIOUS
<1>5. QED
  BY <1>1, <1>2, <1>3, <1>4, BeginsPlan

LEMMA BeginInsertPlan ==
  ASSUME CollInv, VerbInv', NEW c \in Call, NEW r \in Request, BeginInsert(c, r)
  PROVE  PlansOk' /\ Starts(c, r) /\ UNCHANGED Bucket /\ call'[c].out # "notfound"
<1>1. PICK d \in r.docs :
        IF Row(d) # Absent
        THEN call' = [call EXCEPT ![c] = [IdleCall EXCEPT
                        !.pc = "done", !.req = r, !.start = LogEnd,
                        !.out = IF Replays(r, Row(d)) THEN "replayed" ELSE "exists"]]
        ELSE Plan(c, r, {Entry(c, d, "I", r.content)})
  BY DEF BeginInsert
<1>2. call[c].pc = "idle" /\ r.verb \in Inserts /\ UNCHANGED Bucket /\ call \in [Call -> Calls]
  BY DEF BeginInsert, CollInv, VerbInv, VerbTypes
<1>3. CASE Row(d) # Absent
  <2> DEFINE out == IF Replays(r, Row(d)) THEN "replayed" ELSE "exists"
  <2>1. call' = [call EXCEPT ![c] = [IdleCall EXCEPT
                        !.pc = "done", !.req = r, !.start = LogEnd, !.out = out]]
    BY <1>1, <1>3
  <2>2. out # "notfound"
    OBVIOUS
  <2> HIDE DEF out
  <2>3. PICK w : w = [IdleCall EXCEPT !.pc = "done", !.req = r, !.start = LogEnd, !.out = out]
    OBVIOUS
  <2>4. /\ call' = [call EXCEPT ![c] = w] /\ w.pc = "done" /\ w.out = out
        /\ w.req = r /\ w.start = LogEnd /\ ~w.overtaken
    BY <2>1, <2>3 DEF IdleCall
  <2>5. call'[c] = w
    BY <1>2, <2>4
  <2>6. PlansOk'
    BY <1>2, <2>4, BeginsPlan DEF Running
  <2>7. QED
    BY <1>2, <2>2, <2>4, <2>5, <2>6 DEF Starts
<1>4. CASE Row(d) = Absent
  <2> DEFINE e == Entry(c, d, "I", r.content)
  <2>1. Plan(c, r, {e})
    BY <1>1, <1>4
  <2>2. e.doc = d /\ e.op = "I" /\ e.body = r.content
    BY DEF Entry
  <2> HIDE DEF e
  <2>3. PICK w : w = [IdleCall EXCEPT !.pc = "planned", !.req = r, !.start = LogEnd,
                                      !.absentBelow = LogEnd, !.todo = {e}]
    OBVIOUS
  <2>4. /\ call' = [call EXCEPT ![c] = w] /\ w.pc = "planned" /\ w.out = "none"
        /\ w.req = r /\ w.start = LogEnd /\ ~w.overtaken /\ w.todo = {e}
    BY <2>1, <2>3 DEF Plan, IdleCall
  <2>5. call'[c] = w
    BY <1>2, <2>4
  <2>6. \A row : RowOf(e) = Promised!Effect(r, row)
    BY <1>2, <2>2 DEF RowOf, Promised!Effect, Inserts
  <2>7. PlannedWrite(r, LogEnd, e)
    BY <1>2, <2>2, <2>6 DEF PlannedWrite
  <2>8. PlansOk'
    BY <1>2, <2>4, <2>7, BeginsPlan
  <2>9. QED
    BY <1>2, <2>4, <2>5, <2>8 DEF Starts
<1>5. QED
  BY <1>3, <1>4

LEMMA PlanStarts ==
  ASSUME CollInv, NEW c \in Call, call[c].pc = "idle", NEW r, NEW writes, Plan(c, r, writes)
  PROVE  Starts(c, r) /\ call'[c].out # "notfound"
<1>1. call \in [Call -> Calls]
  BY DEF CollInv, VerbInv, VerbTypes
<1>2. /\ call' = [call EXCEPT ![c] = call'[c]] /\ call'[c].pc = "planned" /\ call'[c].out = "none"
      /\ call'[c].req = r /\ call'[c].start = LogEnd /\ ~call'[c].overtaken
  BY <1>1 DEF Plan, IdleCall
<1>3. QED
  BY <1>2 DEF Starts

LEMMA BeginUpdatePlan ==
  ASSUME CollInv, VerbInv', NEW c \in Call, NEW r \in Request, BeginUpdate(c, r)
  PROVE  PlansOk' /\ Starts(c, r) /\ UNCHANGED Bucket /\ call'[c].out # "notfound"
<1>1. call[c].pc = "idle" /\ r.verb = "update" /\ r.verb \notin Inserts /\ UNCHANGED Bucket
  BY DEF BeginUpdate, Inserts
<1> DEFINE body == [d \in Matched(r) |-> MergeFlat(Row(d), r.content)]
<1>2. ASSUME NEW d \in Matched(r) PROVE body[d] = Promised!Effect(r, Row(d))
  <2>1. Row(d) \in [Field -> Value]
    BY MatchedRow DEF Body, CollInv
  <2>2. DOMAIN Row(d) = Field
    BY <2>1
  <2>3. Promised!Effect(r, Row(d)) =
          [f \in DOMAIN Row(d) |-> IF f \in DOMAIN r.content THEN r.content[f] ELSE Row(d)[f]]
    BY <1>1 DEF Promised!Effect
  <2>4. QED
    BY <2>2, <2>3 DEF MergeFlat
<1>3. \A d \in Matched(r) : body[d] = MergeFlat(Row(d), r.content)
  OBVIOUS
<1> HIDE DEF body
<1>4. {Entry(c, d, "U", MergeFlat(Row(d), r.content)) : d \in Matched(r)}
      = {Entry(c, d, "U", body[d]) : d \in Matched(r)}
  BY <1>3
<1>5. Plan(c, r, {Entry(c, d, "U", body[d]) : d \in Matched(r)})
  BY <1>4 DEF BeginUpdate
<1>6. PlansOk'
  BY <1>1, <1>2, <1>5, MatchedPlan
<1>7. QED
  BY <1>1, <1>5, <1>6, PlanStarts

LEMMA BeginDeletePlan ==
  ASSUME CollInv, VerbInv', NEW c \in Call, NEW r \in Request, BeginDelete(c, r)
  PROVE  PlansOk' /\ Starts(c, r) /\ UNCHANGED Bucket /\ call'[c].out # "notfound"
<1>1. call[c].pc = "idle" /\ r.verb = "delete" /\ r.verb \notin Inserts /\ UNCHANGED Bucket
  BY DEF BeginDelete, Inserts
<1> DEFINE body == [d \in Matched(r) |-> Absent]
<1>2. \A d \in Matched(r) : body[d] = Absent
  OBVIOUS
<1>3. \A row : Absent = Promised!Effect(r, row)
  BY <1>1 DEF Promised!Effect
<1> HIDE DEF body
<1>4. {Entry(c, d, "D", Absent) : d \in Matched(r)} = {Entry(c, d, "D", body[d]) : d \in Matched(r)}
  BY <1>2
<1>5. Plan(c, r, {Entry(c, d, "D", body[d]) : d \in Matched(r)})
  BY <1>4 DEF BeginDelete
<1>6. PlansOk'
  BY <1>1, <1>3, <1>5, MatchedPlan
<1>7. QED
  BY <1>1, <1>5, <1>6, PlanStarts

LEMMA BeginReplacePlan ==
  ASSUME CollInv, VerbInv', NEW c \in Call, NEW r \in Request, BeginReplace(c, r)
  PROVE  /\ PlansOk' /\ Starts(c, r) /\ UNCHANGED Bucket
         /\ call'[c].out = "notfound" => r.verb \notin Inserts /\ Matched(r) = {}
<1>1. call[c].pc = "idle" /\ r.verb = "replace" /\ r.verb \notin Inserts /\ UNCHANGED Bucket
      /\ call \in [Call -> Calls]
  BY DEF BeginReplace, Inserts, CollInv, VerbInv, VerbTypes
<1>2. CASE Matched(r) = {}
  <2>1. PICK w : w = [IdleCall EXCEPT !.pc = "done", !.req = r, !.start = LogEnd, !.out = "notfound"]
    OBVIOUS
  <2>2. /\ call' = [call EXCEPT ![c] = w] /\ w.pc = "done"
        /\ w.req = r /\ w.start = LogEnd /\ ~w.overtaken
    BY <1>2, <2>1 DEF BeginReplace, IdleCall
  <2>3. call'[c] = w
    BY <1>1, <2>2
  <2>4. PlansOk'
    BY <1>1, <2>2, BeginsPlan DEF Running
  <2>5. QED
    BY <1>1, <1>2, <2>2, <2>3, <2>4 DEF Starts
<1>3. CASE Matched(r) # {}
  <2> DEFINE body == [d \in Matched(r) |-> r.content]
  <2>1. \A d \in Matched(r) : body[d] = r.content
    OBVIOUS
  <2>2. \A row : r.content = Promised!Effect(r, row)
    BY <1>1 DEF Promised!Effect
  <2> HIDE DEF body
  <2>3. {Entry(c, d, "U", r.content) : d \in Matched(r)} = {Entry(c, d, "U", body[d]) : d \in Matched(r)}
    BY <2>1
  <2>4. Plan(c, r, {Entry(c, d, "U", body[d]) : d \in Matched(r)})
    BY <1>3, <2>3 DEF BeginReplace
  <2>5. \A d \in Matched(r) : body[d] = Promised!Effect(r, Row(d))
    BY <2>1, <2>2
  <2>6. PlansOk'
    BY <1>1, <2>4, <2>5, MatchedPlan
  <2>7. QED
    BY <1>1, <2>4, <2>6, PlanStarts
<1>4. QED
  BY <1>2, <1>3

-----------------------------------------------------------------------------
(* What the callers see.                                                   *)

LEMMA WritesFacts ==
  ASSUME VerbTypes
  PROVE  /\ LogEnd \in Nat /\ Len(Writes) = LogEnd
         /\ Writes \in Seq([by : Call, doc : Docs, row : Body \cup {Absent}])
         /\ \A i \in 1 .. LogEnd : /\ Writes[i].by = history[i].by /\ Writes[i].doc = history[i].doc
                                   /\ Writes[i].row = RowOf(history[i])
<1>1. LogEnd \in Nat /\ \A i \in 1 .. LogEnd : history[i] \in Entries
  BY HistoryType
<1>2. ASSUME NEW i \in 1 .. LogEnd
      PROVE  /\ history[i].by \in Call /\ history[i].doc \in Docs
             /\ RowOf(history[i]) \in Body \cup {Absent}
  BY <1>1, EntryType DEF RowOf
<1> DEFINE Ws == [by : Call, doc : Docs, row : Body \cup {Absent}]
<1>3. Writes \in [1 .. LogEnd -> Ws]
  BY <1>2 DEF Writes
<1> HIDE DEF Ws
<1>4. Writes \in Seq(Ws) /\ Len(Writes) = LogEnd
  BY <1>1, <1>3
<1>5. \A i \in 1 .. LogEnd : /\ Writes[i].by = history[i].by /\ Writes[i].doc = history[i].doc
                             /\ Writes[i].row = RowOf(history[i])
  BY DEF Writes
<1>6. QED
  BY <1>1, <1>4, <1>5 DEF Ws

(* The rows of the collection are those of the log.                        *)
LEMMA RowsSeen ==
  ASSUME VerbTypes, NEW d \in Docs, NEW n \in 0 .. LogEnd
  PROVE  Promised!RowAfter(n, d) = RowAt(d, n)
<1>1. /\ LogEnd \in Nat
      /\ \A i \in 1 .. LogEnd : Writes[i].doc = history[i].doc /\ Writes[i].row = RowOf(history[i])
  BY WritesFacts
<1>2. {i \in 1 .. n : Writes[i].doc = d} = Mine(d, n) /\ \A i \in Mine(d, n) : i \in 1 .. LogEnd
  BY <1>1 DEF Mine
<1> DEFINE seen == {i \in 1 .. n : Writes[i].doc = d}
           lastSeen == CHOOSE i \in seen : \A j \in seen : j <= i
<1>3. Promised!RowAfter(n, d) = IF seen = {} THEN Absent ELSE Writes[lastSeen].row
  BY DEF Promised!RowAfter
<1>4. CASE Mine(d, n) = {}
  BY <1>2, <1>3, <1>4 DEF RowAt, Mine
<1>5. CASE Mine(d, n) # {}
  <2> HIDE DEF seen
  <2>1. PICK i \in Mine(d, n) : /\ \A j \in Mine(d, n) : j <= i
                                /\ RowAt(d, n) = RowOf(history[i])
    BY <1>5, RowIsLast DEF RowOf
  <2>2. seen = Mine(d, n)
    BY <1>2 DEF seen
  <2>3. lastSeen \in seen /\ \A j \in seen : j <= lastSeen
    BY <2>1, <2>2
  <2> HIDE DEF lastSeen
  <2>4. lastSeen = i
    <3>1. lastSeen \in Nat /\ i \in Nat /\ lastSeen <= i /\ i <= lastSeen
      BY <1>1, <1>2, <2>1, <2>2, <2>3
    <3>2. QED
      BY <3>1
  <2>5. QED
    BY <1>1, <1>2, <1>3, <1>5, <2>1, <2>2, <2>4
<1>6. QED
  BY <1>4, <1>5

LEMMA WrittenSeen ==
  ASSUME VerbTypes, NEW c \in Call
  PROVE  /\ \A d \in Docs : d \in Promised!WrittenBy(c) <=> Written(c, d)
         /\ By(c) = {} => Promised!WrittenBy(c) = {}
<1>1. /\ Len(Writes) = LogEnd
      /\ \A i \in 1 .. LogEnd : Writes[i].by = history[i].by /\ Writes[i].doc = history[i].doc
  BY WritesFacts
<1>2. {m \in 1 .. Len(Writes) : Writes[m].by = c} = By(c)
  BY <1>1 DEF By
<1>3. Promised!WrittenBy(c) = {Writes[n].doc : n \in By(c)}
  BY <1>2 DEF Promised!WrittenBy
<1>4. \A n \in By(c) : Writes[n].doc = history[n].doc
  BY <1>1 DEF By
<1>5. QED
  BY <1>3, <1>4 DEF Written

(* The documents a call has to write.                                      *)
LEMMA TargetsSeen ==
  ASSUME VerbTypes, NEW k, k.req \in Request, k.start \in 0 .. LogEnd
  PROVE  /\ Promised!Targets(k.req, k.start) \subseteq Docs
         /\ \A d \in Docs : d \in Promised!Targets(k.req, k.start) <=> Target(k, d)
<1>1. k.req.docs \subseteq Docs
  BY RequestAssumption
<1>2. \A d \in Docs : Promised!RowAfter(k.start, d) = RowAt(d, k.start)
  BY RowsSeen
<1>3. QED
  BY <1>1, <1>2 DEF Promised!Targets, Promised!Inserting, Target, Inserts

LEMMA WritesKept == ASSUME UNCHANGED history PROVE Writes' = Writes
BY DEF Writes, LogEnd, RowOf

(* What a step of call c changes in the view.                              *)
LEMMA ViewMoves ==
  ASSUME VerbInv, VerbInv', NEW c \in Call, call' = [call EXCEPT ![c] = call'[c]]
  PROVE  /\ Reqs' = [Reqs EXCEPT ![c] = call'[c].req]
         /\ Since' = [Since EXCEPT ![c] = call'[c].start]
         /\ Blind' = [Blind EXCEPT ![c] = call'[c].overtaken]
         /\ Verdicts' = [Verdicts EXCEPT ![c] = VerdictOf(call'[c])]
         /\ Reqs[c] = call[c].req /\ Since[c] = call[c].start
         /\ Blind[c] = call[c].overtaken /\ Verdicts[c] = VerdictOf(call[c])
<1>1. call \in [Call -> Calls]
  BY DEF VerbInv, VerbTypes
<1>2. \A b \in Call : b # c => call'[b] = call[b]
  BY <1>1
<1>3. Reqs' = [Reqs EXCEPT ![c] = call'[c].req]
  BY <1>2 DEF Reqs
<1>4. Since' = [Since EXCEPT ![c] = call'[c].start]
  BY <1>2 DEF Since
<1>5. Blind' = [Blind EXCEPT ![c] = call'[c].overtaken]
  BY <1>2 DEF Blind
<1>6. Verdicts' = [Verdicts EXCEPT ![c] = VerdictOf(call'[c])]
  BY <1>2 DEF Verdicts, VerdictOf
<1>7. QED
  BY <1>3, <1>4, <1>5, <1>6 DEF Reqs, Since, Blind, Verdicts

(* An element set to what it is.                                           *)
LEMMA SetToSame ==
  ASSUME NEW S, NEW f, f = [x \in S |-> f[x]], NEW a \in S, NEW v, v = f[a]
  PROVE  [f EXCEPT ![a] = v] = f
OBVIOUS

LEMMA ViewIsFunction ==
  /\ Reqs = [c \in Call |-> Reqs[c]] /\ Since = [c \in Call |-> Since[c]]
  /\ Blind = [c \in Call |-> Blind[c]] /\ Verdicts = [c \in Call |-> Verdicts[c]]
BY DEF Reqs, Since, Blind, Verdicts

(* What the invariant says of a call that has ended is what its answer     *)
(* promises.                                                               *)
LEMMA AnswerIsTrue ==
  ASSUME VerbTypes, NEW c \in Call, NEW k \in Calls, k.req \in Request, k.start <= LogEnd,
         k.out \in {"refused", "notfound"} => By(c) = {},
         ~k.overtaken => /\ k.out \in {"exists", "replayed", "conflict"} => By(c) = {}
                         /\ k.out = "ok" => \A d \in Docs : Target(k, d) => Written(c, d)
                         /\ k.out = "failed" => \E d \in Docs : Target(k, d) /\ ~Written(c, d),
         TrueVerdict(k), k.out # "notfound"
  PROVE  Promised!Promise(c, k.req, k.start, k.overtaken, k.out)
<1>1. LogEnd \in Nat /\ Len(Writes) = LogEnd /\ k.start \in 0 .. LogEnd /\ k.req.docs \subseteq Docs
  BY WritesFacts, RequestAssumption DEF Calls
<1> DEFINE T == Promised!Targets(k.req, k.start)
           W == Promised!WrittenBy(c)
<1>2. T \subseteq Docs /\ \A d \in Docs : d \in T <=> Target(k, d)
  BY <1>1, TargetsSeen
<1>3. (\A d \in Docs : d \in W <=> Written(c, d)) /\ (By(c) = {} => W = {})
  BY WrittenSeen
<1>4. \A n \in k.start .. LogEnd : \A d \in k.req.docs : Promised!RowAfter(n, d) = RowAt(d, n)
  BY <1>1, RowsSeen
<1> HIDE DEF T, W
<1>5. k.out = "ok" /\ ~k.overtaken => T \subseteq W
  BY <1>2, <1>3
<1>6. k.out = "failed" /\ ~k.overtaken => ~(T \subseteq W)
  BY <1>2, <1>3
<1>7. k.out \in {"exists", "replayed", "conflict"} /\ ~k.overtaken => W = {}
  BY <1>3
<1>8. k.out \in {"notfound", "refused"} => W = {}
  BY <1>3
<1>9. ASSUME k.out \in {"exists", "replayed"}, ~k.overtaken
      PROVE  \E n \in k.start .. Len(Writes) : \A d \in k.req.docs :
               IF k.out = "replayed" THEN Promised!RowAfter(n, d) = k.req.content
                                     ELSE Promised!RowAfter(n, d) # Absent
  <2>1. PICK n \in k.start .. LogEnd : \A d \in k.req.docs :
          IF k.out = "replayed" THEN RowAt(d, n) = k.req.content ELSE RowAt(d, n) # Absent
    BY <1>9 DEF TrueVerdict
  <2>2. QED
    BY <1>1, <1>4, <2>1
<1>10. k.out = "exists" /\ ~k.overtaken =>
         \E n \in k.start .. Len(Writes) : \A d \in k.req.docs : Promised!RowAfter(n, d) # Absent
  BY <1>9
<1>11. k.out = "replayed" /\ ~k.overtaken =>
         \E n \in k.start .. Len(Writes) : \A d \in k.req.docs : Promised!RowAfter(n, d) = k.req.content
  BY <1>9
<1>12. QED
  BY <1>5, <1>6, <1>7, <1>8, <1>10, <1>11 DEF Promised!Promise, T, W

(* The same of a call that a step has just ended, in the past before it.   *)
LEMMA AnswerOfStep ==
  ASSUME VerbInv, VerbInv', UNCHANGED history, NEW c \in Call, call'[c].pc # "idle",
         call'[c].out # "notfound"
  PROVE  Promised!Promise(c, call'[c].req, call'[c].start, call'[c].overtaken, call'[c].out)
<1>1. /\ call'[c] \in Calls /\ \A k \in {call'[c]} : CallOk(c, k)'
  BY DEF VerbInv, VerbTypes
<1>2. PICK k \in Calls : k = call'[c]
  BY <1>1
<1>3. CallOk(c, k)' /\ k.pc # "idle"
  BY <1>1, <1>2
<1>4. LogEnd' = LogEnd /\ By(c)' = By(c) /\ \A d, n : RowAt(d, n)' = RowAt(d, n)
  BY DEF LogEnd, By, RowAt
<1>5. k.req \in Request /\ k.start <= LogEnd
  BY <1>3, <1>4 DEF CallOk, SoundCall
<1>6. TrueVerdict(k)
  BY <1>3, <1>4 DEF CallOk, TrueVerdict
<1>7. \A d : (Target(k, d)' <=> Target(k, d)) /\ (Written(c, d)' <=> Written(c, d))
  BY <1>4 DEF Target, Written
<1>8. k.out \in {"refused", "notfound"} => By(c) = {}
  BY <1>3, <1>4 DEF CallOk, WritesOnce
<1>9. ~k.overtaken => /\ k.out \in {"exists", "replayed", "conflict"} => By(c) = {}
                      /\ k.out = "ok" => \A d \in Docs : Target(k, d) => Written(c, d)
                      /\ k.out = "failed" => \E d \in Docs : Target(k, d) /\ ~Written(c, d)
  BY <1>3, <1>4, <1>7 DEF CallOk, WritesOnce, WritesAll
<1>10. VerbTypes
  BY DEF VerbInv
<1>11. QED
  BY <1>2, <1>5, <1>6, <1>8, <1>9, <1>10, AnswerIsTrue

-----------------------------------------------------------------------------
(* The steps of the collection.                                            *)

LEMMA StutterColl ==
  ASSUME UNCHANGED <<history, call>>
  PROVE  CollStep
<1>1. Writes' = Writes
  BY WritesKept
<1>2. Reqs' = Reqs /\ Since' = Since /\ Blind' = Blind /\ Verdicts' = Verdicts
  BY DEF Reqs, Since, Blind, Verdicts, VerdictOf
<1>3. QED
  BY <1>1, <1>2 DEF CollStep, Promised!collectionVars

(* A call begins: with a plan, or with its answer.                         *)
LEMMA StartsColl ==
  ASSUME VerbInv, VerbInv', NEW c \in Call, NEW r \in Request, Starts(c, r), UNCHANGED Bucket,
         call'[c].out \in {"none", "exists", "replayed", "notfound"},
         call'[c].out = "notfound" => r.verb \notin Inserts /\ Matched(r) = {}
  PROVE  CollStep
<1> DEFINE w == call'[c]
           answer == VerdictOf(w)
<1>1. /\ call[c].pc = "idle" /\ call' = [call EXCEPT ![c] = w] /\ w.pc # "idle" /\ w.req = r
      /\ w.start = LogEnd /\ ~w.overtaken /\ UNCHANGED history
  BY DEF Starts, Bucket
<1>2. Writes' = Writes
  BY <1>1, WritesKept
<1>3. VerbTypes /\ LogEnd \in Nat /\ Len(Writes) = LogEnd /\ LogEnd \in 0 .. LogEnd
  <2>1. VerbTypes
    BY DEF VerbInv
  <2>2. QED
    BY <2>1, WritesFacts
<1>4. /\ Reqs' = [Reqs EXCEPT ![c] = r]
      /\ Since' = [Since EXCEPT ![c] = Len(Writes)]
      /\ Blind' = [Blind EXCEPT ![c] = w.overtaken]
      /\ Verdicts' = [Verdicts EXCEPT ![c] = answer]
      /\ Blind[c] = call[c].overtaken /\ Verdicts[c] = "idle"
  BY <1>1, <1>3, ViewMoves DEF VerdictOf
<1>5. Blind' = Blind
  <2>1. ~call[c].overtaken /\ call[c].overtaken \in BOOLEAN /\ w.overtaken \in BOOLEAN
    BY <1>1, CallType DEF CallOk, SoundCall, Calls, VerbInv, VerbTypes
  <2>2. w.overtaken = Blind[c]
    BY <1>1, <1>4, <2>1
  <2>3. QED
    BY <1>4, <2>2, ViewIsFunction, SetToSame
<1>6. answer \in {"open", "exists", "replayed", "notfound"}
  BY <1>1 DEF VerdictOf
<1>7. Promised!Promise(c, r, Len(Writes), FALSE, answer)
  <2>1. CASE w.out = "none"
    <3>1. answer = "open"
      BY <1>1, <2>1 DEF VerdictOf
    <3>2. QED
      BY <3>1 DEF Promised!Promise
  <2>2. CASE w.out \in {"exists", "replayed"}
    <3>1. answer = w.out /\ w.out # "notfound"
      BY <1>1, <2>2 DEF VerdictOf
    <3>2. Promised!Promise(c, r, LogEnd, w.overtaken, w.out)
      BY <1>1, <3>1, AnswerOfStep
    <3>3. w.overtaken = FALSE
      BY <1>1 DEF VerbInv, VerbTypes, Calls
    <3>4. QED
      BY <1>3, <3>1, <3>2, <3>3
  <2>3. CASE w.out = "notfound"
    <3>1. answer = "notfound"
      BY <1>1, <2>3 DEF VerdictOf
    <3>2. Promised!WrittenBy(c) = {}
      <4>1. By(c) = {}
        BY <1>1, CallType DEF CallOk, WritesOnce
      <4>2. QED
        BY <1>3, <4>1, WrittenSeen
    <3>3. Promised!Targets(r, Len(Writes)) = {}
      <4>1. r.verb \notin Inserts /\ Matched(r) = {} /\ r.docs \subseteq Docs
        BY <2>3, RequestAssumption
      <4>2. \A d \in r.docs : RowAt(d, LogEnd) = Absent
        BY <4>1 DEF Matched, Row
      <4>3. \A d \in r.docs : Promised!RowAfter(Len(Writes), d) = Absent
        BY <1>3, <4>1, <4>2, RowsSeen
      <4>4. QED
        BY <4>1, <4>3 DEF Promised!Targets, Promised!Inserting, Inserts
    <3>4. QED
      BY <3>1, <3>2, <3>3 DEF Promised!Promise
  <2>4. QED
    BY <2>1, <2>2, <2>3
<1>8. Verdicts'[c] = answer /\ Reqs'[c] = r
  BY <1>4, ViewIsFunction
<1> HIDE DEF answer
<1>9. Promised!Begin(c, r)
  BY <1>2, <1>4, <1>5, <1>6, <1>7, <1>8 DEF Promised!Begin
<1>10. QED
  BY <1>8, <1>9 DEF CollStep, Promised!CollectionNext

(* A call moves on without a write: nothing is seen, or it is blinded, or  *)
(* it ends.                                                                *)
LEMMA MovesColl ==
  ASSUME VerbInv, VerbInv', NEW c \in Call, Moves(c), UNCHANGED history,
         call'[c].out # "notfound",
         call'[c].overtaken = call[c].overtaken \/ call'[c].overtaken
  PROVE  CollStep
<1> DEFINE w == call'[c]
           answer == VerdictOf(w)
<1>1. /\ call[c].pc \in Running /\ call' = [call EXCEPT ![c] = w] /\ w.pc # "idle"
      /\ w.req = call[c].req /\ w.start = call[c].start
  BY DEF Moves
<1>2. Writes' = Writes
  BY WritesKept
<1>3. /\ Reqs' = [Reqs EXCEPT ![c] = w.req] /\ Since' = [Since EXCEPT ![c] = w.start]
      /\ Blind' = [Blind EXCEPT ![c] = w.overtaken] /\ Verdicts' = [Verdicts EXCEPT ![c] = answer]
      /\ Reqs[c] = call[c].req /\ Since[c] = call[c].start
      /\ Blind[c] = call[c].overtaken /\ Verdicts[c] = VerdictOf(call[c])
  BY <1>1, ViewMoves
<1>4. Reqs' = Reqs /\ Since' = Since
  <2>1. w.req = Reqs[c] /\ w.start = Since[c]
    BY <1>1, <1>3
  <2>2. QED
    BY <1>3, <2>1, ViewIsFunction, SetToSame
<1>5. Verdicts[c] = "open"
  BY <1>1, <1>3, CallType DEF VerdictOf, CallOk, SoundCall, Running
<1>6. Blind' = Blind \/ Blind' = [Blind EXCEPT ![c] = TRUE]
  <2>1. CASE w.overtaken = call[c].overtaken
    BY <1>3, <2>1, ViewIsFunction, SetToSame
  <2>2. CASE w.overtaken
    <3>1. w.overtaken = TRUE
      BY <2>2 DEF VerbInv, VerbTypes, Calls
    <3>2. QED
      BY <1>3, <3>1
  <2>3. QED
    BY <2>1, <2>2
<1>7. Blind'[c] = w.overtaken
  BY <1>3, ViewIsFunction
<1>8. CASE w.out = "none"
  <2>1. answer = Verdicts[c]
    BY <1>1, <1>5, <1>8 DEF VerdictOf
  <2>2. Verdicts' = Verdicts
    BY <1>3, <2>1, ViewIsFunction, SetToSame
  <2>3. CASE Blind' = Blind
    BY <1>2, <1>4, <2>2, <2>3 DEF CollStep, Promised!collectionVars
  <2>4. CASE Blind' = [Blind EXCEPT ![c] = TRUE]
    <3>1. Promised!Overtake(c)
      BY <1>2, <1>4, <1>5, <2>2, <2>4 DEF Promised!Overtake
    <3>2. QED
      BY <3>1 DEF CollStep, Promised!CollectionNext
  <2>5. QED
    BY <1>6, <2>3, <2>4
<1>9. CASE w.out # "none"
  <2>1. answer = w.out
    BY <1>1, <1>9 DEF VerdictOf
  <2>2. answer \in Promised!Answers
    BY <1>9, <2>1 DEF VerbInv, VerbTypes, Calls, Promised!Answers
  <2>3. Promised!Promise(c, w.req, w.start, w.overtaken, w.out)
    BY <1>1, AnswerOfStep
  <2>4. Promised!Promise(c, Reqs[c], Since[c], Blind'[c], answer)
    BY <1>1, <1>3, <1>7, <2>1, <2>3
  <2>5. Verdicts'[c] = answer
    BY <1>3, ViewIsFunction
  <2> HIDE DEF answer
  <2>6. Promised!Return(c)
    BY <1>2, <1>3, <1>4, <1>5, <1>6, <2>2, <2>4, <2>5 DEF Promised!Return
  <2>7. QED
    BY <2>6 DEF CollStep, Promised!CollectionNext
<1>10. QED
  BY <1>8, <1>9

-----------------------------------------------------------------------------
(* A commit is a write.                                                    *)

(* An appended element, and the rest as it was.                            *)
LEMMA SequenceGrows ==
  ASSUME NEW S, NEW s \in Seq(S), NEW t \in Seq(S), Len(t) = Len(s) + 1,
         \A i \in 1 .. Len(s) : t[i] = s[i]
  PROVE  t = Append(s, t[Len(s) + 1])
OBVIOUS

LEMMA WritesGrow ==
  ASSUME VerbInv, VerbInv', NEW e \in Entries, history' = Append(history, e)
  PROVE  /\ Writes' = Append(Writes, [by |-> e.by, doc |-> e.doc, row |-> RowOf(e)])
         /\ Len(Writes') = Len(Writes) + 1 /\ Writes'[Len(Writes')].doc = e.doc
<1> DEFINE Ws == [by : Call, doc : Docs, row : Body \cup {Absent}]
           new == [by |-> e.by, doc |-> e.doc, row |-> RowOf(e)]
<1>1. /\ VerbTypes /\ VerbTypes' /\ LogEnd \in Nat /\ LogEnd' = LogEnd + 1
      /\ \A i \in 1..LogEnd : history'[i] = history[i]
      /\ history'[LogEnd + 1] = e
  BY AppendEntry DEF VerbInv
<1>2. Writes \in Seq(Ws) /\ Len(Writes) = LogEnd
  BY <1>1, WritesFacts
<1>3. Writes' = [n \in 1 .. LogEnd' |->
                   [by |-> history'[n].by, doc |-> history'[n].doc, row |-> RowOf(history'[n])]]
  BY DEF Writes, RowOf
<1>4. \A i \in 1 .. LogEnd : i \in 1 .. LogEnd'
  BY <1>1
<1>5. \A i \in 1 .. LogEnd : Writes'[i] = Writes[i]
  BY <1>1, <1>3, <1>4 DEF Writes
<1>6. LogEnd + 1 \in 1 .. LogEnd'
  BY <1>1
<1>7. Writes'[LogEnd + 1] = new
  BY <1>1, <1>3, <1>6
<1>8. new \in Ws
  BY EntryType DEF RowOf
<1> HIDE DEF Ws, new
<1>9. \A i \in 1 .. LogEnd : Writes[i] \in Ws
  BY <1>2
<1>10. Writes' \in [1 .. LogEnd' -> Ws]
  <2>1. \A i \in 1 .. LogEnd' : i \in 1 .. LogEnd \/ i = LogEnd + 1
    BY <1>1
  <2>2. \A i \in 1 .. LogEnd' : Writes'[i] \in Ws
    BY <1>5, <1>7, <1>8, <1>9, <2>1
  <2>3. QED
    BY <1>3, <2>2
<1>11. Writes' \in Seq(Ws) /\ Len(Writes') = LogEnd'
  BY <1>1, <1>10
<1>12. Writes' = Append(Writes, Writes'[Len(Writes) + 1])
  <2>1. PICK t : t = Writes'
    OBVIOUS
  <2>2. t \in Seq(Ws) /\ Len(t) = Len(Writes) + 1 /\ \A i \in 1 .. Len(Writes) : t[i] = Writes[i]
    BY <1>1, <1>2, <1>5, <1>11, <2>1
  <2>3. QED
    BY <1>2, <2>1, <2>2, SequenceGrows
<1>13. Writes' = Append(Writes, new)
  BY <1>2, <1>7, <1>12
<1>14. Writes'[Len(Writes')].doc = e.doc
  BY <1>1, <1>7, <1>11 DEF new
<1>15. QED
  BY <1>1, <1>2, <1>11, <1>13, <1>14 DEF new

(* An entry of call c joins the history, while the call is open or was     *)
(* told nothing.                                                           *)
LEMMA WriteColl ==
  ASSUME CollInv, VerbInv', NEW c \in Call, NEW e \in Entries, e.by = c,
         history' = Append(history, e), NEW k \in Calls, k = call[c],
         k.pc \in Running \/ (k.pc = "done" /\ k.out = "ambiguous"),
         NEW w, call' = [call EXCEPT ![c] = w], w.pc # "idle", w.req = k.req, w.start = k.start,
         w.overtaken = k.overtaken, w.out = k.out,
         PlannedWrite(k.req, k.start, e), ~k.overtaken => ~Written(c, e.doc),
         e.op = "I" /\ ~k.overtaken => RowAt(e.doc, LogEnd) = Absent
  PROVE  CollStep
<1>1. VerbInv /\ VerbTypes /\ call \in [Call -> Calls] /\ CallOk(c, k) /\ e.doc \in Docs
  BY CallType, EntryType DEF CollInv, VerbInv, VerbTypes
<1>2. call'[c] = w /\ call' = [call EXCEPT ![c] = call'[c]]
  BY <1>1
<1>3. k.pc # "idle" /\ (k.pc \in Running => k.out = "none")
  BY <1>1 DEF Running, CallOk, SoundCall
<1>4. k.start \in 0 .. LogEnd /\ LogEnd \in Nat /\ LogEnd \in 0 .. LogEnd /\ k.req \in Request
  BY <1>1, <1>3, PlanFacts, HistoryType
<1>5. /\ Reqs' = [Reqs EXCEPT ![c] = w.req] /\ Since' = [Since EXCEPT ![c] = w.start]
      /\ Blind' = [Blind EXCEPT ![c] = w.overtaken] /\ Verdicts' = [Verdicts EXCEPT ![c] = VerdictOf(w)]
      /\ Reqs[c] = k.req /\ Since[c] = k.start
      /\ Blind[c] = k.overtaken /\ Verdicts[c] = VerdictOf(k)
  BY <1>1, <1>2, ViewMoves
<1>6. VerdictOf(w) = Verdicts[c] /\ Verdicts[c] \in {"open", "ambiguous"}
  BY <1>3, <1>5 DEF VerdictOf
<1>7. Reqs' = Reqs /\ Since' = Since /\ Blind' = Blind /\ Verdicts' = Verdicts
  <2>1. w.req = Reqs[c] /\ w.start = Since[c] /\ w.overtaken = Blind[c]
    BY <1>5
  <2>2. Reqs' = Reqs
    <3>1. Reqs' = [Reqs EXCEPT ![c] = w.req] /\ w.req = Reqs[c]
      BY <1>5, <2>1
    <3>2. [Reqs EXCEPT ![c] = w.req] = Reqs
      BY <3>1 DEF Reqs
    <3>3. QED
      BY <3>1, <3>2
  <2>3. Since' = Since
    <3>1. Since' = [Since EXCEPT ![c] = w.start] /\ w.start = Since[c]
      BY <1>5, <2>1
    <3>2. [Since EXCEPT ![c] = w.start] = Since
      BY <3>1 DEF Since
    <3>3. QED
      BY <3>1, <3>2
  <2>4. Blind' = Blind
    BY <1>5, <2>1, ViewIsFunction, SetToSame
  <2>5. Verdicts' = Verdicts
    BY <1>5, <1>6, ViewIsFunction, SetToSame
  <2>6. QED
    BY <2>2, <2>3, <2>4, <2>5
<1>8. /\ Writes' = Append(Writes, [by |-> c, doc |-> e.doc, row |-> RowOf(e)])
      /\ Len(Writes') = Len(Writes) + 1 /\ Writes'[Len(Writes')].doc = e.doc
  BY <1>1, WritesGrow
<1>9. /\ Promised!RowAfter(Since[c], e.doc) = RowAt(e.doc, k.start)
      /\ Promised!RowAfter(Len(Writes), e.doc) = RowAt(e.doc, LogEnd)
  <2>1. Promised!RowAfter(k.start, e.doc) = RowAt(e.doc, k.start)
    BY <1>1, <1>4, RowsSeen
  <2>2. Promised!RowAfter(LogEnd, e.doc) = RowAt(e.doc, LogEnd)
    BY <1>1, <1>4, RowsSeen
  <2>3. Len(Writes) = LogEnd
    BY <1>1, WritesFacts
  <2>4. QED
    BY <1>5, <2>1, <2>2, <2>3
<1>10. /\ e.doc \in k.req.docs /\ (e.op = "I" <=> k.req.verb \in Inserts)
       /\ (k.req.verb \notin Inserts => RowAt(e.doc, k.start) # Absent)
       /\ RowOf(e) = Promised!Effect(k.req, RowAt(e.doc, k.start))
  BY DEF PlannedWrite
<1>11. e.doc \in Promised!Targets(Reqs[c], Since[c])
  BY <1>5, <1>9, <1>10 DEF Promised!Targets, Promised!Inserting, Inserts
<1>12. RowOf(e) = Promised!Effect(Reqs[c], Promised!RowAfter(Since[c], e.doc))
  BY <1>5, <1>9, <1>10
<1>13. ~Blind[c] => e.doc \notin Promised!WrittenBy(c)
  BY <1>1, <1>5, WrittenSeen
<1>14. ~Blind[c] /\ Promised!Inserting(Reqs[c]) => Promised!RowAfter(Len(Writes), e.doc) = Absent
  BY <1>5, <1>9, <1>10 DEF Promised!Inserting, Inserts
<1>15. Promised!Write(c, e.doc)
  BY <1>6, <1>7, <1>8, <1>11, <1>12, <1>13, <1>14 DEF Promised!Write
<1>16. QED
  BY <1>8, <1>15 DEF CollStep, Promised!CollectionNext

(* The create of a call lands at the end of the log, and the call goes on  *)
(* to its check or to resolve it.                                          *)
LEMMA LandsColl ==
  ASSUME CollInv, VerbInv', NEW c \in Call, NEW k \in Calls, k = call[c], k.pc = "create",
         k.at = LogEnd, NEW e \in Entries, e = PendingOf(k), history' = Append(history, e),
         NEW w, call' = [call EXCEPT ![c] = w], w.pc # "idle", w.req = k.req, w.start = k.start,
         w.overtaken = k.overtaken, w.out = k.out
  PROVE  CollStep
<1>1. CallOk(c, k) /\ PlanOk(k) /\ k.pc \in Running
  BY CallType DEF CollInv, PlansOk, Running
<1>2. /\ e \in k.todo /\ e.by = c /\ (e.op = "I" <=> k.req.verb \in Inserts)
      /\ k.req.verb \in Inserts => k.req.docs = {e.doc}
  BY <1>1, PendingFacts DEF CallOk
<1>3. PlannedWrite(k.req, k.start, e)
  BY <1>1, <1>2 DEF PlanOk
<1>4. ~k.overtaken => ~Written(c, e.doc)
  BY <1>1, <1>2 DEF CallOk, WritesOnce, Written
<1>5. e.op = "I" /\ ~k.overtaken => RowAt(e.doc, k.at) = Absent
  BY <1>1, <1>2 DEF CallOk, SoundWindow
<1>6. e.op = "I" /\ ~k.overtaken => RowAt(e.doc, LogEnd) = Absent
  BY <1>5
<1>7. QED
  BY <1>1, <1>2, <1>3, <1>4, <1>6, WriteColl

(* A send in flight lands.                                                 *)
LEMMA DeliverColl ==
  ASSUME CollInv, VerbInv', NEW x \in late, Deliver(x)
  PROVE  PlansOk' /\ CollStep
<1>1. /\ x \in Sends /\ UNCHANGED <<certified, late, call>> /\ slots[x.at] = Absent
      /\ Land(x.at, x.entry) /\ VerbTypes /\ VerbInv /\ call \in [Call -> Calls]
  BY DEF Deliver, CollInv, VerbInv, VerbTypes
<1>2. PICK e \in Entries : e = x.entry
  BY <1>1 DEF Sends
<1>3. PICK c \in Call : c = e.by
  BY <1>2, EntryType
<1>4. PICK k \in Calls : k = call[c] /\ CallOk(c, k)
  BY <1>1, CallType
<1>5. LateFit(x, k)
  BY <1>1, <1>2, <1>3, <1>4 DEF VerbInv, LateOk
<1>6. PICK s \in Slot : s = x.at
  BY <1>1 DEF Sends
<1>7. s <= LogEnd /\ k.pc # "idle" /\ Land(s, e) /\ slots[s] = Absent
  BY <1>1, <1>2, <1>5, <1>6 DEF LateFit
<1>8. call' = [call EXCEPT ![c] = k]
  BY <1>1, <1>4
<1>9. ASSUME Grows PROVE PlansOk'
  <2>1. PlanOk(k)'
    BY <1>4, <1>9, PlanKept
  <2>2. \A y \in late' : y \in late
    BY <1>1
  <2>3. QED
    BY <1>4, <1>8, <1>9, <2>1, <2>2, PlansKept
<1>10. CASE s = LogEnd /\ history' = Append(history, e)
  <2>1. /\ k.pc \in Running \/ (k.pc = "done" /\ k.out = "ambiguous")
        /\ ~k.overtaken => ~Written(c, e.doc)
    BY <1>2, <1>3, <1>5, <1>6, <1>10 DEF LateFit, Running
  <2>2. e.op = "I" /\ ~k.overtaken => RowAt(e.doc, LogEnd) = Absent
    BY <1>2, <1>5, <1>6, <1>10 DEF LateFit
  <2>3. PlannedWrite(k.req, k.start, e)
    BY <1>2, <1>3, <1>4 DEF CollInv, PlansOk, SendOk
  <2>4. CollStep
    BY <1>3, <1>4, <1>7, <1>8, <1>10, <2>1, <2>2, <2>3, WriteColl
  <2>5. Grows
    BY <1>1, <1>10, AppendGrows
  <2>6. QED
    BY <1>9, <2>4, <2>5
<1>11. CASE history' = history
  <2>1. Grows
    BY <1>1, <1>11, HistoryKept DEF VerbTypes
  <2>2. QED
    BY <1>1, <1>9, <1>11, <2>1, StutterColl
<1>12. QED
  BY <1>1, <1>7, <1>10, <1>11, LandsWhere

-----------------------------------------------------------------------------
(* Every step is one of these.                                             *)

(* Call c moves on and writes nothing.                                     *)
Quiet(c) ==
  /\ Moves(c) /\ UNCHANGED <<history, certified>> /\ call'[c].out # "notfound"
  /\ call'[c].overtaken = call[c].overtaken \/ call'[c].overtaken

LEMMA QuietColl ==
  ASSUME CollInv, VerbInv', NEW c \in Call, Quiet(c)
  PROVE  PlansOk' /\ CollStep
<1>1. VerbInv /\ VerbTypes /\ Moves(c) /\ UNCHANGED history /\ certified' = certified /\ certified \in Nat
  BY DEF CollInv, VerbInv, VerbTypes, Quiet
<1>2. Grows
  BY <1>1, HistoryKept
<1>3. PlansOk'
  BY <1>1, <1>2, MovesPlan
<1>4. CollStep
  BY <1>1, MovesColl DEF Quiet
<1>5. QED
  BY <1>3, <1>4

LEMMA EndIsQuiet ==
  ASSUME VerbInv, NEW c \in Call, call[c].pc \in Running, NEW out, out # "notfound", NEW o,
         EndCall(c, out, o), o = call[c].overtaken \/ o, UNCHANGED <<history, certified, late>>
  PROVE  Quiet(c)
<1>1. PICK k \in Calls : k = call[c] /\ call \in [Call -> Calls]
  BY CallType DEF VerbTypes
<1>2. PICK w : w = [IdleCall EXCEPT !.pc = "done", !.req = k.req, !.start = k.start, !.out = out,
                                    !.overtaken = o]
  OBVIOUS
<1>3. call' = [call EXCEPT ![c] = w]
  BY <1>1, <1>2 DEF EndCall
<1>4. call'[c] = w /\ call' = [call EXCEPT ![c] = call'[c]]
  BY <1>1, <1>3
<1>5. /\ w.pc = "done" /\ w.out = out /\ w.req = k.req /\ w.start = k.start
      /\ w.todo = {} /\ w.overtaken = o
  BY <1>2 DEF IdleCall
<1>6. QED
  BY <1>1, <1>4, <1>5 DEF Quiet, Moves

LEMMA EndWithQuiet ==
  ASSUME VerbInv, NEW c \in Call, call[c].pc \in Running, NEW out, out # "notfound",
         EndWith(c, out), UNCHANGED <<history, certified, late>>
  PROVE  Quiet(c)
<1>1. call[c].overtaken \in BOOLEAN
  BY CallType DEF Calls
<1>2. QED
  BY <1>1, EndIsQuiet DEF EndWith

(* The call goes on, to a step of its commit.                              *)
LEMMA OnIsQuiet ==
  ASSUME VerbInv, NEW c \in Call, call[c].pc \in Running, NEW w, call' = [call EXCEPT ![c] = w],
         w.pc \in Running, w.req = call[c].req, w.start = call[c].start, w.todo \subseteq call[c].todo,
         w.out = call[c].out, w.overtaken = call[c].overtaken \/ w.overtaken,
         UNCHANGED <<history, certified>>,
         \A x \in late' : x \in late \/ x.entry \in call[c].todo
  PROVE  Quiet(c)
<1>1. call \in [Call -> Calls] /\ CallOk(c, call[c])
  BY CallType DEF VerbTypes
<1>2. call'[c] = w /\ call' = [call EXCEPT ![c] = call'[c]]
  BY <1>1
<1>3. w.pc # "idle" /\ w.out = "none"
  BY <1>1 DEF Running, CallOk, SoundCall
<1>4. QED
  BY <1>2, <1>3 DEF Quiet, Moves

LEMMA RefuseQuiet == ASSUME VerbInv, NEW c \in Call, Refuse(c) PROVE Quiet(c)
BY EndWithQuiet DEF Refuse, Running, Bucket

LEMMA AcceptQuiet == ASSUME VerbInv, NEW c \in Call, Accept(c) PROVE Quiet(c)
<1>1. /\ call[c].pc \in Running /\ UNCHANGED <<history, certified, late>> /\ call[c] \in Calls
      /\ call \in [Call -> Calls]
  BY CallType DEF Accept, Running, Bucket, VerbTypes
<1>2. CASE EndWith(c, "ok")
  BY <1>1, <1>2, EndWithQuiet
<1>3. CASE call' = [call EXCEPT ![c].pc = "next"]
  <2> DEFINE w == [call[c] EXCEPT !.pc = "next"]
  <2>1. call' = [call EXCEPT ![c] = w]
    BY <1>1, <1>3
  <2>2. /\ w.pc \in Running /\ w.req = call[c].req /\ w.start = call[c].start
        /\ w.todo \subseteq call[c].todo /\ w.out = call[c].out /\ w.overtaken = call[c].overtaken
    BY <1>1 DEF Calls, Running
  <2> HIDE DEF w
  <2>3. QED
    BY <1>1, <2>1, <2>2, OnIsQuiet
<1>4. QED
  BY <1>2, <1>3 DEF Accept

LEMMA ProbeTailQuiet == ASSUME VerbInv, NEW c \in Call, ProbeTail(c) PROVE Quiet(c)
<1>1. PICK e \in call[c].todo :
        call' = [call EXCEPT ![c].pc = "create", ![c].at = LogEnd, ![c].window = <<e>>]
  BY DEF ProbeTail
<1>2. /\ call[c].pc \in Running /\ UNCHANGED <<history, certified, late>> /\ call[c] \in Calls
      /\ call \in [Call -> Calls]
  BY CallType DEF ProbeTail, Running, Bucket, VerbTypes
<1> DEFINE w == [call[c] EXCEPT !.pc = "create", !.at = LogEnd, !.window = <<e>>]
<1>3. call' = [call EXCEPT ![c] = w]
  BY <1>1, <1>2
<1>4. /\ w.pc \in Running /\ w.req = call[c].req /\ w.start = call[c].start
      /\ w.todo \subseteq call[c].todo /\ w.out = call[c].out /\ w.overtaken = call[c].overtaken
  BY <1>2 DEF Calls, Running
<1> HIDE DEF w
<1>5. QED
  BY <1>2, <1>3, <1>4, OnIsQuiet

LEMMA OpenWindowQuiet == ASSUME VerbInv, NEW c \in Call, OpenWindow(c) PROVE Quiet(c)
<1>1. /\ call[c].pc \in Running /\ UNCHANGED <<history, certified, late>> /\ call[c] \in Calls
      /\ call \in [Call -> Calls]
  BY CallType DEF OpenWindow, Running, Bucket, VerbTypes
<1> DEFINE w == [call[c] EXCEPT !.pc = "window", !.floor = foldedTo, !.at = call[c].absentBelow]
<1>2. call' = [call EXCEPT ![c] = w]
  BY <1>1 DEF OpenWindow
<1>3. /\ w.pc \in Running /\ w.req = call[c].req /\ w.start = call[c].start
      /\ w.todo \subseteq call[c].todo /\ w.out = call[c].out /\ w.overtaken = call[c].overtaken
  BY <1>1 DEF Calls, Running
<1> HIDE DEF w
<1>4. QED
  BY <1>1, <1>2, <1>3, OnIsQuiet

(* A slot joins the window, and may show that retirement overtook it.      *)
LEMMA JoinQuiet ==
  ASSUME VerbInv, NEW c \in Call, call[c].pc \in Running, UNCHANGED Bucket, NEW floor,
         call' = [call EXCEPT ![c] = [call[c] EXCEPT
                    !.pc = "window", !.floor = floor, !.at = call[c].at + 1,
                    !.window = Append(call[c].window, slots[call[c].at]),
                    !.overtaken = call[c].overtaken \/ call[c].at < certified]]
  PROVE  Quiet(c)
<1>1. UNCHANGED <<history, certified, late>> /\ call[c] \in Calls
  BY CallType DEF Bucket
<1> DEFINE seen == Append(call[c].window, slots[call[c].at])
           o == call[c].overtaken \/ call[c].at < certified
           w == [call[c] EXCEPT !.pc = "window", !.floor = floor, !.at = call[c].at + 1,
                                !.window = seen, !.overtaken = o]
<1>2. o = call[c].overtaken \/ o
  BY <1>1 DEF Calls
<1>3. call' = [call EXCEPT ![c] = w]
  OBVIOUS
<1> HIDE DEF seen, o
<1>4. /\ w.pc \in Running /\ w.req = call[c].req /\ w.start = call[c].start
      /\ w.todo \subseteq call[c].todo /\ w.out = call[c].out /\ w.overtaken = o
  BY <1>1 DEF Calls, Running
<1> HIDE DEF w
<1>5. QED
  BY <1>1, <1>2, <1>3, <1>4, OnIsQuiet

LEMMA WindowEntryQuiet == ASSUME VerbInv, NEW c \in Call, WindowEntry(c) PROVE Quiet(c)
<1>1. call[c].pc = "window" /\ call[c].pc \in Running /\ UNCHANGED Bucket /\ call[c] \in Calls
      /\ call \in [Call -> Calls]
  BY CallType DEF WindowEntry, Running, VerbTypes
<1> DEFINE seen == Append(call[c].window, slots[call[c].at])
           o == call[c].overtaken \/ call[c].at < certified
           n == call[c].at + 1
<1>2. call' = [call EXCEPT ![c] = [call[c] EXCEPT !.window = seen, !.at = n, !.overtaken = o]]
  BY <1>1 DEF WindowEntry
<1> HIDE DEF seen, o, n
<1>3. [call[c] EXCEPT !.window = seen, !.at = n, !.overtaken = o]
      = [call[c] EXCEPT !.pc = "window", !.floor = call[c].floor, !.at = n, !.window = seen, !.overtaken = o]
  BY <1>1 DEF Calls
<1>4. call' = [call EXCEPT ![c] = [call[c] EXCEPT
                 !.pc = "window", !.floor = call[c].floor, !.at = n, !.window = seen, !.overtaken = o]]
  BY <1>2, <1>3
<1>5. QED
  BY <1>1, <1>4, JoinQuiet DEF n, seen, o

LEMMA WindowRetiredQuiet == ASSUME VerbInv, NEW c \in Call, WindowRetired(c) PROVE Quiet(c)
BY EndWithQuiet DEF WindowRetired, Running, Bucket

LEMMA WindowTailQuiet == ASSUME VerbInv, NEW c \in Call, WindowTail(c) PROVE Quiet(c)
<1>1. /\ call[c].pc \in Running /\ UNCHANGED <<history, certified, late>> /\ call[c] \in Calls
      /\ call \in [Call -> Calls]
  BY CallType DEF WindowTail, Running, Bucket, VerbTypes
<1>2. CASE decideInsertTarget(c) = "absent"
  <2> DEFINE w == [call[c] EXCEPT !.pc = "create"]
  <2>1. call' = [call EXCEPT ![c] = w]
    BY <1>1, <1>2 DEF WindowTail
  <2>2. /\ w.pc \in Running /\ w.req = call[c].req /\ w.start = call[c].start
        /\ w.todo \subseteq call[c].todo /\ w.out = call[c].out /\ w.overtaken = call[c].overtaken
    BY <1>1 DEF Calls, Running
  <2> HIDE DEF w
  <2>3. QED
    BY <1>1, <2>1, <2>2, OnIsQuiet
<1>3. CASE decideInsertTarget(c) # "absent"
  <2>1. EndWith(c, decideInsertTarget(c))
    BY <1>3 DEF WindowTail
  <2>2. decideInsertTarget(c) # "notfound"
    BY DEF decideInsertTarget
  <2>3. QED
    BY <1>1, <2>1, <2>2, EndWithQuiet
<1>4. QED
  BY <1>2, <1>3

LEMMA CreateRefusedQuiet == ASSUME VerbInv, NEW c \in Call, CreateRefused(c) PROVE Quiet(c)
BY EndWithQuiet DEF CreateRefused, Running, Bucket

(* A create that was not answered, and of which nothing is committed.      *)
LEMMA UncertainQuiet ==
  ASSUME VerbInv, NEW c \in Call, CreateUncertain(c), UNCHANGED history
  PROVE  Quiet(c)
<1>1. /\ call[c].pc = "create" /\ call[c].pc \in Running /\ UNCHANGED <<history, certified>>
      /\ call[c] \in Calls /\ call \in [Call -> Calls] /\ CallOk(c, call[c])
  BY CallType DEF CreateUncertain, Running, VerbTypes
<1>2. PICK w : w = [call[c] EXCEPT !.pc = "resolve"]
  OBVIOUS
<1>3. call' = [call EXCEPT ![c] = w]
  BY <1>1, <1>2 DEF CreateUncertain
<1>4. /\ w.pc \in Running /\ w.req = call[c].req /\ w.start = call[c].start
      /\ w.todo \subseteq call[c].todo /\ w.out = call[c].out /\ w.overtaken = call[c].overtaken
      /\ w.overtaken \in BOOLEAN
  BY <1>1, <1>2 DEF Calls, Running
<1>5. Send(c).entry \in call[c].todo
  <2>1. PendingOf(call[c]) \in call[c].todo
    BY <1>1, PendingFacts DEF CallOk
  <2>2. QED
    BY <2>1 DEF Send, Pending, PendingOf
<1>6. \A x \in late' : x \in late \/ x.entry \in call[c].todo
  BY <1>5 DEF CreateUncertain, MayStayInFlight
<1>7. QED
  BY <1>1, <1>3, <1>4, <1>6, OnIsQuiet

LEMMA ResolveOwnQuiet == ASSUME VerbInv, NEW c \in Call, ResolveOwn(c) PROVE Quiet(c)
<1>1. /\ call[c].pc \in Running /\ UNCHANGED <<history, certified, late>> /\ call[c] \in Calls
      /\ call \in [Call -> Calls]
  BY CallType DEF ResolveOwn, Running, Bucket, VerbTypes
<1>2. PICK w : w = [call[c] EXCEPT !.pc = "check"]
  OBVIOUS
<1>3. call' = [call EXCEPT ![c] = w]
  BY <1>1, <1>2 DEF ResolveOwn
<1>4. /\ w.pc \in Running /\ w.req = call[c].req /\ w.start = call[c].start
      /\ w.todo \subseteq call[c].todo /\ w.out = call[c].out /\ w.overtaken = call[c].overtaken
      /\ w.overtaken \in BOOLEAN
  BY <1>1, <1>2 DEF Calls, Running
<1>5. QED
  BY <1>1, <1>3, <1>4, OnIsQuiet

LEMMA ResolveForeignQuiet == ASSUME VerbInv, NEW c \in Call, ResolveForeign(c) PROVE Quiet(c)
<1>1. /\ call[c].pc \in Running /\ UNCHANGED Bucket /\ UNCHANGED <<history, certified, late>>
      /\ call[c] \in Calls /\ call \in [Call -> Calls]
  BY CallType DEF ResolveForeign, Running, Bucket, VerbTypes
<1> DEFINE o == call[c].overtaken \/ call[c].at < certified
<1>2. o = call[c].overtaken \/ o
  BY <1>1 DEF Calls
<1>3. CASE call[c].req.verb \in Inserts
  <2> DEFINE seen == Append(call[c].window, slots[call[c].at])
             n == call[c].at + 1
  <2>1. call' = [call EXCEPT ![c] = [call[c] EXCEPT
                   !.pc = "window", !.floor = n, !.at = n, !.window = seen, !.overtaken = o]]
    BY <1>1, <1>3 DEF ResolveForeign
  <2>2. QED
    BY <1>1, <2>1, JoinQuiet
<1>4. CASE call[c].req.verb \notin Inserts
  <2>1. PICK s : call' = [call EXCEPT ![c] = [call[c] EXCEPT !.pc = "create", !.at = s, !.overtaken = o]]
    BY <1>1, <1>4 DEF ResolveForeign
  <2> HIDE DEF o
  <2>2. PICK w : w = [call[c] EXCEPT !.pc = "create", !.at = s, !.overtaken = o]
    OBVIOUS
  <2>3. /\ w.pc \in Running /\ w.req = call[c].req /\ w.start = call[c].start
        /\ w.todo \subseteq call[c].todo /\ w.out = call[c].out /\ w.overtaken = o
    BY <1>1, <2>2 DEF Calls, Running
  <2>4. QED
    BY <1>1, <1>2, <2>1, <2>2, <2>3, OnIsQuiet
<1>5. QED
  BY <1>3, <1>4

LEMMA ResolveAmbiguousQuiet == ASSUME VerbInv, NEW c \in Call, ResolveAmbiguous(c) PROVE Quiet(c)
BY EndWithQuiet DEF ResolveAmbiguous, Running, Bucket

LEMMA CheckAbortedQuiet == ASSUME VerbInv, NEW c \in Call, CheckAborted(c) PROVE Quiet(c)
BY EndWithQuiet DEF CheckAborted, Running, Bucket

(* The row is done.                                                        *)
LEMMA RowDoneQuiet ==
  ASSUME VerbInv, NEW c \in Call, call[c].pc = "check", NEW o, RowDone(c, o),
         o = call[c].overtaken \/ o, UNCHANGED <<history, certified, late>>
  PROVE  Quiet(c)
<1>1. call[c].pc \in Running /\ call[c] \in Calls /\ call \in [Call -> Calls]
  BY CallType DEF Running, VerbTypes
<1> DEFINE rest == call[c].todo \ {Pending(c)}
<1>2. CASE EndCall(c, "ok", o)
  BY <1>1, <1>2, EndIsQuiet
<1>3. CASE call' = [call EXCEPT ![c].pc = "next", ![c].window = <<>>, ![c].todo = rest,
                                ![c].overtaken = o]
  <2>1. rest \subseteq call[c].todo
    OBVIOUS
  <2> HIDE DEF rest
  <2>2. PICK w : w = [call[c] EXCEPT !.pc = "next", !.window = <<>>, !.todo = rest, !.overtaken = o]
    OBVIOUS
  <2>3. call' = [call EXCEPT ![c] = w]
    BY <1>1, <1>3, <2>2
  <2>4. /\ w.pc \in Running /\ w.req = call[c].req /\ w.start = call[c].start
        /\ w.todo = rest /\ w.out = call[c].out /\ w.overtaken = o
    BY <1>1, <2>2 DEF Calls, Running
  <2>5. QED
    BY <1>1, <2>1, <2>3, <2>4, OnIsQuiet
<1>4. QED
  BY <1>2, <1>3 DEF RowDone

LEMMA CheckDeleteFloorQuiet == ASSUME VerbInv, NEW c \in Call, CheckDeleteFloor(c) PROVE Quiet(c)
<1>1. /\ call[c].pc = "check" /\ call[c].pc \in Running /\ UNCHANGED <<history, certified, late>>
      /\ call[c].overtaken \in BOOLEAN
  BY CallType DEF CheckDeleteFloor, Running, Calls
<1>2. CASE EndWith(c, "ambiguous")
  BY <1>1, <1>2, EndWithQuiet
<1>3. CASE RowDone(c, call[c].overtaken)
  BY <1>1, <1>3, RowDoneQuiet
<1>4. QED
  BY <1>2, <1>3 DEF CheckDeleteFloor

LEMMA CheckSkippedQuiet == ASSUME VerbInv, NEW c \in Call, CheckSkipped(c) PROVE Quiet(c)
<1>1. PICK o : o = (call[c].overtaken \/ call[c].at < certified)
  OBVIOUS
<1>2. call[c].pc = "check" /\ UNCHANGED <<history, certified, late>> /\ RowDone(c, o)
  BY <1>1 DEF CheckSkipped, Bucket
<1>3. o = call[c].overtaken \/ o
  BY <1>1, CallType DEF Calls
<1>4. QED
  BY <1>2, <1>3, RowDoneQuiet

(* A create lands: a write at the end of the log, nothing that is seen in  *)
(* the certified prefix.                                                   *)
LEMMA LandingColl ==
  ASSUME CollInv, VerbInv', NEW c \in Call, call[c].pc = "create", call[c].at \in Slot,
         slots[call[c].at] = Absent, Land(call[c].at, Pending(c)), UNCHANGED certified,
         NEW pc \in {"check", "resolve"}, call' = [call EXCEPT ![c] = [call[c] EXCEPT !.pc = pc]],
         \A x \in late' : x \in late \/ x = Send(c)
  PROVE  PlansOk' /\ CollStep
<1>1. PICK k \in Calls : k = call[c]
  BY CallType DEF CollInv
<1>2. PICK w : w = [k EXCEPT !.pc = pc]
  OBVIOUS
<1>3. /\ VerbInv /\ VerbTypes /\ call \in [Call -> Calls] /\ CallOk(c, k)
      /\ certified' = certified /\ certified \in Nat /\ k.pc \in Running
  BY <1>1, CallType DEF CollInv, VerbInv, VerbTypes, Running
<1>4. /\ w.pc \in Running /\ w.pc # "idle" /\ w.req = k.req /\ w.start = k.start /\ w.todo = k.todo
      /\ w.overtaken = k.overtaken /\ w.out = k.out /\ call' = [call EXCEPT ![c] = w]
  BY <1>1, <1>2 DEF Calls, Running
<1>5. call'[c] = w /\ call' = [call EXCEPT ![c] = call'[c]]
  BY <1>3, <1>4
<1>6. PICK e \in Entries : e = PendingOf(k) /\ e \in k.todo
  BY <1>1, <1>3, PendingFacts DEF CallOk
<1>7. Pending(c) = e /\ k.at <= LogEnd /\ Send(c).entry = e /\ k.out = "none"
  BY <1>1, <1>3, <1>6 DEF Pending, PendingOf, CallOk, SoundCall, Send
<1>8. Moves(c)
  BY <1>1, <1>3, <1>4, <1>5, <1>6, <1>7 DEF Moves
<1>9. \/ k.at = LogEnd /\ history' = Append(history, e)
      \/ history' = history /\ k.at < certified
  BY <1>1, <1>3, <1>7, LandsWhere
<1>10. CASE k.at = LogEnd /\ history' = Append(history, e)
  <2>1. Grows
    BY <1>3, <1>10, AppendGrows
  <2>2. PlansOk'
    BY <1>8, <2>1, MovesPlan
  <2>3. k.pc = "create"
    BY <1>1
  <2>4. CollStep
    BY <1>1, <1>4, <1>6, <1>10, <2>3, LandsColl
  <2>5. QED
    BY <2>2, <2>4
<1>11. CASE history' = history
  <2>1. Quiet(c)
    BY <1>1, <1>3, <1>4, <1>5, <1>7, <1>8, <1>11 DEF Quiet
  <2>2. QED
    BY <2>1, QuietColl
<1>12. QED
  BY <1>9, <1>10, <1>11

LEMMA CreateWinsColl ==
  ASSUME CollInv, VerbInv', NEW c \in Call, CreateWins(c)
  PROVE  PlansOk' /\ CollStep
<1>1. /\ call[c].pc = "create" /\ call[c].at \in Slot /\ slots[call[c].at] = Absent
      /\ Land(call[c].at, Pending(c)) /\ UNCHANGED certified
      /\ \A x \in late' : x \in late \/ x = Send(c)
  BY DEF CreateWins
<1>2. call' = [call EXCEPT ![c] = [call[c] EXCEPT !.pc = "check"]]
  BY DEF CreateWins, CollInv, VerbInv, VerbTypes
<1>3. QED
  BY <1>1, <1>2, LandingColl

LEMMA CreateUncertainColl ==
  ASSUME CollInv, VerbInv', NEW c \in Call, CreateUncertain(c)
  PROVE  PlansOk' /\ CollStep
<1>1. /\ call[c].pc = "create" /\ call[c].at \in Slot /\ UNCHANGED certified
      /\ \A x \in late' : x \in late \/ x = Send(c)
  BY DEF CreateUncertain, MayStayInFlight
<1>2. call' = [call EXCEPT ![c] = [call[c] EXCEPT !.pc = "resolve"]]
  BY DEF CreateUncertain, CollInv, VerbInv, VerbTypes
<1>3. CASE slots[call[c].at] = Absent /\ Land(call[c].at, Pending(c))
  BY <1>1, <1>2, <1>3, LandingColl
<1>4. CASE UNCHANGED history
  <2>1. Quiet(c)
    BY <1>4, UncertainQuiet DEF CollInv
  <2>2. QED
    BY <2>1, QuietColl
<1>5. QED
  BY <1>3, <1>4 DEF CreateUncertain

(* What a call may be told when it begins.                                 *)
LEMMA FirstAnswers ==
  ASSUME VerbInv, NEW c \in Call, NEW r \in Request,
         BeginInsert(c, r) \/ BeginUpdate(c, r) \/ BeginDelete(c, r) \/ BeginReplace(c, r)
  PROVE  call'[c].out \in {"none", "exists", "replayed", "notfound"}
<1>1. call \in [Call -> Calls]
  BY DEF VerbInv, VerbTypes
<1>2. ASSUME NEW writes, Plan(c, r, writes) PROVE call'[c].out = "none"
  BY <1>1, <1>2 DEF Plan, IdleCall
<1>3. ASSUME NEW out, call' = [call EXCEPT ![c] = [IdleCall EXCEPT
                        !.pc = "done", !.req = r, !.start = LogEnd, !.out = out]]
      PROVE  call'[c].out = out
  BY <1>1, <1>3 DEF IdleCall
<1>4. CASE BeginInsert(c, r)
  <2>1. PICK d \in r.docs :
          IF Row(d) # Absent
          THEN call' = [call EXCEPT ![c] = [IdleCall EXCEPT
                          !.pc = "done", !.req = r, !.start = LogEnd,
                          !.out = IF Replays(r, Row(d)) THEN "replayed" ELSE "exists"]]
          ELSE Plan(c, r, {Entry(c, d, "I", r.content)})
    BY <1>4 DEF BeginInsert
  <2>2. CASE Row(d) # Absent
    BY <1>3, <2>1, <2>2
  <2>3. CASE Row(d) = Absent
    BY <1>2, <2>1, <2>3
  <2>4. QED
    BY <2>2, <2>3
<1>5. CASE BeginUpdate(c, r)
  BY <1>2, <1>5 DEF BeginUpdate
<1>6. CASE BeginDelete(c, r)
  BY <1>2, <1>6 DEF BeginDelete
<1>7. CASE BeginReplace(c, r)
  BY <1>2, <1>3, <1>7 DEF BeginReplace
<1>8. QED
  BY <1>4, <1>5, <1>6, <1>7

LEMMA BeginsColl ==
  ASSUME CollInv, VerbInv', NEW c \in Call, NEW r \in Request,
         BeginInsert(c, r) \/ BeginUpdate(c, r) \/ BeginDelete(c, r) \/ BeginReplace(c, r)
  PROVE  PlansOk' /\ CollStep
<1>1. /\ PlansOk' /\ Starts(c, r) /\ UNCHANGED Bucket
      /\ call'[c].out = "notfound" => r.verb \notin Inserts /\ Matched(r) = {}
  BY BeginInsertPlan, BeginUpdatePlan, BeginDeletePlan, BeginReplacePlan
<1>2. call'[c].out \in {"none", "exists", "replayed", "notfound"}
  BY FirstAnswers DEF CollInv
<1>3. CollStep
  BY <1>1, <1>2, StartsColl DEF CollInv
<1>4. QED
  BY <1>1, <1>3

LEMMA CallStepColl ==
  ASSUME CollInv, VerbInv', NEW c \in Call, CallStep(c)
  PROVE  PlansOk' /\ CollStep
<1>1. VerbInv
  BY DEF CollInv
<1>2. \/ \E r \in Request : BeginInsert(c, r) \/ BeginUpdate(c, r) \/ BeginDelete(c, r) \/ BeginReplace(c, r)
      \/ Quiet(c) \/ CreateWins(c) \/ CreateUncertain(c)
  BY <1>1, RefuseQuiet, AcceptQuiet, ProbeTailQuiet, OpenWindowQuiet, WindowEntryQuiet,
     WindowRetiredQuiet, WindowTailQuiet, CreateRefusedQuiet, ResolveOwnQuiet, ResolveForeignQuiet,
     ResolveAmbiguousQuiet, CheckDeleteFloorQuiet, CheckSkippedQuiet, CheckAbortedQuiet DEF CallStep
<1>3. QED
  BY <1>2, BeginsColl, QuietColl, CreateWinsColl, CreateUncertainColl

(* No call moves.                                                          *)
LEMMA BackgroundColl ==
  ASSUME CollInv, UNCHANGED <<history, call, late>>
  PROVE  PlansOk' /\ CollStep
<1>1. \A d, n : RowAt(d, n)' = RowAt(d, n)
  BY DEF RowAt
<1>2. \A r, n, e : PlannedWrite(r, n, e)' <=> PlannedWrite(r, n, e)
  BY <1>1 DEF PlannedWrite, RowOf, Promised!Effect
<1>3. PlansOk'
  BY <1>2 DEF CollInv, PlansOk, PlanOk, SendOk
<1>4. QED
  BY <1>3, StutterColl

LEMMA CollInvStep ==
  ASSUME CollInv, [VerbNext]_verbVars
  PROVE  CollInv' /\ CollStep
<1>1. VerbInv'
  BY VerbInvStep DEF CollInv
<1>2. CASE \E c \in Call : CallStep(c)
  BY <1>1, <1>2, CallStepColl DEF CollInv
<1>3. CASE \E x \in late : Deliver(x)
  BY <1>1, <1>3, DeliverColl DEF CollInv
<1>4. CASE UNCHANGED <<history, call, late>>
  BY <1>1, <1>4, BackgroundColl DEF CollInv
<1>5. (\E c \in Call : CallStep(c)) \/ (\E x \in late : Deliver(x)) \/ UNCHANGED <<history, call, late>>
  BY DEF VerbNext, verbVars, FoldPrefix, CertifyPrefix, DeleteRetired
<1>6. QED
  BY <1>2, <1>3, <1>4, <1>5

LEMMA CollInvInit == ASSUME VerbInit PROVE CollInv /\ Promised!CollectionInit
<1>1. history = <<>> /\ call = [c \in Call |-> IdleCall] /\ late = {}
  BY DEF VerbInit
<1>2. VerbInv /\ VerbTypes /\ LogEnd = 0
  BY <1>1, VerbInvInit DEF VerbInv, LogEnd
<1>3. PlansOk
  BY <1>1 DEF PlansOk, PlanOk, IdleCall, Running
<1>4. Writes = << >>
  <2> DEFINE Ws == [by : Call, doc : Docs, row : Body \cup {Absent}]
  <2>1. Writes \in Seq(Ws) /\ Len(Writes) = 0
    BY <1>2, WritesFacts
  <2> HIDE DEF Ws
  <2>2. QED
    BY <2>1, EmptySeq
<1>5. /\ Reqs = [c \in Call |-> Absent] /\ Since = [c \in Call |-> 0]
      /\ Blind = [c \in Call |-> FALSE] /\ Verdicts = [c \in Call |-> "idle"]
  BY <1>1 DEF Reqs, Since, Blind, Verdicts, VerdictOf, IdleCall
<1>6. QED
  BY <1>2, <1>3, <1>4, <1>5 DEF CollInv, Promised!CollectionInit

(* The verbs of a collection implement the collection of atomic row        *)
(* writes, for any calls, requests, documents and length of the log, with  *)
(* any sends landing late: each commit of runInsert, update, replace and   *)
(* delete is one write of the row the verb planned from what it read, and  *)
(* only a call that was told nothing is written to after its end.  Of a    *)
(* call that retirement did not blind, a row is written once, an insert    *)
(* only over an absent row, and no answer says more than what was written  *)
(* or seen; the acknowledgement that skips the check of the delete floor   *)
(* on a slot below it is a blinded one.                                    *)
THEOREM VerbsImplementCollection == VerbSpec => IsCollection
<1>1. VerbInit => CollInv /\ Promised!CollectionInit
  BY CollInvInit
<1>2. CollInv /\ [VerbNext]_verbVars => CollInv' /\ [Promised!CollectionNext]_(Promised!collectionVars)
  BY CollInvStep DEF CollStep
<1>3. QED
  BY <1>1, <1>2, PTL DEF VerbSpec, IsCollection, Promised!CollectionSpec

-----------------------------------------------------------------------------
(* The storage contract                                                    *)

Statuses == {"none", "200", "403", "AccessDenied", "InvalidConfig", "429", "SlowDown",
             "400", "404", "409", "412", "500", "no-etag", "error", "thrown"}

PutCalls == [pc : {"send", "await", "answered", "done"}, adapter : Adapter,
          kind : {"create", "cas"}, base : Nat, attempt : 1..Attempts,
          uncertain : BOOLEAN, answer : Statuses,
          outcome : {"none", "ok", "AccessDenied", "InvalidConfig", "WriteConflict",
                     "NetworkError", "InvalidResponse", "notApplied"}]

(* Only attempts made so far are on the wire or applied, and none is both. *)
StorageTypes ==
  /\ put \in PutCalls
  /\ requests \subseteq 1..put.attempt
  /\ applied \subseteq 1..put.attempt
  /\ requests \cap applied = {}

(* The attempts that were applied or may still be.                         *)
Loose == requests \cup applied

(* The answers that prove that the attempt they answer was not applied.    *)
Refused == {"403", "AccessDenied", "InvalidConfig", "429", "SlowDown"}

(* An attempt is loose only once it is sent; while no attempt is uncertain *)
(* every earlier one was refused; a proof of refusal is one.               *)
LooseAttempts ==
  /\ put.pc = "answered" => put.answer # "none"
  /\ put.pc = "send" => put.attempt \notin Loose
  /\ ~put.uncertain => Loose \subseteq {put.attempt}
  /\ put.pc = "answered" /\ put.answer \in Refused => put.attempt \notin Loose
  /\ put.pc = "answered" /\ put.answer = "200" => put.attempt \in applied

(* The reported outcomes.                                                  *)
Reported ==
  /\ put.outcome # "none" => put.pc = "done"
  /\ put.kind = "create" /\ Definitive => Loose = {}
  /\ put.outcome = "ok" => applied # {}

StorageInv == StorageTypes /\ LooseAttempts /\ Reported

-----------------------------------------------------------------------------
LEMMA StorageInvInit == StorageInit => StorageInv
<1> SUFFICES ASSUME StorageInit PROVE StorageInv
  OBVIOUS
<1>1. PICK a \in Adapter, kind \in {"create", "cas"} : put = NewCall(a, kind, object)
  BY DEF StorageInit
<1>2. object \in Nat
  BY DEF StorageInit
<1>3. put \in PutCalls
  BY <1>1, <1>2, StorageAssumption DEF NewCall, PutCalls, Statuses
<1>4. QED
  BY <1>1, <1>3
  DEF StorageInv, StorageTypes, LooseAttempts, Reported, Loose, Definitive, NewCall, StorageInit

LEMMA SendAttemptInv == StorageInv /\ SendAttempt => StorageInv'
BY StorageAssumption
DEF StorageInv, StorageTypes, LooseAttempts, Reported, Loose, Definitive, PutCalls, SendAttempt

LEMMA SignFailsInv == StorageInv /\ SignFails => StorageInv'
BY DEF StorageInv, StorageTypes, LooseAttempts, Reported, Loose, Definitive, PutCalls, Statuses,
       Refused, SignFails

LEMMA LoseAnswerInv == StorageInv /\ LoseAnswer => StorageInv'
BY DEF StorageInv, StorageTypes, LooseAttempts, Reported, Loose, Definitive, PutCalls, Statuses,
       Refused, LoseAnswer

(* What the store answers, and what the answers of each kind leave open.   *)
LEMMA StoreAnswers ==
  /\ Refusals \subseteq Statuses \ {"none", "200"}
  /\ Acceptances \subseteq Statuses \ ({"none"} \cup Refused)
BY DEF Refusals, Acceptances, Statuses, Refused

LEMMA StoreRefusesInv ==
  ASSUME StorageInv, NEW a \in 1..Attempts, StoreRefuses(a)
  PROVE  StorageInv'
<1>1. PICK status \in Statuses \ {"none", "200"} : put' = Answered(a, status)
  BY StoreAnswers DEF StoreRefuses
<1>2. put' \in PutCalls /\ put'.attempt = put.attempt /\ put'.uncertain = put.uncertain
      /\ put'.kind = put.kind /\ put'.outcome = put.outcome
  BY <1>1 DEF StorageInv, StorageTypes, PutCalls, Answered
<1>3. put' = put \/ (a = put.attempt /\ put.pc = "await" /\ put'.pc = "answered"
                      /\ put'.answer = status)
  BY <1>1 DEF StorageInv, StorageTypes, PutCalls, Answered
<1>4. requests' = requests \ {a} /\ applied' = applied /\ a \notin applied
  BY DEF StoreRefuses, StorageInv, StorageTypes
<1>5. QED
  BY <1>1, <1>2, <1>3, <1>4
  DEF StorageInv, StorageTypes, LooseAttempts, Reported, Loose, Definitive

LEMMA StoreAppliesInv ==
  ASSUME StorageInv, NEW a \in 1..Attempts, StoreApplies(a)
  PROVE  StorageInv'
<1>1. PICK status \in Statuses \ ({"none"} \cup Refused) : put' = Answered(a, status)
  BY StoreAnswers DEF StoreApplies
<1>2. put' \in PutCalls /\ put'.attempt = put.attempt /\ put'.uncertain = put.uncertain
      /\ put'.kind = put.kind /\ put'.outcome = put.outcome
  BY <1>1 DEF StorageInv, StorageTypes, PutCalls, Answered
<1>3. put' = put \/ (a = put.attempt /\ put.pc = "await" /\ put'.pc = "answered"
                      /\ put'.answer = status)
  BY <1>1 DEF StorageInv, StorageTypes, PutCalls, Answered
<1>4. /\ requests' = requests \ {a} /\ applied' = applied \cup {a}
      /\ a \in requests /\ a \in Loose /\ Loose' = Loose
  BY DEF StoreApplies, Loose
<1>5. QED
  BY <1>1, <1>2, <1>3, <1>4
  DEF StorageInv, StorageTypes, LooseAttempts, Reported, Definitive

LEMMA PutOkInv == StorageInv /\ PutOk => StorageInv'
BY DEF StorageInv, StorageTypes, LooseAttempts, Reported, Loose, Definitive, PutCalls, PutOk, Done

(* A code that Writer takes for a proof comes from an answer that is one;  *)
(* the conversion of a create's error keeps it from covering for an        *)
(* uncertain attempt.                                                      *)
LEMMA PutPermanentInv == StorageInv /\ PutPermanent => StorageInv'
<1> SUFFICES ASSUME StorageInv, PutPermanent PROVE StorageInv'
  OBVIOUS
<1> DEFINE code == ErrorOf(put.answer)
           out  == IF put.kind = "create" /\ put.uncertain /\ code # "WriteConflict"
                   THEN "NetworkError" ELSE code
<1>1. code \in {"AccessDenied", "InvalidConfig", "InvalidResponse", "WriteConflict"}
  BY DEF PutPermanent, Permanent
<1>2. code \in {"AccessDenied", "InvalidConfig"} => put.answer \in Refused
  <2>1. put.answer \in Statuses \ {"none", "200"}
    BY DEF PutPermanent, StorageInv, StorageTypes, PutCalls, LooseAttempts
  <2>2. QED
    BY <2>1 DEF ErrorOf, Refused, Statuses
<1>3. put' = Done(out) /\ UNCHANGED <<requests, applied>> /\ put.pc = "answered"
  BY DEF PutPermanent
<1> HIDE DEF code
<1>4. put' \in PutCalls
  BY <1>1, <1>3 DEF StorageInv, StorageTypes, PutCalls, Done
<1>5. put'.pc = "done" /\ put'.outcome = out /\ put'.attempt = put.attempt
      /\ put'.uncertain = put.uncertain /\ put'.kind = put.kind
  BY <1>3 DEF StorageInv, StorageTypes, PutCalls, Done
<1>6. put.kind = "create" /\ out \in {"AccessDenied", "InvalidConfig", "notApplied"}
        => Loose = {}
  BY <1>1, <1>2, <1>3 DEF StorageInv, LooseAttempts, Loose
<1>7. out # "ok"
  BY <1>1
<1>8. QED
  BY <1>3, <1>4, <1>5, <1>6, <1>7
  DEF StorageInv, StorageTypes, LooseAttempts, Reported, Loose, Definitive

LEMMA PutRetryInv == StorageInv /\ PutRetry => StorageInv'
<1> SUFFICES ASSUME StorageInv, PutRetry PROVE StorageInv'
  OBVIOUS
<1> DEFINE unc == put.uncertain \/ ~isThrottled(put.answer)
           out == IF put.kind = "create" /\ ~unc THEN "notApplied" ELSE "NetworkError"
<1>1. ~unc => Loose = {}
  BY DEF StorageInv, LooseAttempts, Loose, PutRetry, isThrottled, Refused
<1>2. unc \in BOOLEAN
  BY DEF isThrottled, StorageInv, StorageTypes, PutCalls
<1>3. UNCHANGED <<requests, applied>> /\ put.pc = "answered"
  BY DEF PutRetry
<1>4. put.attempt \in 1..Attempts /\ put.outcome = "none"
  BY <1>3 DEF StorageInv, StorageTypes, PutCalls, Reported
<1>5. CASE put.attempt < Attempts
  <2>1. put' = [put EXCEPT !.pc = "send", !.attempt = put.attempt + 1, !.uncertain = unc,
                           !.answer = "none"]
    BY <1>5 DEF PutRetry
  <2> HIDE DEF unc
  <2>2. put' \in PutCalls
    <3>1. put.attempt + 1 \in 1..Attempts
      BY <1>4, <1>5, StorageAssumption
    <3>2. "none" \in Statuses
      BY DEF Statuses
    <3>3. QED
      BY <1>2, <2>1, <3>1, <3>2 DEF StorageInv, StorageTypes, PutCalls
  <2>3. put'.pc = "send" /\ put'.attempt = put.attempt + 1 /\ put'.uncertain = unc
        /\ put'.outcome = "none"
    BY <1>4, <2>1 DEF StorageInv, StorageTypes, PutCalls
  <2>4. requests' \subseteq 1..put.attempt /\ applied' \subseteq 1..put.attempt
    BY <1>3 DEF StorageInv, StorageTypes
  <2>5. put'.attempt \notin Loose'
    BY <1>4, <2>3, <2>4 DEF Loose
  <2>6. StorageTypes'
    BY <1>3, <1>4, <2>2, <2>3, <2>4 DEF StorageInv, StorageTypes
  <2>7. QED
    BY <1>1, <1>3, <2>3, <2>5, <2>6 DEF StorageInv, LooseAttempts, Reported, Loose, Definitive
<1>6. CASE ~(put.attempt < Attempts)
  <2>1. put' = [Done(out) EXCEPT !.uncertain = unc]
    BY <1>6 DEF PutRetry
  <2>2. out \in {"notApplied", "NetworkError"} /\ (put.kind = "create" /\ out = "notApplied" => ~unc)
    OBVIOUS
  <2> HIDE DEF unc, out
  <2>3. put' \in PutCalls
    BY <1>2, <2>1, <2>2 DEF StorageInv, StorageTypes, PutCalls, Done
  <2>4. put'.pc = "done" /\ put'.outcome = out /\ put'.attempt = put.attempt
        /\ put'.uncertain = unc /\ put'.kind = put.kind
    BY <2>1 DEF StorageInv, StorageTypes, PutCalls, Done
  <2>5. QED
    BY <1>1, <1>3, <2>2, <2>3, <2>4
    DEF StorageInv, StorageTypes, LooseAttempts, Reported, Loose, Definitive
<1>7. QED
  BY <1>5, <1>6

LEMMA StorageInvNext == StorageInv /\ [StorageNext]_storageVars => StorageInv'
<1> SUFFICES ASSUME StorageInv, [StorageNext]_storageVars PROVE StorageInv'
  OBVIOUS
<1>1. CASE UNCHANGED <<put, requests, applied>>
  BY <1>1 DEF StorageInv, StorageTypes, LooseAttempts, Reported, Loose, Definitive
<1>2. ASSUME NEW a \in 1..Attempts, StoreRefuses(a) \/ StoreApplies(a) PROVE StorageInv'
  BY <1>2, StoreRefusesInv, StoreAppliesInv
<1>3. QED
  BY <1>1, <1>2, SendAttemptInv, SignFailsInv, LoseAnswerInv, PutOkInv, PutPermanentInv,
     PutRetryInv
  DEF StorageNext, storageVars, PeerWrites, PeerDeletes

(* An error that Writer takes for proof that its create did not land is    *)
(* one, whatever the adapter, however many attempts the loop makes and     *)
(* whatever is still on the wire; and a success is the call's own.         *)
THEOREM VerdictsAreTrue == StorageSpec => []VerdictIsTrue
<1>1. StorageInv => VerdictIsTrue
  BY DEF StorageInv, Reported, Loose, VerdictIsTrue
<1>2. QED
  BY StorageInvInit, StorageInvNext, <1>1, PTL DEF StorageSpec

-----------------------------------------------------------------------------
(* LocalFs                                                                 *)

FsPcs == {"new", "format", "scan", "reread", "stamp", "mkdir", "enter", "queued", "stage",
          "read", "ok", "aborted", "conflict", "refused", "error", "dead"}

FsCallType == [pc : FsPcs, i : FsInst \cup {NoCall.i}, kind : Kind, base : FsCall \cup {NoFile},
            lock : LockKey, dirty : BOOLEAN, aborted : BOOLEAN]

(* Until it takes its ticket, a call belongs to an instance.               *)
FsTypes ==
  /\ root \in [exists : BOOLEAN, marker : BOOLEAN, legacy : BOOLEAN]
  /\ file \in FsCall \cup {NoFile}
  /\ inst \in [FsInst -> [real : BOOLEAN, checked : BOOLEAN]]
  /\ fsCall \in [FsCall -> FsCallType]
  /\ queue \in [LockKey -> Seq(FsCall)]
  /\ strayed \in BOOLEAN
  /\ \A c \in FsCall : fsCall[c].pc \in {"format", "scan", "reread", "stamp", "mkdir", "enter"}
                          => fsCall[c].i \in FsInst

(* A writer that is past the format check has seen the marker, so that a   *)
(* file, or a memo of the check, implies the marker; and a scan that found *)
(* something found older data or came after the marker.                    *)
MarkerFirst ==
  /\ file # NoFile => root.marker
  /\ \A i \in FsInst : inst[i].checked => root.marker
  /\ \A c \in FsCall :
       /\ Makes(c) /\ fsCall[c].pc \in {"mkdir", "enter", "queued", "stage"} => root.marker
       /\ fsCall[c].pc = "reread" /\ fsCall[c].dirty => root.legacy \/ root.marker
       /\ fsCall[c].pc = "refused" => root.legacy

(* The tickets of a lock are of distinct calls that queue for it.          *)
QueueIsSound ==
  \A l \in LockKey :
    /\ \A j \in 1..Len(queue[l]) : /\ fsCall[queue[l][j]].pc \in {"queued", "stage"}
                                    /\ fsCall[queue[l][j]].lock = l
    /\ \A j, k \in 1..Len(queue[l]) : queue[l][j] = queue[l][k] => j = k

(* A writer has made the root before it asks for its lock key, so that its *)
(* lock is the resolved one; it stages only while it holds it.             *)
WritersLock ==
  \A c \in FsCall :
    /\ Makes(c) /\ fsCall[c].pc \in {"enter", "queued", "stage"} => root.exists
    /\ Makes(c) /\ fsCall[c].pc \in {"queued", "stage"} => fsCall[c].lock = "real"
    /\ fsCall[c].pc \in {"mkdir", "stage"} => Makes(c)
    /\ fsCall[c].pc = "stage" => queue["real"] # <<>> /\ Head(queue["real"]) = c

(* What a staged CAS was compared with is still there.                     *)
StagedCasHolds ==
  \A c \in FsCall :
    fsCall[c].pc = "stage" /\ fsCall[c].kind = "cas"
      => file = fsCall[c].base \/ (strayed /\ file = NoFile)

FsInv == FsTypes /\ MarkerFirst /\ QueueIsSound /\ WritersLock /\ StagedCasHolds

-----------------------------------------------------------------------------
LEMMA NoCallType ==
  NoCall \in FsCallType /\ NoCall.pc = "new" /\ NoCall.dirty = FALSE
BY DEF NoCall, FsCallType, FsPcs, Kind, LockKey

LEMMA FsInvInit == FsInit => FsInv
<1> SUFFICES ASSUME FsInit PROVE FsInv
  OBVIOUS
<1>1. FsTypes
  <2>1. queue \in [LockKey -> Seq(FsCall)]
    BY DEF FsInit
  <2>2. root \in [exists : BOOLEAN, marker : BOOLEAN, legacy : BOOLEAN]
    <3>1. [exists |-> FALSE, marker |-> FALSE, legacy |-> FALSE]
            \in [exists : BOOLEAN, marker : BOOLEAN, legacy : BOOLEAN]
      OBVIOUS
    <3>2. [exists |-> TRUE, marker |-> FALSE, legacy |-> FALSE]
            \in [exists : BOOLEAN, marker : BOOLEAN, legacy : BOOLEAN]
      OBVIOUS
    <3>3. [exists |-> TRUE, marker |-> FALSE, legacy |-> TRUE]
            \in [exists : BOOLEAN, marker : BOOLEAN, legacy : BOOLEAN]
      OBVIOUS
    <3>4. QED
      BY <3>1, <3>2, <3>3, Zenon DEF FsInit
  <2>3. inst \in [FsInst -> [real : BOOLEAN, checked : BOOLEAN]]
    BY DEF FsInit, NewInstance
  <2>4. QED
    BY <2>1, <2>2, <2>3, NoCallType DEF FsTypes, FsInit
<1>2. \A c \in FsCall : fsCall[c].pc = "new"
  BY NoCallType DEF FsInit
<1>3. MarkerFirst
  BY <1>2 DEF FsInit, MarkerFirst, NewInstance
<1>4. QueueIsSound
  BY DEF FsInit, QueueIsSound
<1>5. WritersLock /\ StagedCasHolds
  BY <1>2 DEF WritersLock, StagedCasHolds
<1>6. QED
  BY <1>1, <1>3, <1>4, <1>5 DEF FsInv

(* A step of a call outside the lock that sets nothing but its own record, *)
(* what its instance remembers, and the root.                              *)
Makers == {"create", "cas", "put"}

LEMMA OutsideInv ==
  ASSUME FsInv, NEW c \in FsCall, NEW rec \in FsCallType,
         fsCall' = [fsCall EXCEPT ![c] = rec],
         fsCall[c].pc \notin {"queued", "stage"}, rec.pc \notin {"queued", "stage"},
         UNCHANGED <<file, queue, strayed>>,
         root' \in [exists : BOOLEAN, marker : BOOLEAN, legacy : BOOLEAN],
         root.exists => root'.exists, root.marker => root'.marker, root'.legacy = root.legacy,
         inst' \in [FsInst -> [real : BOOLEAN, checked : BOOLEAN]],
         \A i \in FsInst : inst'[i].checked => root'.marker,
         rec.pc \in {"format", "scan", "reread", "stamp", "mkdir", "enter"} => rec.i \in FsInst,
         rec.pc = "mkdir" => rec.kind \in Makers /\ root'.marker,
         rec.pc = "enter" /\ rec.kind \in Makers => root'.marker /\ root'.exists,
         rec.pc = "reread" /\ rec.dirty => root'.legacy \/ root'.marker,
         rec.pc = "refused" => root'.legacy
  PROVE  FsInv'
<1>1. /\ fsCall' \in [FsCall -> FsCallType] /\ fsCall'[c] = rec
      /\ \A d \in FsCall : d # c => fsCall'[d] = fsCall[d]
  BY DEF FsInv, FsTypes
<1>2. FsTypes'
  BY <1>1 DEF FsInv, FsTypes
<1>3. MarkerFirst'
  BY <1>1 DEF FsInv, MarkerFirst, Makes, Makers
<1>4. QueueIsSound'
  <2>1. \A l \in LockKey : \A j \in 1..Len(queue[l]) : queue[l][j] \in FsCall \ {c}
    BY DEF FsInv, FsTypes, QueueIsSound
  <2>2. QED
    BY <1>1, <2>1 DEF FsInv, QueueIsSound
<1>5. WritersLock'
  BY <1>1 DEF FsInv, WritersLock, Makes, Makers
<1>6. StagedCasHolds'
  BY <1>1 DEF FsInv, StagedCasHolds
<1>7. QED
  BY <1>2, <1>3, <1>4, <1>5, <1>6 DEF FsInv

LEMMA FsBeginInv == ASSUME FsInv, NEW c \in FsCall, FsBegin(c) PROVE FsInv'
<1>1. PICK i \in FsInst, k \in Kind :
        fsCall' = [fsCall EXCEPT ![c] = [NoCall EXCEPT !.pc = "format", !.i = i, !.kind = k,
                                          !.base = IF k = "cas" THEN file ELSE NoFile]]
  BY DEF FsBegin
<1> DEFINE rec == [NoCall EXCEPT !.pc = "format", !.i = i, !.kind = k,
                                 !.base = IF k = "cas" THEN file ELSE NoFile]
<1>2. rec \in FsCallType /\ rec.pc = "format" /\ rec.i = i
  BY NoCallType DEF FsCallType, FsPcs, FsInv, FsTypes
<1> HIDE DEF rec
<1>3. fsCall' = [fsCall EXCEPT ![c] = rec]
  BY <1>1 DEF rec
<1>4. QED
  BY <1>2, <1>3, OutsideInv DEF FsBegin, FsInv, FsTypes, MarkerFirst

(* What a call of the accepted root does next.                             *)
LEMMA PastType ==
  ASSUME FsInv, NEW c \in FsCall
  PROVE  /\ Past(c) \in {"read", "enter", "mkdir"}
         /\ Past(c) = "enter" => ~Makes(c)
         /\ Past(c) = "mkdir" => Makes(c)
BY DEF Past, Makes, FsInv, FsTypes, FsCallType, Kind

LEMMA CanonicalType ==
  ASSUME FsInv, NEW i \in FsInst
  PROVE  /\ Canonical(i) \in [FsInst -> [real : BOOLEAN, checked : BOOLEAN]]
         /\ \A h \in FsInst : Canonical(i)[h].checked = inst[h].checked
         /\ root.exists => Canonical(i)[i].real
BY DEF Canonical, FsInv, FsTypes

LEMMA EnsureFormatInv == ASSUME FsInv, NEW c \in FsCall, EnsureFormat(c) PROVE FsInv'
<1> DEFINE i == fsCall[c].i
           pc == IF inst[i].checked \/ root.marker THEN Past(c) ELSE "scan"
           rec == [fsCall[c] EXCEPT !.pc = pc]
<1>1. i \in FsInst /\ fsCall[c].pc = "format"
  BY DEF EnsureFormat, FsInv, FsTypes
<1>2. pc = "scan" \/ (pc = Past(c) /\ root.marker)
  BY <1>1 DEF FsInv, MarkerFirst
<1>3. pc \in FsPcs
  BY PastType DEF FsPcs
<1>4. fsCall' = [fsCall EXCEPT ![c] = rec]
  BY DEF EnsureFormat, Go, FsInv, FsTypes
<1>5. inst' \in [FsInst -> [real : BOOLEAN, checked : BOOLEAN]]
      /\ \A h \in FsInst : inst'[h].checked => root.marker
  <2>1. CASE inst[i].checked \/ root.marker
    <3>1. root.marker
      BY <1>1, <2>1 DEF FsInv, MarkerFirst
    <3>2. inst' = [Canonical(i) EXCEPT ![i].checked = TRUE]
      BY <2>1 DEF EnsureFormat
    <3>3. Canonical(i) \in [FsInst -> [real : BOOLEAN, checked : BOOLEAN]]
      BY <1>1, CanonicalType
    <3>4. QED
      BY <1>1, <3>1, <3>2, <3>3
  <2>2. CASE ~(inst[i].checked \/ root.marker)
    <3>1. inst' = Canonical(i)
      BY <2>2 DEF EnsureFormat
    <3>2. QED
      BY <1>1, <3>1, CanonicalType DEF FsInv, MarkerFirst
  <2>3. QED
    BY <2>1, <2>2
<1> HIDE DEF pc
<1>6. rec \in FsCallType /\ rec.pc = pc /\ rec.i = i /\ rec.kind = fsCall[c].kind
  BY <1>3 DEF FsInv, FsTypes, FsCallType
<1>7. UNCHANGED <<root, file, queue, strayed>>
  BY DEF EnsureFormat
<1>8. root \in [exists : BOOLEAN, marker : BOOLEAN, legacy : BOOLEAN]
  BY DEF FsInv, FsTypes
<1> HIDE DEF rec
<1>9. QED
  BY <1>1, <1>2, <1>4, <1>5, <1>6, <1>7, <1>8, PastType, OutsideInv DEF Makes, Makers

LEMMA FsScanInv == ASSUME FsInv, NEW c \in FsCall, FsScan(c) PROVE FsInv'
<1>1. fsCall[c].pc = "scan" /\ fsCall[c] \in FsCallType /\ fsCall[c].i \in FsInst
  BY DEF FsScan, FsInv, FsTypes
<1>2. UNCHANGED <<file, inst, queue, strayed>>
      /\ root \in [exists : BOOLEAN, marker : BOOLEAN, legacy : BOOLEAN]
      /\ inst \in [FsInst -> [real : BOOLEAN, checked : BOOLEAN]]
      /\ \A h \in FsInst : inst[h].checked => root.marker
  BY DEF FsScan, FsInv, FsTypes, MarkerFirst
<1>3. CASE ~root.exists /\ ~Makes(c)
  <2> DEFINE rec == [fsCall[c] EXCEPT !.pc = Past(c)]
  <2>1. rec \in FsCallType /\ rec.pc = Past(c) /\ rec.i = fsCall[c].i
        /\ rec.kind = fsCall[c].kind
    BY <1>1, PastType DEF FsCallType, FsPcs
  <2>2. fsCall' = [fsCall EXCEPT ![c] = rec] /\ root' = root
    BY <1>3 DEF FsScan, Go, FsInv, FsTypes
  <2> HIDE DEF rec
  <2>3. QED
    BY <1>1, <1>2, <1>3, <2>1, <2>2, PastType, OutsideInv DEF Makes, Makers
<1>4. CASE ~(~root.exists /\ ~Makes(c))
  <2> DEFINE rec == [fsCall[c] EXCEPT !.pc = "reread", !.dirty = Flagged]
  <2>1. Flagged \in BOOLEAN /\ (Flagged => root.legacy \/ root.marker)
    BY <1>2 DEF Flagged, FsInv, MarkerFirst
  <2>2. rec \in FsCallType /\ rec.pc = "reread" /\ rec.dirty = Flagged /\ rec.i = fsCall[c].i
    BY <1>1, <2>1 DEF FsCallType, FsPcs
  <2>3. fsCall' = [fsCall EXCEPT ![c] = rec]
    BY <1>4 DEF FsScan, FsInv, FsTypes
  <2>4. /\ root' \in [exists : BOOLEAN, marker : BOOLEAN, legacy : BOOLEAN]
        /\ root'.exists /\ root'.marker = root.marker /\ root'.legacy = root.legacy
    BY <1>2, <1>4 DEF FsScan
  <2> HIDE DEF rec
  <2>5. QED
    BY <1>1, <1>2, <2>1, <2>2, <2>3, <2>4, OutsideInv
<1>5. QED
  BY <1>3, <1>4

LEMMA FsRereadInv == ASSUME FsInv, NEW c \in FsCall, FsReread(c) PROVE FsInv'
<1> DEFINE rec == IF Accepts(c) THEN [fsCall[c] EXCEPT !.pc = "stamp", !.dirty = FALSE]
                  ELSE [NoCall EXCEPT !.pc = "refused"]
<1>1. fsCall[c].pc = "reread" /\ fsCall[c] \in FsCallType /\ fsCall[c].i \in FsInst
  BY DEF FsReread, FsInv, FsTypes
<1>2. rec \in FsCallType /\ rec.pc = (IF Accepts(c) THEN "stamp" ELSE "refused")
      /\ (Accepts(c) => rec.i = fsCall[c].i)
  BY <1>1, NoCallType DEF FsCallType, FsPcs
<1>3. ~Accepts(c) => root.legacy
  BY <1>1 DEF Accepts, FsInv, MarkerFirst
<1>4. fsCall' = [fsCall EXCEPT ![c] = rec]
  BY DEF FsReread, End, FsInv, FsTypes
<1>5. UNCHANGED <<root, file, inst, queue, strayed>>
  BY DEF FsReread
<1> HIDE DEF rec
<1>6. QED
  BY <1>1, <1>2, <1>3, <1>4, <1>5, OutsideInv DEF FsInv, FsTypes, MarkerFirst

LEMMA StampFormatMarkerInv == ASSUME FsInv, NEW c \in FsCall, StampFormatMarker(c) PROVE FsInv'
<1> DEFINE rec == [fsCall[c] EXCEPT !.pc = Past(c)]
<1>1. fsCall[c].pc = "stamp" /\ fsCall[c] \in FsCallType /\ fsCall[c].i \in FsInst
  BY DEF StampFormatMarker, FsInv, FsTypes
<1>2. rec \in FsCallType /\ rec.pc = Past(c) /\ rec.i = fsCall[c].i /\ rec.kind = fsCall[c].kind
  BY <1>1, PastType DEF FsCallType, FsPcs
<1>3. fsCall' = [fsCall EXCEPT ![c] = rec]
  BY DEF StampFormatMarker, Go, FsInv, FsTypes
<1>4. /\ root' \in [exists : BOOLEAN, marker : BOOLEAN, legacy : BOOLEAN]
      /\ root'.exists = root.exists /\ root'.marker /\ root'.legacy = root.legacy
      /\ inst' \in [FsInst -> [real : BOOLEAN, checked : BOOLEAN]]
      /\ UNCHANGED <<file, queue, strayed>>
  BY DEF StampFormatMarker, FsInv, FsTypes
<1> HIDE DEF rec
<1>5. QED
  BY <1>1, <1>2, <1>3, <1>4, PastType, OutsideInv DEF Makes, Makers

LEMMA FsMkdirInv == ASSUME FsInv, NEW c \in FsCall, FsMkdir(c) PROVE FsInv'
<1> DEFINE rec == [fsCall[c] EXCEPT !.pc = "enter"]
<1>1. fsCall[c].pc = "mkdir" /\ fsCall[c] \in FsCallType /\ fsCall[c].i \in FsInst /\ root.marker
  BY DEF FsMkdir, FsInv, FsTypes, MarkerFirst, WritersLock
<1>2. rec \in FsCallType /\ rec.pc = "enter" /\ rec.i = fsCall[c].i
  BY <1>1 DEF FsCallType, FsPcs
<1>3. fsCall' = [fsCall EXCEPT ![c] = rec]
  BY DEF FsMkdir, Go, FsInv, FsTypes
<1>4. /\ root' \in [exists : BOOLEAN, marker : BOOLEAN, legacy : BOOLEAN]
      /\ root'.exists /\ root'.marker = root.marker /\ root'.legacy = root.legacy
      /\ inst \in [FsInst -> [real : BOOLEAN, checked : BOOLEAN]]
      /\ \A h \in FsInst : inst[h].checked => root.marker
      /\ UNCHANGED <<file, inst, queue, strayed>>
  BY DEF FsMkdir, FsInv, FsTypes, MarkerFirst
<1> HIDE DEF rec
<1>5. QED
  BY <1>1, <1>2, <1>3, <1>4, OutsideInv

LEMMA FsReadInv == ASSUME FsInv, NEW c \in FsCall, FsRead(c) PROVE FsInv'
<1> DEFINE rec == [NoCall EXCEPT !.pc = "ok"]
<1>1. rec \in FsCallType /\ rec.pc = "ok"
  BY NoCallType DEF FsCallType, FsPcs
<1>2. fsCall' = [fsCall EXCEPT ![c] = rec]
  BY DEF FsRead, End
<1> HIDE DEF rec
<1>3. QED
  BY <1>1, <1>2, OutsideInv DEF FsRead, FsInv, FsTypes, MarkerFirst

-----------------------------------------------------------------------------
(* The steps in the lock.  First, what a queue looks like after a ticket   *)
(* is appended and after its head leaves.                                  *)
LEMMA AppendFacts ==
  ASSUME NEW q \in Seq(FsCall), NEW c \in FsCall
  PROVE  /\ Append(q, c) \in Seq(FsCall) /\ Append(q, c) # <<>> /\ Len(q) \in Nat
         /\ Len(Append(q, c)) = Len(q) + 1 /\ Append(q, c)[Len(q) + 1] = c
         /\ \A j \in 1..Len(q) : Append(q, c)[j] = q[j]
         /\ q # <<>> => Head(Append(q, c)) = Head(q)
<1>1. /\ Append(q, c) \in Seq(FsCall) /\ Append(q, c) # <<>> /\ Len(q) \in Nat
      /\ Len(Append(q, c)) = Len(q) + 1 /\ Append(q, c)[Len(q) + 1] = c
      /\ \A j \in 1..Len(q) : Append(q, c)[j] = q[j]
  BY AppendProperties
<1>2. ASSUME q # <<>> PROVE Head(Append(q, c)) = Head(q)
  <2>1. 1 \in 1..Len(q) /\ Head(q) = q[1]
    BY <1>2
  <2>2. Head(Append(q, c)) = Append(q, c)[1]
    BY <1>1
  <2>3. QED
    BY <1>1, <2>1, <2>2
<1>3. QED
  BY <1>1, <1>2

LEMMA TailFacts ==
  ASSUME NEW q \in Seq(FsCall), q # <<>>
  PROVE  /\ Tail(q) \in Seq(FsCall) /\ Len(q) \in Nat \ {0} /\ Head(q) = q[1]
         /\ Len(Tail(q)) = Len(q) - 1
         /\ \A j \in 1..(Len(q) - 1) : Tail(q)[j] = q[j + 1]
<1>1. Len(q) \in Nat \ {0} /\ Head(q) = q[1]
  OBVIOUS
<1>2. QED
  BY <1>1, HeadTailProperties

LEMMA FsAbortInv == ASSUME FsInv, NEW c \in FsCall, FsAbort(c) PROVE FsInv'
<1>1. /\ fsCall' \in [FsCall -> FsCallType]
      /\ \A d \in FsCall : /\ fsCall'[d].pc = fsCall[d].pc /\ fsCall'[d].kind = fsCall[d].kind
                           /\ fsCall'[d].i = fsCall[d].i /\ fsCall'[d].base = fsCall[d].base
                           /\ fsCall'[d].lock = fsCall[d].lock
                           /\ fsCall'[d].dirty = fsCall[d].dirty
  BY DEF FsAbort, FsInv, FsTypes, FsCallType
<1>2. UNCHANGED <<root, file, inst, queue, strayed>>
  BY DEF FsAbort
<1>3. FsTypes' /\ MarkerFirst'
  BY <1>1, <1>2 DEF FsInv, FsTypes, MarkerFirst, Makes
<1>4. QueueIsSound'
  <2>1. \A l \in LockKey : \A j \in 1..Len(queue[l]) : queue[l][j] \in FsCall
    BY DEF FsInv, FsTypes
  <2>2. QED
    BY <1>1, <1>2, <2>1 DEF FsInv, QueueIsSound
<1>5. WritersLock' /\ StagedCasHolds'
  BY <1>1, <1>2 DEF FsInv, WritersLock, StagedCasHolds, Makes
<1>6. QED
  BY <1>3, <1>4, <1>5 DEF FsInv

(* The ticket is appended to a queue that does not hold the call yet; a    *)
(* writer's queue is the resolved one, since its root exists.              *)
LEMMA TakeTicketInv == ASSUME FsInv, NEW c \in FsCall, TakeTicket(c) PROVE FsInv'
<1> DEFINE i == fsCall[c].i
           lock == LockOf(i)
           rec == [fsCall[c] EXCEPT !.pc = "queued", !.lock = lock, !.i = NoCall.i]
<1>1. fsCall[c].pc = "enter" /\ fsCall[c] \in FsCallType /\ i \in FsInst
  BY DEF TakeTicket, FsInv, FsTypes
<1>2. lock \in LockKey /\ (root.exists => lock = "real")
  BY <1>1, CanonicalType DEF LockOf, LockKey
<1> HIDE DEF lock
<1>3. rec \in FsCallType /\ rec.pc = "queued" /\ rec.lock = lock /\ rec.kind = fsCall[c].kind
  BY <1>1, <1>2, NoCallType DEF FsCallType, FsPcs
<1>4. /\ fsCall' = [fsCall EXCEPT ![c] = rec]
      /\ queue' = [queue EXCEPT ![lock] = Append(queue[lock], c)]
      /\ inst' = Canonical(i)
      /\ UNCHANGED <<root, file, strayed>>
  BY DEF TakeTicket, FsInv, FsTypes, lock
<1> HIDE DEF rec
<1>5. /\ fsCall' \in [FsCall -> FsCallType] /\ fsCall'[c] = rec
      /\ \A d \in FsCall : d # c => fsCall'[d] = fsCall[d]
  BY <1>3, <1>4 DEF FsInv, FsTypes
<1>6. /\ queue' \in [LockKey -> Seq(FsCall)]
      /\ queue'[lock] = Append(queue[lock], c)
      /\ \A l \in LockKey : l # lock => queue'[l] = queue[l]
  BY <1>2, <1>4 DEF FsInv, FsTypes
<1>7. FsTypes' /\ MarkerFirst'
  BY <1>1, <1>3, <1>4, <1>5, <1>6, CanonicalType DEF FsInv, FsTypes, MarkerFirst, Makes
<1>8. QueueIsSound'
  <2>1. \A l \in LockKey : queue[l] \in Seq(FsCall)
          /\ \A j \in 1..Len(queue[l]) : queue[l][j] \in FsCall \ {c}
    BY <1>1 DEF FsInv, FsTypes, QueueIsSound
  <2>2. SUFFICES ASSUME NEW l \in LockKey
                 PROVE  /\ \A j \in 1..Len(queue'[l]) :
                             /\ fsCall'[queue'[l][j]].pc \in {"queued", "stage"}
                             /\ fsCall'[queue'[l][j]].lock = l
                        /\ \A j, k \in 1..Len(queue'[l]) : queue'[l][j] = queue'[l][k] => j = k
    BY DEF QueueIsSound
  <2>3. CASE l # lock
    <3>1. queue'[l] = queue[l]
      BY <1>6, <2>3
    <3>2. /\ \A j \in 1..Len(queue[l]) :
               fsCall[queue[l][j]].pc \in {"queued", "stage"} /\ fsCall[queue[l][j]].lock = l
          /\ \A j, k \in 1..Len(queue[l]) : queue[l][j] = queue[l][k] => j = k
      BY DEF FsInv, QueueIsSound
    <3>3. \A j \in 1..Len(queue[l]) : fsCall'[queue[l][j]] = fsCall[queue[l][j]]
      BY <1>5, <2>1
    <3>4. QED
      BY <3>1, <3>2, <3>3
  <2>4. CASE l = lock
    <3>1. /\ Len(queue'[l]) = Len(queue[l]) + 1 /\ Len(queue[l]) \in Nat
          /\ queue'[l][Len(queue[l]) + 1] = c
          /\ \A j \in 1..Len(queue[l]) : queue'[l][j] = queue[l][j]
      BY <1>6, <2>1, <2>4, AppendFacts
    <3>2. ASSUME NEW j \in 1..Len(queue'[l]) PROVE j \in 1..Len(queue[l]) \/ j = Len(queue[l]) + 1
      BY <3>1
    <3>3. ASSUME NEW j \in 1..Len(queue'[l])
          PROVE  /\ fsCall'[queue'[l][j]].pc \in {"queued", "stage"}
                 /\ fsCall'[queue'[l][j]].lock = l
      BY <1>3, <1>5, <2>1, <2>4, <3>1, <3>2 DEF FsInv, QueueIsSound
    <3>4. ASSUME NEW j \in 1..Len(queue'[l]), NEW k \in 1..Len(queue'[l]),
                 queue'[l][j] = queue'[l][k]
          PROVE  j = k
      BY <2>1, <3>1, <3>2, <3>4 DEF FsInv, QueueIsSound
    <3>5. QED
      BY <3>3, <3>4
  <2>5. QED
    BY <2>3, <2>4
<1>9. WritersLock'
  <2>1. \A d \in FsCall : fsCall[d].pc = "stage" =>
          queue'["real"] # <<>> /\ Head(queue'["real"]) = d
    <3>1. "real" \in LockKey
      BY DEF LockKey
    <3>2. queue["real"] \in Seq(FsCall)
      BY <3>1 DEF FsInv, FsTypes
    <3>3. QED
      <4>1. queue["real"] # <<>> => queue'["real"] # <<>> /\ Head(queue'["real"]) = Head(queue["real"])
        <5>1. CASE lock = "real"
          BY <1>6, <3>2, <5>1, AppendFacts
        <5>2. CASE lock # "real"
          BY <1>6, <3>1, <5>2
        <5>3. QED
          BY <5>1, <5>2
      <4>2. QED
        BY <4>1 DEF FsInv, WritersLock
  <2>2. QED
    BY <1>1, <1>2, <1>3, <1>4, <1>5, <2>1 DEF FsInv, WritersLock, Makes
<1>10. StagedCasHolds'
  BY <1>3, <1>4, <1>5 DEF FsInv, StagedCasHolds
<1>11. QED
  BY <1>7, <1>8, <1>9, <1>10 DEF FsInv

(* The holder of a lock leaves it.  While it held the resolved lock no     *)
(* other call was staging.                                                 *)
LEMMA ReleaseInv ==
  ASSUME FsInv, NEW c \in FsCall, NEW res \in {"ok", "aborted", "conflict", "error"},
         Release(c, res), HoldsLock(c), UNCHANGED <<root, inst>>,
         strayed' \in BOOLEAN, strayed => strayed',
         file' \in FsCall \cup {NoFile}, file' \in FsCall => file' = file \/ root.marker,
         file' = file \/ fsCall[c].lock = "real" \/ (strayed' /\ file' = NoFile)
  PROVE  FsInv'
<1> DEFINE lock == fsCall[c].lock
           rec == [NoCall EXCEPT !.pc = res]
<1>1. lock \in LockKey /\ queue[lock] \in Seq(FsCall) /\ queue[lock] # <<>>
      /\ Head(queue[lock]) = c
  BY DEF HoldsLock, FsInv, FsTypes, FsCallType
<1>2. rec \in FsCallType /\ rec.pc = res
  BY NoCallType DEF FsCallType, FsPcs
<1>3. fsCall' = [fsCall EXCEPT ![c] = rec] /\ queue' = [queue EXCEPT ![lock] = Tail(queue[lock])]
  BY DEF Release, End
<1> HIDE DEF rec, lock
<1>4. /\ fsCall' \in [FsCall -> FsCallType] /\ fsCall'[c] = rec
      /\ \A d \in FsCall : d # c => fsCall'[d] = fsCall[d]
  BY <1>2, <1>3 DEF FsInv, FsTypes
<1>5. /\ queue' \in [LockKey -> Seq(FsCall)]
      /\ queue'[lock] = Tail(queue[lock])
      /\ \A l \in LockKey : l # lock => queue'[l] = queue[l]
  BY <1>1, <1>3 DEF FsInv, FsTypes
<1>6. ASSUME lock = "real", NEW d \in FsCall, fsCall[d].pc = "stage" PROVE d = c
  BY <1>1, <1>6 DEF FsInv, WritersLock
<1>7. FsTypes' /\ MarkerFirst'
  BY <1>2, <1>4, <1>5 DEF FsInv, FsTypes, MarkerFirst, Makes
<1>8. QueueIsSound'
  <2>1. \A l \in LockKey : queue[l] \in Seq(FsCall)
          /\ \A j \in 1..Len(queue[l]) :
               queue[l][j] \in FsCall /\ (queue[l][j] = c => l = lock /\ j = 1)
    <3>1. queue[lock][1] = c /\ 1 \in 1..Len(queue[lock])
      BY <1>1
    <3>2. QED
      BY <1>1, <3>1 DEF FsInv, FsTypes, QueueIsSound, lock
  <2>2. SUFFICES ASSUME NEW l \in LockKey
                 PROVE  /\ \A j \in 1..Len(queue'[l]) :
                             /\ fsCall'[queue'[l][j]].pc \in {"queued", "stage"}
                             /\ fsCall'[queue'[l][j]].lock = l
                        /\ \A j, k \in 1..Len(queue'[l]) : queue'[l][j] = queue'[l][k] => j = k
    BY DEF QueueIsSound
  <2>3. CASE l # lock
    BY <1>4, <1>5, <2>1, <2>3 DEF FsInv, QueueIsSound
  <2>4. CASE l = lock
    <3>1. /\ Len(queue[l]) \in Nat \ {0} /\ Len(queue'[l]) = Len(queue[l]) - 1
          /\ \A j \in 1..(Len(queue[l]) - 1) : queue'[l][j] = queue[l][j + 1]
      <4>1. queue[l] \in Seq(FsCall) /\ queue[l] # <<>> /\ queue'[l] = Tail(queue[l])
        BY <1>1, <1>5, <2>4
      <4>2. QED
        BY <4>1, TailFacts
    <3>2. \A j \in 1..Len(queue'[l]) : j + 1 \in 1..Len(queue[l]) /\ queue'[l][j] = queue[l][j + 1]
      BY <3>1
    <3>3. \A j \in 1..Len(queue'[l]) : queue'[l][j] \in FsCall \ {c}
      BY <2>1, <3>1, <3>2
    <3>4. QED
      BY <1>4, <2>1, <3>2, <3>3 DEF FsInv, QueueIsSound
  <2>5. QED
    BY <2>3, <2>4
<1>9. WritersLock'
  <2>1. "real" \in LockKey
    BY DEF LockKey
  <2>2. QED
    BY <1>2, <1>4, <1>5, <1>6, <2>1 DEF FsInv, WritersLock, Makes
<1>10. StagedCasHolds'
  BY <1>2, <1>4, <1>6 DEF FsInv, StagedCasHolds, lock
<1>11. QED
  BY <1>7, <1>8, <1>9, <1>10 DEF FsInv

(* Only writers stage; a delete under a lock that is not the resolved one  *)
(* is the stray case.                                                      *)
LEMMA FsEnterInv == ASSUME FsInv, NEW c \in FsCall, FsEnter(c) PROVE FsInv'
<1>1. fsCall[c].pc = "queued" /\ HoldsLock(c) /\ UNCHANGED <<root, inst>>
  BY DEF FsEnter
<1>2. file \in FsCall \cup {NoFile} /\ strayed \in BOOLEAN /\ fsCall[c] \in FsCallType
  BY DEF FsInv, FsTypes
<1>3. CASE fsCall[c].aborted /\ Release(c, "aborted") /\ UNCHANGED <<file, strayed>>
  BY <1>1, <1>2, <1>3, ReleaseInv
<1>4. CASE /\ file' = NoFile /\ strayed' = (strayed \/ fsCall[c].lock = "link")
           /\ Release(c, "ok")
  <2>1. fsCall[c].lock \in {"real", "link"}
    BY <1>2 DEF FsCallType, LockKey
  <2>2. strayed' \in BOOLEAN /\ (strayed => strayed') /\ (fsCall[c].lock = "link" => strayed')
    BY <1>4
  <2>3. QED
    BY <1>1, <1>4, <2>1, <2>2, ReleaseInv, FsAssumption
<1>5. CASE Release(c, "conflict") /\ UNCHANGED <<file, strayed>>
  BY <1>1, <1>2, <1>5, ReleaseInv
<1>6. CASE /\ fsCall[c].kind \in {"create", "put"} \/ (fsCall[c].kind = "cas" /\ file = fsCall[c].base)
           /\ Go(c, "stage")
           /\ UNCHANGED <<file, queue, strayed>>
  <2> DEFINE rec == [fsCall[c] EXCEPT !.pc = "stage"]
  <2>1. rec \in FsCallType /\ rec.pc = "stage" /\ rec.kind = fsCall[c].kind
        /\ rec.lock = fsCall[c].lock /\ rec.base = fsCall[c].base
    BY <1>2 DEF FsCallType, FsPcs
  <2>2. fsCall' = [fsCall EXCEPT ![c] = rec]
    BY <1>6 DEF Go, FsInv, FsTypes
  <2> HIDE DEF rec
  <2>3. /\ fsCall' \in [FsCall -> FsCallType] /\ fsCall'[c] = rec
        /\ \A d \in FsCall : d # c => fsCall'[d] = fsCall[d]
    BY <2>1, <2>2 DEF FsInv, FsTypes
  <2>4. Makes(c)
    BY <1>6 DEF Makes
  <2>5. FsTypes' /\ MarkerFirst'
    BY <1>1, <1>6, <2>1, <2>3, <2>4 DEF FsInv, FsTypes, MarkerFirst, Makes
  <2>6. QueueIsSound'
    <3>1. \A l \in LockKey : \A j \in 1..Len(queue[l]) : queue[l][j] \in FsCall
      BY DEF FsInv, FsTypes
    <3>2. \A d \in FsCall : /\ fsCall[d].pc \in {"queued", "stage"} => fsCall'[d].pc \in {"queued", "stage"}
                            /\ fsCall'[d].lock = fsCall[d].lock
      BY <2>1, <2>3
    <3>3. QED
      BY <1>6, <3>1, <3>2 DEF FsInv, QueueIsSound
  <2>7. WritersLock'
    BY <1>1, <1>6, <2>1, <2>3, <2>4 DEF FsInv, WritersLock, Makes, HoldsLock
  <2>8. StagedCasHolds'
    BY <1>6, <2>1, <2>3 DEF FsInv, StagedCasHolds
  <2>9. QED
    BY <2>5, <2>6, <2>7, <2>8 DEF FsInv
<1>7. QED
  BY <1>3, <1>4, <1>5, <1>6 DEF FsEnter

LEMMA FsPublishInv == ASSUME FsInv, NEW c \in FsCall, FsPublish(c) PROVE FsInv'
<1>1. fsCall[c].pc = "stage" /\ UNCHANGED <<root, inst, strayed>>
  BY DEF FsPublish
<1>2. fsCall[c].lock = "real" /\ HoldsLock(c) /\ root.marker
  BY <1>1 DEF FsInv, WritersLock, MarkerFirst, HoldsLock
<1>3. file \in FsCall \cup {NoFile} /\ strayed \in BOOLEAN
  BY DEF FsInv, FsTypes
<1>4. PICK res \in {"ok", "aborted", "conflict", "error"} :
        Release(c, res) /\ (file' = file \/ file' = c)
  BY DEF FsPublish
<1>5. QED
  BY <1>1, <1>2, <1>3, <1>4, ReleaseInv

LEMMA FsCrashInv == FsInv /\ FsCrash => FsInv'
<1> SUFFICES ASSUME FsInv, FsCrash PROVE FsInv'
  OBVIOUS
<1> DEFINE dead == [NoCall EXCEPT !.pc = "dead"]
<1>1. dead \in FsCallType /\ dead.pc = "dead"
  BY NoCallType DEF FsCallType, FsPcs
<1> HIDE DEF dead
<1>2. /\ fsCall' \in [FsCall -> FsCallType]
      /\ \A c \in FsCall :
           \/ fsCall'[c] = dead
           \/ /\ fsCall'[c] = fsCall[c]
              /\ fsCall[c].pc \in {"new", "ok", "aborted", "conflict", "refused", "error"}
  BY <1>1 DEF FsCrash, FsInv, FsTypes, dead
<1>3. /\ inst' \in [FsInst -> [real : BOOLEAN, checked : BOOLEAN]]
      /\ \A i \in FsInst : ~inst'[i].checked
  BY DEF FsCrash, NewInstance
<1>4. queue' = [l \in LockKey |-> <<>>] /\ queue' \in [LockKey -> Seq(FsCall)]
      /\ UNCHANGED <<root, file, strayed>>
  BY DEF FsCrash
<1>5. FsTypes' /\ MarkerFirst'
  BY <1>1, <1>2, <1>3, <1>4 DEF FsInv, FsTypes, MarkerFirst, Makes
<1>6. QueueIsSound'
  BY <1>4 DEF QueueIsSound
<1>7. WritersLock' /\ StagedCasHolds'
  BY <1>1, <1>2 DEF WritersLock, StagedCasHolds
<1>8. QED
  BY <1>5, <1>6, <1>7 DEF FsInv

LEMMA FsInvNext == FsInv /\ [FsNext]_fsVars => FsInv'
<1> SUFFICES ASSUME FsInv, [FsNext]_fsVars PROVE FsInv'
  OBVIOUS
<1>1. CASE UNCHANGED fsVars
  BY <1>1
  DEF FsInv, FsTypes, MarkerFirst, QueueIsSound, WritersLock, StagedCasHolds, Makes, fsVars
<1>2. ASSUME NEW c \in FsCall, FsBegin(c) \/ EnsureFormat(c) \/ FsScan(c) \/ FsReread(c)
                               \/ StampFormatMarker(c) \/ FsMkdir(c) \/ FsRead(c)
      PROVE  FsInv'
  BY <1>2, FsBeginInv, EnsureFormatInv, FsScanInv, FsRereadInv, StampFormatMarkerInv,
     FsMkdirInv, FsReadInv
<1>3. ASSUME NEW c \in FsCall, FsAbort(c) \/ TakeTicket(c) \/ FsEnter(c) \/ FsPublish(c)
      PROVE  FsInv'
  BY <1>3, FsAbortInv, TakeTicketInv, FsEnterInv, FsPublishInv
<1>4. QED
  BY <1>1, <1>2, <1>3, FsCrashInv DEF FsNext

(* A root without data of the older layout is never refused, however many  *)
(* openers of however many instances scan, stamp, write or die at once.    *)
THEOREM FreshRootsAreAccepted == FsSpec => []FreshRootAccepted
<1>1. FsInv => FreshRootAccepted
  BY DEF FsInv, MarkerFirst, FreshRootAccepted
<1>2. QED
  BY FsInvInit, FsInvNext, <1>1, PTL DEF FsSpec

(* A CAS that succeeds replaces the body it was based on, or, after a      *)
(* delete that ran under the unresolved name of its root, revives the key. *)
THEOREM CasIsSerialized == FsSpec => CasReplacesItsBase
<1>1. FsInv => [ \A c \in FsCall :
                   fsCall[c].pc = "stage" /\ fsCall[c].kind = "cas" /\ fsCall'[c].pc = "ok"
                     => file = fsCall[c].base \/ (strayed /\ file = NoFile) ]_fsVars
  BY DEF FsInv, StagedCasHolds
<1>2. QED
  BY FsInvInit, FsInvNext, <1>1, PTL DEF FsSpec, CasReplacesItsBase

=============================================================================
