------------------------------ MODULE DocVerbs ------------------------------
(***************************************************************************)
(* The write verbs of a collection: insert (guarded, with the replay of an  *)
(* SDK-minted id), update, replace and delete.  Each verb reads the rows,   *)
(* plans its writes from what it read and commits them one by one; between  *)
(* its read and its last commit peers commit, fold, certify and delete log  *)
(* slots, stale creates re-fill deleted ones, and a send of a create whose  *)
(* answer was lost lands late, after the call has reported it ambiguous.    *)
(*                                                                         *)
(* A read is one step that returns the state of the committed prefix        *)
(* (CommitLog: ReadIsFreshPrefix), and so is the tail search of an          *)
(* unguarded commit; the window of a guarded insert is read one GET a step. *)
(***************************************************************************)
EXTENDS Integers, Sequences, FiniteSets

CONSTANTS
  Call,       \* verb calls
  Docs,       \* document ids
  Field,      \* fields of a document
  Value,      \* values of a field
  Request,    \* what may be asked: [verb, docs, content, by], where docs are
              \* the documents the predicate or id selects, content is the
              \* body inserted or the patch merged, and by the calls that ask
  Absent,     \* no row, no object
  MaxLog,     \* bound: log slots
  MaxLate,    \* bound: creates with sends in flight after their answer
  Retained    \* folded slots that retirement keeps (logRetention window)

VARIABLES
  history,    \* the committed entries: history[s + 1] was first at slot s
  slots,      \* slots[s]: the object at log/<s>.json, or Absent
  foldedTo,   \* log_seq_start
  certified,  \* log_delete_floor
  late,       \* creates of which a send may still land: [at, entry]
  call        \* local state of every call; overtaken is history: the call
              \* relied on a slot below the certified floor, where slots are
              \* deleted and re-used: it read one into its window, took the
              \* occupant of one for proof that its own send had not landed,
              \* or was acknowledged on one without the check of the floor

verbVars == <<history, slots, foldedTo, certified, late, call>>

Slot  == 0 .. (MaxLog - 1)
Body  == [Field -> Value]
Inserts == {"insert", "minted"}

ASSUME RequestAssumption ==
  \A r \in Request :
    /\ r.verb \in Inserts \cup {"update", "replace", "delete"}
    /\ r.docs \subseteq Docs
    /\ r.verb \in Inserts \cup {"replace"} =>
         r.content \in Body /\ \E d \in Docs : r.docs = {d}
    /\ r.verb = "update" => \E fs \in SUBSET Field : r.content \in [fs -> Value]

(* No row and no object are neither a row nor an object.                   *)
ASSUME AbsentAssumption ==
  /\ Absent \notin Body
  /\ Absent \notin [doc : Docs, op : {"I", "U", "D"}, body : Body \cup {Absent}, by : Call]

ASSUME VerbBoundsAssumption == MaxLog \in Nat /\ Retained \in Nat /\ MaxLate \in Nat

(* Mutant: the row wins over the patch.                                    *)
MergeFlat_RowWins(body, patch) == body

(* merge on a flat patch: the fields it names are replaced.                *)
MergeFlat(body, patch) ==
  [f \in Field |-> IF f \in DOMAIN patch THEN patch[f] ELSE body[f]]

Entry(c, d, op, body) == [doc |-> d, op |-> op, body |-> body, by |-> c]

(* The row of document d after the first n committed entries.              *)
RowAt(d, n) ==
  LET mine == {i \in 1..n : history[i].doc = d}
      last == CHOOSE i \in mine : \A j \in mine : j <= i
  IN IF mine = {} THEN Absent
     ELSE IF history[last].op = "D" THEN Absent ELSE history[last].body

LogEnd == Len(history)

Row(d) == RowAt(d, LogEnd)

IdleCall == [pc |-> "idle", req |-> Absent, start |-> 0, absentBelow |-> 0, floor |-> 0,
             at |-> 0, window |-> <<>>, todo |-> {}, out |-> "none",
             overtaken |-> FALSE]

VerbInit ==
  /\ history = <<>>
  /\ slots = [s \in Slot |-> Absent]
  /\ foldedTo = 0
  /\ certified = 0
  /\ late = {}
  /\ call = [c \in Call |-> IdleCall]

(* The call returns, and its locals with it.                               *)
EndCall(c, out, overtaken) ==
  call' = [call EXCEPT ![c] = [IdleCall EXCEPT
             !.pc = "done", !.req = call[c].req, !.start = call[c].start, !.out = out,
             !.overtaken = overtaken]]

EndWith(c, out) == EndCall(c, out, call[c].overtaken)

Plan(c, r, writes) ==
  call' = [call EXCEPT ![c] = [IdleCall EXCEPT
             !.pc = "planned", !.req = r, !.start = LogEnd, !.absentBelow = LogEnd, !.todo = writes]]

Bucket == <<history, slots, foldedTo, certified, late>>

(***************************************************************************)
(* The reads and plans of the verbs.                                       *)
(***************************************************************************)

(* insertReplaysRow under replayIdentical: only a minted id is replayed,   *)
(* and only onto an identical row.                                         *)
Replays(r, body) == r.verb = "minted" /\ body = r.content

BeginInsert(c, r) ==
  /\ call[c].pc = "idle" /\ c \in r.by
  /\ r.verb \in Inserts
  /\ \E d \in r.docs :
       IF Row(d) # Absent
       THEN call' = [call EXCEPT ![c] = [IdleCall EXCEPT
                       !.pc = "done", !.req = r, !.start = LogEnd,
                       !.out = IF Replays(r, Row(d)) THEN "replayed" ELSE "exists"]]
       ELSE Plan(c, r, {Entry(c, d, "I", r.content)})
  /\ UNCHANGED Bucket

Matched(r) == {d \in r.docs : Row(d) # Absent}

BeginUpdate(c, r) ==
  /\ call[c].pc = "idle" /\ c \in r.by
  /\ r.verb = "update"
  /\ Plan(c, r, {Entry(c, d, "U", MergeFlat(Row(d), r.content)) : d \in Matched(r)})
  /\ UNCHANGED Bucket

BeginDelete(c, r) ==
  /\ call[c].pc = "idle" /\ c \in r.by
  /\ r.verb = "delete"
  /\ Plan(c, r, {Entry(c, d, "D", Absent) : d \in Matched(r)})
  /\ UNCHANGED Bucket

BeginReplace(c, r) ==
  /\ call[c].pc = "idle" /\ c \in r.by
  /\ r.verb = "replace"
  /\ IF Matched(r) = {}
     THEN call' = [call EXCEPT ![c] = [IdleCall EXCEPT
                     !.pc = "done", !.req = r, !.start = LogEnd, !.out = "notfound"]]
     ELSE Plan(c, r, {Entry(c, d, "U", r.content) : d \in Matched(r)})
  /\ UNCHANGED Bucket

(* Schema, id and capacity checks run on the whole plan, before any commit. *)
Refuse(c) ==
  /\ call[c].pc = "planned"
  /\ EndWith(c, "refused")
  /\ UNCHANGED Bucket

Accept(c) ==
  /\ call[c].pc = "planned"
  /\ IF call[c].todo = {} THEN EndWith(c, "ok")
     ELSE call' = [call EXCEPT ![c].pc = "next"]
  /\ UNCHANGED Bucket

(***************************************************************************)
(* One commit.                                                             *)
(***************************************************************************)

(* Step 3 without a guard: the tail the search finds.                      *)
ProbeTail(c) ==
  /\ call[c].pc = "next"
  /\ call[c].req.verb \notin Inserts
  /\ \E e \in call[c].todo :
       call' = [call EXCEPT ![c].pc = "create", ![c].at = LogEnd, ![c].window = <<e>>]
  /\ UNCHANGED Bucket

(* Mutant: the part of the window that a fold has absorbed is not read.    *)
OpenWindow_LiveOnly(c) ==
  /\ call[c].pc = "next"
  /\ call[c].req.verb \in Inserts
  /\ call' = [call EXCEPT ![c].pc = "window", ![c].floor = foldedTo,
                ![c].at = IF call[c].absentBelow < foldedTo THEN foldedTo
                          ELSE call[c].absentBelow]
  /\ UNCHANGED Bucket

(* Steps 1 and 3a with a guard: the manifest's floor; the window starts at *)
(* the tail the absence check folded through, folded slots included.       *)
OpenWindow(c) ==
  /\ call[c].pc = "next"
  /\ call[c].req.verb \in Inserts
  /\ call' = [call EXCEPT ![c].pc = "window", ![c].floor = foldedTo,
                          ![c].at = call[c].absentBelow]
  /\ UNCHANGED Bucket

WindowEntry(c) ==
  LET k == call[c] IN
  /\ k.pc = "window"
  /\ k.at \in Slot /\ slots[k.at] # Absent
  /\ call' = [call EXCEPT ![c].window = Append(@, slots[k.at]), ![c].at = @ + 1,
                          ![c].overtaken = @ \/ k.at < certified]
  /\ UNCHANGED Bucket

(* A folded slot is gone: the window cannot be checked.                    *)
WindowRetired(c) ==
  LET k == call[c] IN
  /\ k.pc = "window" /\ k.at < k.floor
  /\ slots[k.at] = Absent
  /\ EndWith(c, "conflict")
  /\ UNCHANGED Bucket

(* decideInsertTarget: the last entry of the window for this document.     *)
decideInsertTarget(c) ==
  LET w    == call[c].window
      mine == {i \in DOMAIN w : {w[i].doc} = call[c].req.docs}
      last == CHOOSE i \in mine : \A j \in mine : j <= i
  IN IF mine = {} THEN "absent"
     ELSE IF w[last].op = "D" THEN "absent"
     ELSE IF Replays(call[c].req, w[last].body) THEN "replayed" ELSE "exists"

(* The first empty slot at or above the floor ends the window.             *)
WindowTail(c) ==
  LET k == call[c] IN
  /\ k.pc = "window" /\ k.at >= k.floor
  /\ k.at \in Slot => slots[k.at] = Absent
  /\ IF decideInsertTarget(c) = "absent"
     THEN call' = [call EXCEPT ![c].pc = "create"]
     ELSE EndWith(c, decideInsertTarget(c))
  /\ UNCHANGED Bucket

Pending(c) ==
  IF call[c].req.verb \in Inserts THEN CHOOSE e \in call[c].todo : TRUE ELSE call[c].window[1]

(* The object lands; it is a commit only at the end of the history.        *)
Land(s, e) ==
  /\ slots' = [slots EXCEPT ![s] = e]
  /\ history' = IF s = LogEnd THEN Append(history, e) ELSE history

(* The adapter re-sends a create that was not answered, so sends of it may *)
(* be left in flight.                                                      *)
MayStayInFlight(x) ==
  \/ late' = late
  \/ Cardinality(late) < MaxLate /\ late' = late \cup {x}

Send(c) == [at |-> call[c].at, entry |-> Pending(c)]

(* The create wins with its first send; one that wins after a lost answer  *)
(* goes the way of the uncertain ones.                                     *)
CreateWins(c) ==
  LET k == call[c] IN
  /\ k.pc = "create" /\ k.at \in Slot
  /\ slots[k.at] = Absent
  /\ Land(k.at, Pending(c))
  /\ call' = [call EXCEPT ![c].pc = "check"]
  /\ UNCHANGED <<foldedTo, certified, late>>

(* A 412, or no usable answer: a send may have landed, may still land, or  *)
(* may have met an object.  The slot is to be read back.                   *)
CreateUncertain(c) ==
  LET k == call[c] IN
  /\ k.pc = "create" /\ k.at \in Slot
  /\ \/ slots[k.at] = Absent /\ Land(k.at, Pending(c))
     \/ UNCHANGED <<slots, history>>
  /\ MayStayInFlight(Send(c))
  /\ call' = [call EXCEPT ![c].pc = "resolve"]
  /\ UNCHANGED <<foldedTo, certified>>

(* A definitive rejection: nothing landed.                                 *)
CreateRefused(c) ==
  /\ call[c].pc = "create"
  /\ EndWith(c, "failed")
  /\ UNCHANGED Bucket

(* The readback finds the call's own entry: adopted.                       *)
ResolveOwn(c) ==
  LET k == call[c] IN
  /\ k.pc = "resolve"
  /\ slots[k.at] = Pending(c)
  /\ call' = [call EXCEPT ![c].pc = "check"]
  /\ UNCHANGED Bucket

(* Mutant: any occupant is taken for the call's own entry.                 *)
ResolveForeign_Adopts(c) ==
  LET k == call[c] IN
  /\ k.pc = "resolve"
  /\ slots[k.at] \notin {Absent, Pending(c)}
  /\ call' = [call EXCEPT ![c].pc = "check"]
  /\ UNCHANGED Bucket

(* The slot is a peer's: search on, and, guarded, let the occupant and all *)
(* that follows join the window.                                           *)
ResolveForeign(c) ==
  LET k == call[c] IN
  /\ k.pc = "resolve"
  /\ slots[k.at] \notin {Absent, Pending(c)}
  /\ IF k.req.verb \in Inserts
     THEN call' = [call EXCEPT ![c].pc = "window", ![c].floor = k.at + 1, ![c].at = @ + 1,
                               ![c].window = Append(@, slots[k.at]),
                               ![c].overtaken = @ \/ k.at < certified]
     ELSE \E s \in {s \in (k.at + 1) .. LogEnd : s = LogEnd \/ slots[s] = Absent} :
            call' = [call EXCEPT ![c].pc = "create", ![c].at = s,
                                 ![c].overtaken = @ \/ k.at < certified]
  /\ UNCHANGED Bucket

(* Nothing there, or nothing readable: a send may have landed and be gone, *)
(* or may still land.                                                      *)
ResolveAmbiguous(c) ==
  /\ call[c].pc = "resolve"
  /\ EndWith(c, "ambiguous")
  /\ UNCHANGED Bucket

(* A send in flight reaches the store; another of the same create may      *)
(* follow it.                                                              *)
Deliver(x) ==
  /\ slots[x.at] = Absent
  /\ Land(x.at, x.entry)
  /\ UNCHANGED <<foldedTo, certified, late, call>>

(* The row is done: on to the next one of the plan.                        *)
RowDone(c, overtaken) ==
  IF call[c].todo = {Pending(c)}
  THEN EndCall(c, "ok", overtaken)
  ELSE call' = [call EXCEPT ![c].pc = "next", ![c].window = <<>>,
                            ![c].todo = @ \ {Pending(c)}, ![c].overtaken = overtaken]

(* Step 5a: a create below the certified floor is taken back.              *)
CheckDeleteFloor(c) ==
  LET k == call[c] IN
  /\ k.pc = "check"
  /\ IF k.at < certified
     THEN /\ slots' \in {slots, [slots EXCEPT ![k.at] = Absent]}
          /\ EndWith(c, "ambiguous")
     ELSE /\ UNCHANGED slots
          /\ RowDone(c, k.overtaken)
  /\ UNCHANGED <<history, foldedTo, certified, late>>

(* The manifest cannot be read again: the failure is swallowed and the row *)
(* is acknowledged all the same.                                           *)
CheckSkipped(c) ==
  /\ call[c].pc = "check"
  /\ RowDone(c, call[c].overtaken \/ call[c].at < certified)
  /\ UNCHANGED Bucket

(* The caller aborts the check, and is told nothing of the row.            *)
CheckAborted(c) ==
  /\ call[c].pc = "check"
  /\ EndWith(c, "ambiguous")
  /\ UNCHANGED Bucket

(***************************************************************************)
(* Maintenance, as far as the verbs can see it.                            *)
(***************************************************************************)

FoldPrefix ==
  /\ \E n \in (foldedTo + 1) .. LogEnd : foldedTo' = n
  /\ UNCHANGED <<history, slots, certified, late, call>>

CertifyPrefix ==
  /\ foldedTo - Retained > certified
  /\ certified' = foldedTo - Retained
  /\ UNCHANGED <<history, slots, foldedTo, late, call>>

DeleteRetired(s) ==
  /\ s < certified /\ slots[s] # Absent
  /\ slots' = [slots EXCEPT ![s] = Absent]
  /\ UNCHANGED <<history, foldedTo, certified, late, call>>

CallStep(c) ==
  \/ \E r \in Request : \/ BeginInsert(c, r) \/ BeginUpdate(c, r)
                        \/ BeginDelete(c, r) \/ BeginReplace(c, r)
  \/ Refuse(c) \/ Accept(c)
  \/ ProbeTail(c) \/ OpenWindow(c)
  \/ WindowEntry(c) \/ WindowRetired(c) \/ WindowTail(c)
  \/ CreateWins(c) \/ CreateUncertain(c) \/ CreateRefused(c)
  \/ ResolveOwn(c) \/ ResolveForeign(c) \/ ResolveAmbiguous(c)
  \/ CheckDeleteFloor(c) \/ CheckSkipped(c) \/ CheckAborted(c)

VerbNext ==
  \/ \E c \in Call : CallStep(c)
  \/ \E x \in late : Deliver(x)
  \/ FoldPrefix \/ CertifyPrefix
  \/ \E s \in Slot : DeleteRetired(s)

VerbSpec == VerbInit /\ [][VerbNext]_verbVars

(***************************************************************************)
(* Properties.                                                             *)
(***************************************************************************)

(* runInsert, the first I for an _id wins: a committed I is never over a   *)
(* live row, however old its absence check is and whatever was folded and  *)
(* retired since and however late its send lands, unless retirement        *)
(* overtook the call.                                                      *)
FirstInsertWins ==
  \A n \in 1..LogEnd : LET e == history[n] IN
    e.op = "I" /\ ~call[e.by].overtaken => RowAt(e.doc, n - 1) = Absent

(* runInsert, "of concurrent inserts of one _id, at most one commits",     *)
(* without the exception.                                                  *)
AtMostOneInsert ==
  \A n \in 1..LogEnd : history[n].op = "I" => RowAt(history[n].doc, n - 1) = Absent

(* What an insert says of a row that is in its way is true: AlreadyExists  *)
(* of a row that was live at some moment of the call, a replay of a row    *)
(* equal to its body that was, so that the resend of a lost answer never   *)
(* hides a loss (the writer's insertGuard).                                *)
ExistsVerdictIsTrue ==
  \A c \in Call : call[c].out \in {"exists", "replayed"} /\ ~call[c].overtaken =>
    \E n \in call[c].start .. LogEnd : \A d \in call[c].req.docs :
      IF call[c].out = "replayed" THEN RowAt(d, n) = call[c].req.content
                                  ELSE RowAt(d, n) # Absent

EntriesOf(c, d) == {n \in 1..LogEnd : history[n].by = c /\ history[n].doc = d}

(* Of a verb that retirement did not overtake: no row is committed twice,  *)
(* whatever was re-sent, lost or delivered late; an acknowledgement means  *)
(* every row it matched is committed, a definitive failure that one is     *)
(* not and never will be, and a verb that lost to a live row or could not  *)
(* check its window has committed nothing.  A refusal or a missing row     *)
(* means that even of one that was overtaken (Writer.commit).              *)
BatchIsExact ==
  \A c \in Call :
    /\ ~call[c].overtaken =>
         /\ \A d \in Docs : Cardinality(EntriesOf(c, d)) <= 1
         /\ call[c].out = "ok" =>
              \A d \in call[c].req.docs :
                RowAt(d, call[c].start) # Absent \/ call[c].req.verb \in Inserts
                  => EntriesOf(c, d) # {}
         /\ call[c].out = "failed" => \E d \in call[c].req.docs : EntriesOf(c, d) = {}
         /\ call[c].out \in {"exists", "replayed", "conflict"} =>
              \A d \in Docs : EntriesOf(c, d) = {}
    /\ call[c].out \in {"refused", "notfound"} => \A d \in Docs : EntriesOf(c, d) = {}

-----------------------------------------------------------------------------
(* The collection that the callers of the verbs see.                       *)
RowOf(e) == IF e.op = "D" THEN Absent ELSE e.body
Writes == [n \in 1..LogEnd |-> [by |-> history[n].by, doc |-> history[n].doc, row |-> RowOf(history[n])]]
Reqs == [c \in Call |-> call[c].req]
Since == [c \in Call |-> call[c].start]
Blind == [c \in Call |-> call[c].overtaken]
VerdictOf(k) == IF k.pc = "idle" THEN "idle" ELSE IF k.out = "none" THEN "open" ELSE k.out
Verdicts == [c \in Call |-> VerdictOf(call[c])]

Promised == INSTANCE Collection WITH
  writes <- Writes, req <- Reqs, since <- Since, blind <- Blind, verdict <- Verdicts

(* Whatever peers, folds, retirement and late sends do between a verb's    *)
(* read and its last commit, the verbs behave as the collection of atomic  *)
(* row writes promises: an update writes the rows it saw, merged, each     *)
(* once; an insert writes only where no row is; only a call that was told  *)
(* nothing is written to after its end; and no answer says more than was   *)
(* written, but that of a call blinded by retirement (runInsert, update,   *)
(* replace, delete over Writer.commit).                                    *)
IsCollection == Promised!CollectionSpec
=============================================================================
