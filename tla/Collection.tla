----------------------------- MODULE Collection ------------------------------
(***************************************************************************)
(* What a collection promises the callers of its verbs, with no log slots, *)
(* no windows and no maintenance in sight.                                 *)
(*                                                                         *)
(* A call works from the rows it sees when it begins.  It writes each row  *)
(* it has to write at most once, and each write takes effect at one moment: *)
(* an insert only where the row is absent; an update, a replace or a       *)
(* delete over whatever is there by then.  The answer of the call says     *)
(* what it wrote, or what was in its way; after an ambiguous answer a      *)
(* write may still take effect.                                            *)
(*                                                                         *)
(* The one weakness: a call may be blinded, by retirement running past the *)
(* log it relies on.  Then an insert no longer sees the row in its way, a  *)
(* row may be written again, and an answer may be about a lost write.      *)
(***************************************************************************)
EXTENDS Integers, Sequences

CONSTANTS
  Call,      \* verb calls
  Request,   \* what may be asked: [verb, docs, content]
  Absent     \* no row

VARIABLES
  writes,    \* the row writes so far, in order: [by, doc, row]
  req,       \* what each call was asked
  since,     \* how many writes it saw when it began
  blind,     \* whether retirement has overtaken it
  verdict    \* "idle", "open", or its answer

collectionVars == <<writes, req, since, blind, verdict>>

(* The row of document d after the first n writes.                         *)
RowAfter(n, d) ==
  LET mine == {i \in 1..n : writes[i].doc = d}
      last == CHOOSE i \in mine : \A j \in mine : j <= i
  IN IF mine = {} THEN Absent ELSE writes[last].row

WrittenBy(c) == {writes[n].doc : n \in {m \in 1 .. Len(writes) : writes[m].by = c}}

Inserting(r) == r.verb \in {"insert", "minted"}

(* The documents a request has to write when it sees the first n writes.   *)
Targets(r, n) == {d \in r.docs : Inserting(r) \/ RowAfter(n, d) # Absent}

(* The row it writes: an update keeps the fields that it does not name.    *)
Effect(r, row) ==
  CASE r.verb = "delete" -> Absent
    [] r.verb = "update" ->
         [f \in DOMAIN row |-> IF f \in DOMAIN r.content THEN r.content[f] ELSE row[f]]
    [] OTHER -> r.content

(* What an answer to request r of call c means, when the call saw the      *)
(* first s writes and has, or has not, been blinded.                       *)
Promise(c, r, s, b, answer) ==
  /\ answer = "ok" /\ ~b => Targets(r, s) \subseteq WrittenBy(c)
  /\ answer = "failed" /\ ~b => ~(Targets(r, s) \subseteq WrittenBy(c))
  /\ answer \in {"exists", "replayed", "conflict"} /\ ~b => WrittenBy(c) = {}
  /\ answer \in {"notfound", "refused"} => WrittenBy(c) = {}
  /\ answer = "notfound" => Targets(r, s) = {}
  /\ answer = "exists" /\ ~b =>
       \E n \in s .. Len(writes) : \A d \in r.docs : RowAfter(n, d) # Absent
  /\ answer = "replayed" /\ ~b =>
       \E n \in s .. Len(writes) : \A d \in r.docs : RowAfter(n, d) = r.content

CollectionInit ==
  /\ writes = <<>>
  /\ req = [c \in Call |-> Absent]
  /\ since = [c \in Call |-> 0]
  /\ blind = [c \in Call |-> FALSE]
  /\ verdict = [c \in Call |-> "idle"]

(* A call begins; what it sees may answer it at once.                      *)
Begin(c, r) ==
  /\ verdict[c] = "idle" /\ verdict'[c] \in {"open", "exists", "replayed", "notfound"}
  /\ verdict' = [verdict EXCEPT ![c] = verdict'[c]]
  /\ r \in Request /\ req' = [req EXCEPT ![c] = r]
  /\ since' = [since EXCEPT ![c] = Len(writes)]
  /\ Promise(c, r, Len(writes), FALSE, verdict'[c])
  /\ UNCHANGED <<writes, blind>>

(* One row is written, perhaps after the call was told nothing of it.      *)
Write(c, d) ==
  /\ verdict[c] \in {"open", "ambiguous"}
  /\ d \in Targets(req[c], since[c])
  /\ writes' = Append(writes, [by |-> c, doc |-> d, row |-> Effect(req[c], RowAfter(since[c], d))])
  /\ ~blind[c] => d \notin WrittenBy(c)
  /\ ~blind[c] /\ Inserting(req[c]) => RowAfter(Len(writes), d) = Absent
  /\ UNCHANGED <<req, since, blind, verdict>>

Answers == {"ok", "exists", "replayed", "notfound", "refused", "conflict", "ambiguous", "failed"}

(* The call ends; what blinds it may come to pass with its last step.      *)
Return(c) ==
  /\ verdict[c] = "open" /\ verdict'[c] \in Answers
  /\ verdict' = [verdict EXCEPT ![c] = verdict'[c]]
  /\ blind' \in {blind, [blind EXCEPT ![c] = TRUE]}
  /\ Promise(c, req[c], since[c], blind'[c], verdict'[c])
  /\ UNCHANGED <<writes, req, since>>

Overtake(c) ==
  /\ verdict[c] = "open"
  /\ blind' = [blind EXCEPT ![c] = TRUE]
  /\ UNCHANGED <<writes, req, since, verdict>>

CollectionNext ==
  \E c \in Call :
    \/ Begin(c, req'[c])
    \/ Len(writes') = Len(writes) + 1 /\ Write(c, writes'[Len(writes')].doc)
    \/ Return(c) \/ Overtake(c)

CollectionSpec == CollectionInit /\ [][CollectionNext]_collectionVars
=============================================================================
