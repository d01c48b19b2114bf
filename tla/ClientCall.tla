------------------------------ MODULE ClientCall ------------------------------
(***************************************************************************)
(* Calls of the HTTP client: get, insert and delete of one row             *)
(* (client.ts), the request they share with its retry of GETs (request.ts), *)
(* the route that answers (router.ts), and what lies between: a network     *)
(* that loses requests and answers, a transport that may repeat a request,  *)
(* and a proxy that answers in the server's place, before or after it acts. *)
(*                                                                         *)
(* An answer is <<status, code>>; the code is "none" when the body holds no *)
(* error envelope.                                                         *)
(***************************************************************************)
EXTENDS Integers, FiniteSets

CONSTANTS
  Caller,          \* client calls
  MaxTries,        \* REQUEST_RETRY_MAX_ATTEMPTS
  MaxResends       \* bound: requests the transport repeats

ASSUME ClientAssumption == MaxTries \in Nat \ {0} /\ MaxResends \in Nat

VARIABLES
  rowLive,    \* the row exists
  ask,        \* per call: its progress
  wired,      \* requests under way: <<call, attempt, copy>>
  held,       \* requests whose handler has read the row it is to delete
  resends,    \* requests repeated so far
  effect      \* per call: what really happened while it ran

clientVars == <<rowLive, ask, wired, held, resends, effect>>

NoAsk == [pc |-> "idle", op |-> "none", try |-> 0, answer |-> <<0, "none">>, result |-> "none"]
Nothing == [absent |-> FALSE, present |-> FALSE, deleted |-> FALSE]

ClientInit ==
  /\ rowLive \in BOOLEAN
  /\ ask = [c \in Caller |-> NoAsk]
  /\ wired = {} /\ held = {} /\ resends = 0
  /\ effect = [c \in Caller |-> Nothing]

Running(c) == ask[c].pc \in {"send", "await", "answered"}

(* While a call runs, the row has been as it now is.                       *)
Observe(e, live) ==
  [c \in Caller |-> IF Running(c)
     THEN [e[c] EXCEPT !.absent = @ \/ ~live, !.present = @ \/ live] ELSE e[c]]

BeginCall(c, op) ==
  /\ ask[c].pc = "idle"
  /\ ask' = [ask EXCEPT ![c] = [NoAsk EXCEPT !.pc = "send", !.op = op, !.try = 1]]
  /\ effect' = [effect EXCEPT ![c] = [Nothing EXCEPT !.absent = ~rowLive, !.present = rowLive]]
  /\ UNCHANGED <<rowLive, wired, held, resends>>

SendRequest(c) ==
  /\ ask[c].pc = "send"
  /\ wired' = wired \cup {<<c, ask[c].try, 0>>}
  /\ ask' = [ask EXCEPT ![c].pc = "await"]
  /\ UNCHANGED <<rowLive, held, resends, effect>>

(* A fetch wrapper or a proxy sends a request again; the body, with the id *)
(* the client minted, is the same.                                         *)
Resend(r) ==
  /\ resends < MaxResends
  /\ resends' = resends + 1
  /\ wired' = wired \cup {<<r[1], r[2], resends + 1>>}
  /\ UNCHANGED <<rowLive, ask, held, effect>>

(* What the client may see instead: an error of the server's own, with its *)
(* envelope, or a proxy's answer, without one.                             *)
ServerErrors == {<<502, "NetworkError">>, <<409, "AmbiguousCommit">>}
ProxyAnswers == {<<404, "none">>, <<429, "none">>, <<502, "none">>}

Receive(r, a) ==
  IF ask[r[1]].pc = "await" /\ ask[r[1]].try = r[2]
  THEN [ask EXCEPT ![r[1]].pc = "answered", ![r[1]].answer = a] ELSE ask

(* createRouter.  A get answers what its read found; a delete that finds   *)
(* no row is answered NotFound.                                            *)
ReadAnswer == IF rowLive THEN <<200, "none">> ELSE <<404, "NotFound">>

ServeRead(r) ==
  /\ r \in wired
  /\ ask[r[1]].op = "get" \/ (ask[r[1]].op = "delete" /\ ~rowLive)
  /\ wired' = wired \ {r}
  /\ \E a \in {ReadAnswer} \cup ProxyAnswers : ask' = Receive(r, a)
  /\ UNCHANGED <<rowLive, held, resends, effect>>

(* A delete that finds the row commits its tombstone later, unguarded.     *)
ServeHold(r) ==
  /\ r \in wired
  /\ ask[r[1]].op = "delete" /\ rowLive
  /\ wired' = wired \ {r}
  /\ held' = held \cup {r}
  /\ UNCHANGED <<rowLive, ask, resends, effect>>

(* The commit of a delete, and an insert, which is guarded to its commit.  *)
(* A repeated insert of a minted id finds its own row and answers 201.     *)
CommitAnswer(op) == IF op = "insert" THEN <<201, "none">> ELSE <<204, "none">>

ServeCommit(r) ==
  LET c == r[1]
      op == ask[c].op
  IN /\ r \in held \/ (r \in wired /\ op = "insert")
     /\ wired' = wired \ {r}
     /\ held' = held \ {r}
     /\ rowLive' = (op = "insert")
     /\ effect' = Observe([effect EXCEPT ![c].deleted = @ \/ op = "delete"], op = "insert")
     /\ \E a \in {CommitAnswer(op)} \cup ProxyAnswers \cup {<<409, "AmbiguousCommit">>} :
          ask' = Receive(r, a)
     /\ UNCHANGED resends

(* The request never reaches a handler that acts, or its handler fails.    *)
Bounce(r) ==
  /\ wired' = wired \ {r}
  /\ held' = held \ {r}
  /\ \E a \in ProxyAnswers \cup ServerErrors : ask' = Receive(r, a)
  /\ UNCHANGED <<rowLive, resends, effect>>

(* fetch throws; the request may still be on its way.                      *)
FetchThrows(c) ==
  /\ ask[c].pc = "await"
  /\ ask' = [ask EXCEPT ![c].pc = "answered", ![c].answer = <<0, "none">>]
  /\ UNCHANGED <<rowLive, wired, held, resends, effect>>

-----------------------------------------------------------------------------
(* decodeFailure: the envelope's code, else one inferred from the status,   *)
(* which is never NotFound.                                                *)
Transient(status) == status >= 500 \/ status \in {408, 429}

decodeFailure_ByStatus(a) ==
  IF a[2] # "none" THEN a[2]
  ELSE IF a[1] = 404 THEN "NotFound" ELSE IF Transient(a[1]) THEN "NetworkError" ELSE "Internal"
decodeFailure(a) ==
  IF a[2] # "none" THEN a[2] ELSE IF Transient(a[1]) THEN "NetworkError" ELSE "Internal"

Succeeded(a) == a[1] \in {200, 201, 204}
Thrown(a) == a[1] = 0

(* Only a GET is tried again, after a thrown fetch or a transient answer   *)
(* that is not the server's own.                                           *)
Retries(c) ==
  LET a == ask[c].answer IN
  /\ ask[c].op = "get" /\ ask[c].try < MaxTries
  /\ Thrown(a) \/ (~Succeeded(a) /\ a[2] = "none" /\ decodeFailure(a) = "NetworkError")

RetryRequest(c) ==
  /\ ask[c].pc = "answered" /\ Retries(c)
  /\ ask' = [ask EXCEPT ![c].pc = "send", ![c].try = @ + 1]
  /\ UNCHANGED <<rowLive, wired, held, resends, effect>>

ResultOf(op, a) ==
  IF Thrown(a) THEN "throws"
  ELSE IF Succeeded(a) THEN [get |-> "row", insert |-> "inserted", delete |-> "deleted 1"][op]
  ELSE IF decodeFailure(a) = "NotFound" /\ op \in {"get", "delete"}
       THEN [get |-> "undefined", delete |-> "deleted 0"][op]
  ELSE "throws"

(* The call ends: without another try, or because a Retry-After longer     *)
(* than the limit came with the answer; or its caller aborts it.           *)
EndCall(c) ==
  /\ ask[c].pc = "answered" /\ (~Retries(c) \/ ~Thrown(ask[c].answer))
  /\ ask' = [ask EXCEPT ![c].pc = "done", ![c].result = ResultOf(ask[c].op, ask[c].answer)]
  /\ UNCHANGED <<rowLive, wired, held, resends, effect>>

AbortCall(c) ==
  /\ ask[c].pc \in {"send", "await", "answered"}
  /\ ask' = [ask EXCEPT ![c].pc = "done", ![c].result = "throws"]
  /\ UNCHANGED <<rowLive, wired, held, resends, effect>>

ClientNext ==
  \/ \E c \in Caller : \/ \E op \in {"get", "insert", "delete"} : BeginCall(c, op)
                       \/ SendRequest(c) \/ FetchThrows(c) \/ RetryRequest(c)
                       \/ EndCall(c) \/ AbortCall(c)
  \/ \E r \in wired \cup held : \/ Resend(r) \/ Bounce(r)
                               \/ ServeRead(r) \/ ServeHold(r) \/ ServeCommit(r)
ClientSpec == ClientInit /\ [][ClientNext]_clientVars

-----------------------------------------------------------------------------
(* What a call reports happened while it ran, whatever a proxy answered in *)
(* the server's place: "no such row" only if the row was missing then, a   *)
(* row or an insert only if it was there, and "deleted" only if it was     *)
(* there and a tombstone of this very call was committed, though not       *)
(* necessarily the first one: two deletes that run at once both report the *)
(* row (makeClientCollection on top of request and decodeFailure, and the  *)
(* routes on top of runDelete).                                            *)
ClientAnswerIsTrue ==
  \A c \in Caller :
    LET e == effect[c] IN
    CASE ask[c].result \in {"undefined", "deleted 0"} -> e.absent
      [] ask[c].result \in {"row", "inserted"}        -> e.present
      [] ask[c].result = "deleted 1"                  -> e.present /\ e.deleted
      [] OTHER                                        -> TRUE
=============================================================================
