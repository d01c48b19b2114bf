----------------------------- MODULE StorageCall -----------------------------
(***************************************************************************)
(* One conditional PUT through an object-store adapter: the retry loop of   *)
(* retry.ts, the status mapping of http-transport.ts, s3-http.ts,           *)
(* gcs-http.ts and r2-binding-storage.ts, and what Writer reads into the    *)
(* error that comes out.  The other modules take a create's outcomes from   *)
(* here: it landed, it is refused for good, or nobody knows.                *)
(*                                                                         *)
(* An attempt is a request on the wire.  It may be lost, arrive after its   *)
(* caller has given it up, or be applied while its answer is lost.  Other   *)
(* writers create, replace and delete the object meanwhile.                 *)
(***************************************************************************)
EXTENDS Integers, FiniteSets

CONSTANTS
  Adapter,       \* the adapters: a subset of {"s3", "gcs", "r2"}
  Attempts,      \* STORAGE_RETRY_MAX_ATTEMPTS
  MaxVersion     \* bound: writes of the object

ASSUME StorageAssumption ==
  /\ Adapter \subseteq {"s3", "gcs", "r2"}
  /\ Attempts \in Nat \ {0} /\ MaxVersion \in Nat

VARIABLES
  version,    \* writes so far; the version token of the latest one
  object,     \* the object's version, 0 when it is absent
  put,       \* the PUT under way
  requests,   \* its attempts on the wire
  applied     \* its attempts that were applied

storageVars == <<version, object, put, requests, applied>>

NewCall(a, kind, base) ==
  [pc |-> "send", adapter |-> a, kind |-> kind, base |-> base, attempt |-> 1,
   uncertain |-> FALSE, answer |-> "none", outcome |-> "none"]

(* An If-None-Match:"*" create, or an If-Match write over the version read. *)
StorageInit ==
  /\ version \in 0 .. 1 /\ object \in {0, version}
  /\ \E a \in Adapter, kind \in {"create", "cas"} : put = NewCall(a, kind, object)
  /\ requests = {} /\ applied = {}

Holds == object = (IF put.kind = "create" THEN 0 ELSE put.base)

-----------------------------------------------------------------------------
(* Every attempt sends the same request.                                   *)
SendAttempt ==
  /\ put.pc = "send"
  /\ requests' = requests \cup {put.attempt}
  /\ put' = [put EXCEPT !.pc = "await"]
  /\ UNCHANGED <<version, object, applied>>

(* The signer refuses before anything is sent (HTTP adapters).             *)
SignFails ==
  /\ put.pc = "send" /\ put.adapter # "r2"
  /\ \E code \in {"AccessDenied", "InvalidConfig"} :
       put' = [put EXCEPT !.pc = "answered", !.answer = code]
  /\ UNCHANGED <<version, object, requests, applied>>

(* The answers a store gives to a request it does not apply, and to one it *)
(* applies.  A 5xx says nothing either way; S3 answers 409 to a contended  *)
(* conditional write, and 404 to an If-Match of a missing key; the R2      *)
(* binding resolves to null for a failed precondition, else throws, and    *)
(* #callBinding tells its errors apart by their words: that an error about *)
(* permission or a missing bucket comes only of a request that was not     *)
(* applied is assumed of the binding.                                      *)
Refusals ==
  CASE put.adapter = "r2" -> {"403", "InvalidConfig", "error"} \cup (IF Holds THEN {} ELSE {"412"})
    [] OTHER -> {"403", "429", "SlowDown", "400", "500"}
                \cup (IF put.adapter = "s3" THEN {"409"} ELSE {})
                \cup (IF Holds THEN {}
                      ELSE IF put.adapter = "s3" /\ object = 0 /\ put.kind = "cas"
                           THEN {"412", "404"} ELSE {"412"})
Acceptances == IF put.adapter = "r2" THEN {"200", "error"}
               ELSE {"200", "no-etag", "500"} \cup (IF put.adapter = "s3" THEN {"409"} ELSE {})

Answered(a, status) ==
  IF put.pc = "await" /\ a = put.attempt
  THEN [put EXCEPT !.pc = "answered", !.answer = status] ELSE put

StoreRefuses(a) ==
  /\ a \in requests
  /\ requests' = requests \ {a}
  /\ \E status \in Refusals : put' = Answered(a, status)
  /\ UNCHANGED <<version, object, applied>>

StoreApplies(a) ==
  /\ a \in requests /\ Holds /\ version < MaxVersion
  /\ requests' = requests \ {a}
  /\ version' = version + 1
  /\ object' = version + 1
  /\ applied' = applied \cup {a}
  /\ \E status \in Acceptances : put' = Answered(a, status)

(* The connection fails: the request may never have left, be lost, or      *)
(* still be on its way.                                                    *)
LoseAnswer ==
  /\ put.pc = "await"
  /\ \E lost \in {{}, {put.attempt}} : requests' = requests \ lost
  /\ put' = [put EXCEPT !.pc = "answered", !.answer = "thrown"]
  /\ UNCHANGED <<version, object, applied>>

PeerWrites ==
  /\ version < MaxVersion
  /\ version' = version + 1
  /\ object' = version + 1
  /\ UNCHANGED <<put, requests, applied>>

PeerDeletes ==
  /\ object # 0
  /\ object' = 0
  /\ UNCHANGED <<version, put, requests, applied>>

-----------------------------------------------------------------------------
(* mapStorageError and the adapters' own cases.                            *)
ErrorOf(status) ==
  CASE status \in {"AccessDenied", "403"}                         -> "AccessDenied"
    [] status = "InvalidConfig"                                   -> "InvalidConfig"
    [] status \in {"412", "404"}                                  -> "WriteConflict"
    [] status \in {"429", "SlowDown", "409", "500", "error", "thrown"} -> "NetworkError"
    [] status \in {"400", "no-etag"}                              -> "InvalidResponse"

isThrottled(status) == status \in {"429", "SlowDown"}
Permanent(status) ==
  ErrorOf(status) \in {"AccessDenied", "InvalidConfig", "InvalidResponse", "WriteConflict"}

Done(outcome) == [put EXCEPT !.pc = "done", !.outcome = outcome]

PutOk ==
  /\ put.pc = "answered" /\ put.answer = "200"
  /\ put' = Done("ok")
  /\ UNCHANGED <<version, object, requests, applied>>

(* A permanent error ends the loop; for a create with an uncertain attempt *)
(* behind it, anything but a conflict is reported as a NetworkError.       *)
PutPermanent_AsIs ==
  /\ put.pc = "answered" /\ put.answer # "200" /\ Permanent(put.answer)
  /\ put' = Done(ErrorOf(put.answer))
  /\ UNCHANGED <<version, object, requests, applied>>
PutPermanent ==
  /\ put.pc = "answered" /\ put.answer # "200" /\ Permanent(put.answer)
  /\ put' = Done(IF /\ put.kind = "create" /\ put.uncertain
                     /\ ErrorOf(put.answer) # "WriteConflict"
                  THEN "NetworkError" ELSE ErrorOf(put.answer))
  /\ UNCHANGED <<version, object, requests, applied>>

(* Anything else is retried; the last failure of a create that was only    *)
(* ever throttled carries notApplied.                                      *)
PutRetry ==
  LET uncertain == put.uncertain \/ ~isThrottled(put.answer) IN
  /\ put.pc = "answered" /\ put.answer # "200" /\ ~Permanent(put.answer)
  /\ put' = IF put.attempt < Attempts
            THEN [put EXCEPT !.pc = "send", !.attempt = @ + 1, !.uncertain = uncertain,
                             !.answer = "none"]
            ELSE [Done(IF put.kind = "create" /\ ~uncertain THEN "notApplied"
                       ELSE "NetworkError") EXCEPT !.uncertain = uncertain]
  /\ UNCHANGED <<version, object, requests, applied>>

StorageNext ==
  \/ SendAttempt \/ SignFails \/ LoseAnswer \/ PeerWrites \/ PeerDeletes
  \/ \E a \in 1 .. Attempts : StoreRefuses(a) \/ StoreApplies(a)
  \/ PutOk \/ PutPermanent \/ PutRetry
StorageSpec == StorageInit /\ [][StorageNext]_storageVars

-----------------------------------------------------------------------------
(* isDefinitiveCreateRejection, isCreateNotApplied.                        *)
Definitive == put.outcome \in {"AccessDenied", "InvalidConfig", "notApplied"}

(* When Writer takes the error of a create for proof that it did not land, *)
(* no attempt of the call was applied, nor will one that is still on its   *)
(* way be; and success is reported only for a write of the call's own      *)
(* (retryStorageCall under every adapter's answers).                       *)
VerdictIsTrue ==
  /\ put.kind = "create" /\ Definitive => applied = {}
  /\ put.outcome = "ok" => applied # {}
=============================================================================
