---------------------------- MODULE Client_proofs ----------------------------
(***************************************************************************)
(* The client side, for any number of requests, calls, tenants and colos:  *)
(* a stale entry of the worker's read cache is explained (ReadCache), what *)
(* a call of the HTTP client reports is so (ClientCall), and the pending   *)
(* flag of useMutation is exact (UseMutation).                             *)
(***************************************************************************)
EXTENDS ReadCache, ClientCall, UseMutation, FiniteSetTheorems, TLAPS

-----------------------------------------------------------------------------
(* ReadCache                                                               *)

CacheRequests ==
  [pc : {"new", "match", "handler", "fill", "write", "invalidate", "done"},
   method : AllMethods, colo : Colo \cup {Unsent.colo}, tenant : Tenant \cup {Unsent.tenant},
   seen : Nat, floor : Nat]

(* A request under way has a colo and a tenant.                            *)
CacheTypes ==
  /\ row \in [Tenant -> Nat]
  /\ version \in Nat
  /\ entry \in [CacheKey -> Nat]
  /\ request \in [Request -> CacheRequests]
  /\ tainted \subseteq CacheKey
  /\ settled \in [Tenant -> Nat]
  /\ \A r \in Request : request[r].pc \notin {"new", "done"} =>
       request[r].colo \in Colo /\ request[r].tenant \in Tenant

CacheInv == CacheTypes /\ StaleEntryIsExplained

LEMMA UnsentType == Unsent \in CacheRequests /\ Unsent.pc = "new"
BY DEF Unsent, CacheRequests, AllMethods

(* The key of a request under way, and what its answer leaves of it.       *)
LEMMA KeyOfType ==
  ASSUME CacheTypes, NEW r \in Request, request[r].pc \notin {"new", "done"}
  PROVE  KeyOf(r) \in CacheKey /\ KeyOf(r)[2] = request[r].tenant
BY DEF CacheTypes, KeyOf, cacheKeyFor, CacheKey

(* A step in which one request moves on, and stays under way or ends.      *)
LEMMA RequestMoves ==
  ASSUME CacheTypes, NEW r \in Request, NEW q \in CacheRequests,
         request' = [request EXCEPT ![r] = q]
  PROVE  /\ request' \in [Request -> CacheRequests] /\ request'[r] = q
         /\ \A s \in Request : s # r => request'[s] = request[s]
         /\ \A s \in Request : s # r => KeyOf(s)' = KeyOf(s)
BY DEF CacheTypes, KeyOf

LEMMA AnswerType ==
  ASSUME CacheTypes, NEW r \in Request, NEW v \in Nat, request' = Answer(r, v)
  PROVE  \E q \in CacheRequests : q.pc = "done" /\ request' = [request EXCEPT ![r] = q]
<1> DEFINE q == [Unsent EXCEPT !.pc = "done", !.seen = v, !.floor = request[r].floor]
<1>1. request[r].floor \in Nat
  BY DEF CacheTypes, CacheRequests
<1>2. q \in CacheRequests /\ q.pc = "done"
  BY <1>1, UnsentType DEF CacheRequests
<1>3. QED
  BY <1>2 DEF Answer

(* The invalidation of another request stays on its way.                   *)
LEMMA StillInvalidating ==
  ASSUME CacheTypes, NEW r \in Request, NEW q \in CacheRequests,
         request' = [request EXCEPT ![r] = q],
         NEW k, Invalidating(k),
         ~(request[r].pc = "invalidate" /\ KeyOf(r) = k /\ request[r].method \in {"PATCH", "DELETE"})
  PROVE  Invalidating(k)'
<1>1. PICK s \in Request : /\ request[s].pc = "invalidate" /\ KeyOf(s) = k
                           /\ request[s].method \in {"PATCH", "DELETE"}
  BY DEF Invalidating
<1>2. s # r
  BY <1>1
<1>3. QED
  BY <1>1, <1>2, RequestMoves DEF Invalidating

LEMMA CacheInvInit == CacheInit => CacheInv
BY UnsentType DEF CacheInit, CacheInv, CacheTypes, StaleEntryIsExplained

LEMMA InsertRowInv ==
  ASSUME CacheInv, NEW t \in Tenant, InsertRow(t) PROVE CacheInv'
<1>1. CacheTypes'
  BY DEF CacheInv, CacheTypes, InsertRow
<1>2. \A k \in CacheKey : k[2] \in Tenant
  BY DEF CacheKey
<1>3. \A k : Invalidating(k)' <=> Invalidating(k)
  BY DEF InsertRow, Invalidating, KeyOf
<1>4. StaleEntryIsExplained'
  BY <1>2, <1>3 DEF CacheInv, CacheTypes, InsertRow, StaleEntryIsExplained
<1>5. QED
  BY <1>1, <1>4 DEF CacheInv

LEMMA EvictInv == ASSUME CacheInv, NEW k \in CacheKey, Evict(k) PROVE CacheInv'
<1>1. CacheTypes'
  BY DEF CacheInv, CacheTypes, Evict
<1>2. \A l : Invalidating(l)' <=> Invalidating(l)
  BY DEF Evict, Invalidating, KeyOf
<1>3. StaleEntryIsExplained'
  BY <1>2 DEF CacheInv, CacheTypes, Evict, StaleEntryIsExplained
<1>4. QED
  BY <1>1, <1>3 DEF CacheInv

(* A request that was not invalidating moves, and nothing else does.       *)
LEMMA OnlyRequestMoves ==
  ASSUME CacheInv, NEW r \in Request, NEW q \in CacheRequests,
         request' = [request EXCEPT ![r] = q], request[r].pc # "invalidate",
         q.pc \notin {"new", "done"} => q.colo \in Colo /\ q.tenant \in Tenant,
         UNCHANGED <<row, version, entry, tainted, settled>>
  PROVE  CacheInv'
<1>1. CacheTypes'
  BY RequestMoves DEF CacheInv, CacheTypes
<1>2. \A k : Invalidating(k) => Invalidating(k)'
  BY StillInvalidating DEF CacheInv
<1>3. QED
  BY <1>1, <1>2 DEF CacheInv, StaleEntryIsExplained

LEMMA ArriveInv == ASSUME CacheInv, NEW r \in Request, Arrive(r) PROVE CacheInv'
<1>1. PICK m \in Method, c \in Colo, t \in Tenant :
        request' = [request EXCEPT ![r] = [Unsent EXCEPT
          !.pc = IF m = "GET" THEN "match" ELSE "write",
          !.method = m, !.colo = c, !.tenant = t,
          !.floor = IF m = "GET" THEN settled[t] ELSE 0]]
  BY DEF Arrive
<1> DEFINE pc == IF m = "GET" THEN "match" ELSE "write"
           floor == IF m = "GET" THEN settled[t] ELSE 0
           q == [Unsent EXCEPT !.pc = pc, !.method = m, !.colo = c, !.tenant = t, !.floor = floor]
<1>2. m \in AllMethods /\ floor \in Nat /\ pc \in {"match", "write"}
  BY CacheAssumption DEF CacheInv, CacheTypes
<1> HIDE DEF pc, floor
<1>3. q \in CacheRequests /\ q.colo \in Colo /\ q.tenant \in Tenant
  BY <1>2, UnsentType DEF CacheRequests
<1>4. request' = [request EXCEPT ![r] = q]
  BY <1>1 DEF pc, floor
<1> HIDE DEF q
<1>5. QED
  BY <1>3, <1>4, OnlyRequestMoves DEF Arrive

LEMMA CacheMatchInv == ASSUME CacheInv, NEW r \in Request, CacheMatch(r) PROVE CacheInv'
<1>1. request[r].pc = "match" /\ CacheTypes /\ UNCHANGED <<row, version, entry, tainted, settled>>
      /\ entry[KeyOf(r)] \in Nat
  BY KeyOfType DEF CacheMatch, CacheInv, CacheTypes
<1>2. CASE entry[KeyOf(r)] # 0
  BY <1>1, <1>2, AnswerType, OnlyRequestMoves DEF CacheMatch
<1>3. CASE entry[KeyOf(r)] = 0
  <2> DEFINE q == [request[r] EXCEPT !.pc = "handler"]
  <2>1. q \in CacheRequests /\ q.colo \in Colo /\ q.tenant \in Tenant
    BY <1>1 DEF CacheTypes, CacheRequests
  <2>2. request' = [request EXCEPT ![r] = q]
    BY <1>1, <1>3 DEF CacheMatch, CacheTypes
  <2> HIDE DEF q
  <2>3. QED
    BY <1>1, <2>1, <2>2, OnlyRequestMoves
<1>4. QED
  BY <1>2, <1>3

LEMMA HandleGetInv == ASSUME CacheInv, NEW r \in Request, HandleGet(r) PROVE CacheInv'
<1> DEFINE v == row[request[r].tenant]
<1>1. request[r].pc = "handler" /\ CacheTypes /\ UNCHANGED <<row, version, entry, tainted, settled>>
      /\ v \in Nat
  BY DEF HandleGet, CacheInv, CacheTypes
<1>2. CASE v = 0
  BY <1>1, <1>2, AnswerType, OnlyRequestMoves DEF HandleGet
<1>3. CASE v # 0
  <2> DEFINE q == [request[r] EXCEPT !.pc = "fill", !.seen = v]
  <2>1. request' = [request EXCEPT ![r] = q]
    BY <1>1, <1>3 DEF HandleGet, CacheTypes
  <2> HIDE DEF v
  <2>2. q \in CacheRequests /\ q.colo \in Colo /\ q.tenant \in Tenant
    BY <1>1 DEF CacheTypes, CacheRequests
  <2> HIDE DEF q
  <2>3. QED
    BY <1>1, <2>1, <2>2, OnlyRequestMoves
<1>4. QED
  BY <1>2, <1>3

LEMMA CacheFillInv == ASSUME CacheInv, NEW r \in Request, CacheFill(r) PROVE CacheInv'
<1>1. request[r].pc = "fill" /\ CacheTypes /\ request[r].seen \in Nat
  BY DEF CacheFill, CacheInv, CacheTypes, CacheRequests
<1>2. KeyOf(r) \in CacheKey /\ KeyOf(r)[2] = request[r].tenant
  BY <1>1, KeyOfType
<1>3. PICK q \in CacheRequests : q.pc = "done" /\ request' = [request EXCEPT ![r] = q]
  BY <1>1, AnswerType DEF CacheFill
<1>4. CacheTypes'
  BY <1>1, <1>2, <1>3, RequestMoves DEF CacheTypes, CacheFill
<1>5. \A k : Invalidating(k) => Invalidating(k)'
  BY <1>1, <1>3, StillInvalidating
<1>6. /\ entry'[KeyOf(r)] = row'[KeyOf(r)[2]] \/ KeyOf(r) \in tainted'
      /\ \A k \in CacheKey : k # KeyOf(r) =>
           entry'[k] = entry[k] /\ (k \in tainted => k \in tainted') /\ row' = row
  BY <1>1, <1>2 DEF CacheFill, CacheTypes
<1>7. QED
  BY <1>4, <1>5, <1>6 DEF CacheInv, StaleEntryIsExplained

(* A write leaves every entry of its tenant tainted but the one that its   *)
(* invalidation will reach, if it has one.                                 *)
LEMMA CommitRowExplains ==
  ASSUME CacheInv, NEW r \in Request, request[r].pc = "write", CommitRow(r), entry' = entry,
         settled' = settled, NEW q \in CacheRequests, request' = [request EXCEPT ![r] = q],
         q.pc \notin {"new", "done"} => q.colo \in Colo /\ q.tenant \in Tenant,
         NEW reached, tainted' = tainted \cup Unreached(r, reached),
         \A k \in CacheKey \cap reached : Invalidating(k)'
  PROVE  CacheInv'
<1>1. CacheTypes /\ request[r].tenant \in Tenant
  BY DEF CacheInv, CacheTypes
<1>2. /\ version' = version + 1
      /\ row' = [row EXCEPT ![request[r].tenant] =
                   IF request[r].method = "DELETE" THEN 0 ELSE version']
  BY DEF CommitRow
<1>3. tainted' \subseteq CacheKey
  BY <1>1 DEF Unreached, CacheTypes
<1>4. CacheTypes'
  BY <1>1, <1>2, <1>3, RequestMoves DEF CacheTypes
<1>5. \A k : Invalidating(k) => Invalidating(k)'
  BY <1>1, StillInvalidating
<1>6. \A k \in CacheKey : k[2] # request[r].tenant => row'[k[2]] = row[k[2]]
  BY <1>1, <1>2 DEF CacheTypes, CacheKey
<1>7. \A k \in CacheKey : k[2] = request[r].tenant /\ entry[k] # 0
                            => Invalidating(k)' \/ k \in tainted'
  BY DEF Unreached
<1>8. StaleEntryIsExplained'
  BY <1>1, <1>5, <1>6, <1>7 DEF CacheInv, StaleEntryIsExplained
<1>9. QED
  BY <1>4, <1>8 DEF CacheInv

LEMMA CommitWriteInv == ASSUME CacheInv, NEW r \in Request, CommitWrite(r) PROVE CacheInv'
<1> DEFINE q == [request[r] EXCEPT !.pc = "invalidate", !.seen = version']
           reached == {KeyOf(r)} \cap {k \in CacheKey : request[r].method \in {"PATCH", "DELETE"}}
<1>1. /\ request[r].pc = "write" /\ CacheTypes /\ request[r].tenant \in Tenant
      /\ CommitRow(r) /\ entry' = entry /\ settled' = settled
      /\ version' \in Nat /\ tainted' = tainted \cup Unreached(r, reached)
  BY DEF CommitWrite, CommitRow, CacheInv, CacheTypes
<1>2. /\ q \in CacheRequests /\ q.pc = "invalidate" /\ q.colo = request[r].colo
      /\ q.tenant = request[r].tenant /\ q.method = request[r].method
      /\ q.colo \in Colo
  BY <1>1 DEF CacheTypes, CacheRequests
<1>3. request' = [request EXCEPT ![r] = q]
  BY <1>1 DEF CommitWrite, CacheTypes
<1> HIDE DEF q
<1>4. request'[r] = q
  BY <1>1, <1>2, <1>3, RequestMoves
<1>5. KeyOf(r)' = KeyOf(r)
  BY <1>2, <1>4 DEF KeyOf
<1>6. \A k \in CacheKey \cap reached : Invalidating(k)'
  BY <1>2, <1>4, <1>5 DEF Invalidating
<1> HIDE DEF reached
<1>7. QED
  BY <1>1, <1>2, <1>3, <1>6, CommitRowExplains

LEMMA WriteFailsInv ==
  ASSUME CacheInv, NEW r \in Request, WriteRefused(r) \/ WriteUncertain(r) PROVE CacheInv'
<1>1. request[r].pc = "write" /\ CacheTypes /\ request' = Answer(r, 0)
  BY DEF WriteRefused, WriteUncertain, CacheInv
<1>2. PICK q \in CacheRequests : q.pc = "done" /\ request' = [request EXCEPT ![r] = q]
  BY <1>1, AnswerType
<1>3. CASE WriteRefused(r)
  BY <1>1, <1>2, <1>3, OnlyRequestMoves DEF WriteRefused
<1>4. CASE WriteUncertain(r)
  <2>1. /\ CommitRow(r) /\ entry' = entry /\ settled' = settled
        /\ tainted' = tainted \cup Unreached(r, {})
    BY <1>4 DEF WriteUncertain
  <2>2. QED
    BY <1>1, <1>2, <2>1, CommitRowExplains
<1>5. QED
  BY <1>3, <1>4

LEMMA InvalidateInv ==
  ASSUME CacheInv, NEW r \in Request, Invalidate(r) \/ InvalidateFails(r)
  PROVE  CacheInv'
<1>1. request[r].pc = "invalidate" /\ CacheTypes /\ row' = row /\ version' = version
      /\ request' = Answer(r, 0)
  BY DEF Invalidate, InvalidateFails, CacheInv
<1>2. KeyOf(r) \in CacheKey
  BY <1>1, KeyOfType
<1>3. PICK q \in CacheRequests : q.pc = "done" /\ request' = [request EXCEPT ![r] = q]
  BY <1>1, AnswerType
<1>4. CacheTypes'
  <2>1. request[r].tenant \in Tenant /\ request[r].seen \in Nat
    BY <1>1 DEF CacheTypes, CacheRequests
  <2>2. settled' \in [Tenant -> Nat]
    BY <1>1, <2>1 DEF CacheTypes, Invalidate, InvalidateFails, WriteSettles
  <2>3. QED
    BY <1>1, <1>2, <1>3, <2>2, RequestMoves DEF CacheTypes, Invalidate, InvalidateFails
<1>5. ASSUME NEW k \in CacheKey, entry'[k] # 0
      PROVE  entry[k] = entry'[k] /\ (k \in tainted => k \in tainted')
             /\ (Invalidating(k) => Invalidating(k)' \/ k \in tainted')
  <2>1. CASE k # KeyOf(r)
    <3>1. Invalidating(k) => Invalidating(k)'
      BY <1>1, <1>3, <2>1, StillInvalidating
    <3>2. QED
      BY <1>1, <1>2, <2>1, <3>1 DEF CacheTypes, Invalidate, InvalidateFails
  <2>2. CASE k = KeyOf(r) /\ Invalidate(r)
    <3>1. request[r].method \notin WRITE_METHODS /\ UNCHANGED <<entry, tainted>>
      BY <1>1, <1>2, <1>5, <2>2 DEF Invalidate, CacheTypes
    <3>2. request[r].method \notin {"PATCH", "DELETE"}
      BY <3>1 DEF WRITE_METHODS
    <3>3. QED
      BY <1>1, <1>3, <3>1, <3>2, StillInvalidating
  <2>3. CASE k = KeyOf(r) /\ InvalidateFails(r)
    BY <1>5, <2>3 DEF InvalidateFails
  <2>4. QED
    BY <2>1, <2>2, <2>3
<1>6. QED
  BY <1>1, <1>4, <1>5 DEF CacheInv, StaleEntryIsExplained

LEMMA CacheInvNext == CacheInv /\ [CacheNext]_cacheVars => CacheInv'
<1> SUFFICES ASSUME CacheInv, [CacheNext]_cacheVars PROVE CacheInv'
  OBVIOUS
<1>1. CASE UNCHANGED cacheVars
  BY <1>1 DEF CacheInv, CacheTypes, StaleEntryIsExplained, Invalidating, KeyOf, cacheVars
<1>2. ASSUME NEW r \in Request, \/ Arrive(r) \/ CacheMatch(r) \/ HandleGet(r) \/ CacheFill(r)
                                \/ CommitWrite(r) \/ WriteRefused(r) \/ WriteUncertain(r)
                                \/ Invalidate(r) \/ InvalidateFails(r)
      PROVE  CacheInv'
  BY <1>2, ArriveInv, CacheMatchInv, HandleGetInv, CacheFillInv, CommitWriteInv,
     WriteFailsInv, InvalidateInv
<1>3. QED
  BY <1>1, <1>2, InsertRowInv, EvictInv DEF CacheNext

(* A cached row that is not its tenant's committed row has an invalidation *)
(* on its way or is one of the cases left to expiry.                       *)
THEOREM StaleEntriesAreExplained == CacheSpec => []StaleEntryIsExplained
<1>1. CacheInv => StaleEntryIsExplained
  BY DEF CacheInv
<1>2. QED
  BY CacheInvInit, CacheInvNext, <1>1, PTL DEF CacheSpec

-----------------------------------------------------------------------------
(* ClientCall                                                              *)

Ops == {"get", "insert", "delete"}
Codes == {"none", "NotFound", "NetworkError", "AmbiguousCommit"}

Asks == [pc : {"idle", "send", "await", "answered", "done"}, op : Ops \cup {"none"}, try : Nat,
         answer : Nat \X Codes,
         result : {"none", "throws", "row", "inserted", "deleted 1", "undefined", "deleted 0"}]
Effects == [absent : BOOLEAN, present : BOOLEAN, deleted : BOOLEAN]

(* A request under way belongs to a call that was begun, and one whose     *)
(* handler is between its read and its commit to a delete.                 *)
ClientTypes ==
  /\ rowLive \in BOOLEAN
  /\ ask \in [Caller -> Asks]
  /\ wired \subseteq Caller \X Nat \X Nat /\ held \subseteq Caller \X Nat \X Nat
  /\ resends \in Nat
  /\ effect \in [Caller -> Effects]
  /\ \A c \in Caller : ask[c].pc # "idle" => ask[c].op \in Ops
  /\ \A r \in wired \cup held : ask[r[1]].pc # "idle"
  /\ \A r \in held : ask[r[1]].op = "delete"

(* What an answer with the server's envelope, or with a success, proves of *)
(* the time the call has been running.                                     *)
AnswerProves(q, e) ==
  /\ q.answer[2] = "NotFound" => q.op \in {"get", "delete"} /\ e.absent
  /\ Succeeded(q.answer) /\ q.op \in {"get", "insert"} => e.present
  /\ Succeeded(q.answer) /\ q.op = "delete" => e.present /\ e.deleted

ResultProves(q, e) ==
  /\ q.result # "none" => q.pc = "done"
  /\ q.result \in {"undefined", "deleted 0"} => e.absent
  /\ q.result \in {"row", "inserted"} => e.present
  /\ q.result = "deleted 1" => e.present /\ e.deleted

AnswersProve ==
  \A c \in Caller : /\ ask[c].pc = "answered" => AnswerProves(ask[c], effect[c])
                    /\ ResultProves(ask[c], effect[c])

(* A running call has seen the row as it is, and as the handler that is    *)
(* about to delete it for this call has read it.                           *)
CallsWatch ==
  /\ \A c \in Caller : Running(c) =>
       (rowLive => effect[c].present) /\ (~rowLive => effect[c].absent)
  /\ \A r \in held : Running(r[1]) => effect[r[1]].present

ClientInv == ClientTypes /\ AnswersProve /\ CallsWatch

(* What has happened stays so.                                             *)
LEMMA ProofsStay ==
  ASSUME NEW q, NEW e, NEW f, e.absent => f.absent, e.present => f.present,
         e.deleted => f.deleted
  PROVE  /\ AnswerProves(q, e) => AnswerProves(q, f)
         /\ ResultProves(q, e) => ResultProves(q, f)
BY DEF AnswerProves, ResultProves

LEMMA NoAskType == NoAsk \in Asks /\ NoAsk.pc = "idle" /\ NoAsk.result = "none"
BY DEF NoAsk, Asks, Ops, Codes

LEMMA NothingType == Nothing \in Effects
BY DEF Nothing, Effects

LEMMA ClientInvInit == ClientInit => ClientInv
<1> SUFFICES ASSUME ClientInit PROVE ClientInv
  OBVIOUS
<1>1. \A c \in Caller : ask[c] = NoAsk
  BY DEF ClientInit
<1>2. ClientTypes
  BY <1>1, NoAskType, NothingType DEF ClientInit, ClientTypes
<1>3. AnswersProve
  BY <1>1, NoAskType DEF AnswersProve, ResultProves
<1>4. CallsWatch
  BY <1>1, NoAskType DEF ClientInit, CallsWatch, Running
<1>5. QED
  BY <1>2, <1>3, <1>4 DEF ClientInv

(* One call moves on, and no effect changes.                               *)
LEMMA CallMoves ==
  ASSUME ClientInv, NEW c \in Caller, NEW q \in Asks, ask' = [ask EXCEPT ![c] = q],
         UNCHANGED <<rowLive, held, effect>>, q.op = ask[c].op, q.op \in Ops, q.pc # "idle",
         q.pc = "done" \/ Running(c),
         resends' \in Nat, wired' \subseteq Caller \X Nat \X Nat,
         \A r \in wired' : r \in wired \/ r[1] = c,
         q.pc = "answered" => AnswerProves(q, effect[c]),
         ResultProves(q, effect[c])
  PROVE  ClientInv'
<1>1. /\ ask' \in [Caller -> Asks] /\ ask'[c] = q
      /\ \A d \in Caller : d # c => ask'[d] = ask[d]
  BY DEF ClientInv, ClientTypes
<1>2. ClientTypes'
  BY <1>1 DEF ClientInv, ClientTypes
<1>3. AnswersProve'
  BY <1>1 DEF ClientInv, AnswersProve, AnswerProves, ResultProves
<1>4. CallsWatch'
  <2>1. \A d \in Caller : Running(d)' => Running(d)
    BY <1>1 DEF Running
  <2>2. \A r \in held : r[1] \in Caller
    BY DEF ClientInv, ClientTypes
  <2>3. QED
    BY <2>1, <2>2 DEF ClientInv, CallsWatch
<1>5. QED
  BY <1>2, <1>3, <1>4 DEF ClientInv

LEMMA SendRequestInv == ASSUME ClientInv, NEW c \in Caller, SendRequest(c) PROVE ClientInv'
<1> DEFINE q == [ask[c] EXCEPT !.pc = "await"]
<1>1. ask[c] \in Asks /\ ask[c].pc = "send" /\ ask[c].op \in Ops
  BY DEF SendRequest, ClientInv, ClientTypes
<1>2. q \in Asks /\ q.pc = "await" /\ q.op = ask[c].op /\ q.result = ask[c].result
  BY <1>1 DEF Asks
<1>3. ResultProves(q, effect[c])
  BY <1>1, <1>2 DEF ClientInv, AnswersProve, ResultProves
<1>4. ask' = [ask EXCEPT ![c] = q]
  BY DEF SendRequest, ClientInv, ClientTypes
<1>5. wired' \subseteq Caller \X Nat \X Nat /\ \A r \in wired' : r \in wired \/ r[1] = c
  <2>1. ask[c].try \in Nat
    BY <1>1 DEF Asks
  <2>2. <<c, ask[c].try, 0>> \in Caller \X Nat \X Nat /\ <<c, ask[c].try, 0>>[1] = c
    BY <2>1
  <2>3. QED
    BY <2>2 DEF SendRequest, ClientInv, ClientTypes
<1> HIDE DEF q
<1>6. QED
  BY <1>1, <1>2, <1>3, <1>4, <1>5, CallMoves DEF SendRequest, ClientInv, ClientTypes, Running

LEMMA FetchThrowsInv == ASSUME ClientInv, NEW c \in Caller, FetchThrows(c) PROVE ClientInv'
<1> DEFINE q == [ask[c] EXCEPT !.pc = "answered", !.answer = <<0, "none">>]
<1>1. ask[c] \in Asks /\ ask[c].pc = "await" /\ ask[c].op \in Ops
  BY DEF FetchThrows, ClientInv, ClientTypes
<1>2. q \in Asks /\ q.pc = "answered" /\ q.op = ask[c].op /\ q.result = ask[c].result
      /\ q.answer = <<0, "none">>
  BY <1>1 DEF Asks, Codes
<1>3. ResultProves(q, effect[c]) /\ AnswerProves(q, effect[c])
  <2>1. q.answer[1] = 0 /\ q.answer[2] = "none"
    BY <1>2
  <2>2. ~Succeeded(q.answer)
    BY <2>1 DEF Succeeded
  <2> HIDE DEF q
  <2>3. QED
    BY <1>1, <1>2, <2>1, <2>2 DEF ClientInv, AnswersProve, ResultProves, AnswerProves
<1>4. ask' = [ask EXCEPT ![c] = q]
  BY DEF FetchThrows, ClientInv, ClientTypes
<1> HIDE DEF q
<1>5. QED
  BY <1>1, <1>2, <1>3, <1>4, CallMoves DEF FetchThrows, ClientInv, ClientTypes, Running

LEMMA RetryRequestInv == ASSUME ClientInv, NEW c \in Caller, RetryRequest(c) PROVE ClientInv'
<1> DEFINE n == ask[c].try + 1
           q == [ask[c] EXCEPT !.pc = "send", !.try = n]
<1>1. ask[c] \in Asks /\ ask[c].pc = "answered" /\ ask[c].op \in Ops
  BY DEF RetryRequest, ClientInv, ClientTypes
<1>2. q \in Asks /\ q.pc = "send" /\ q.op = ask[c].op /\ q.result = ask[c].result
  <2>1. n \in Nat
    <3>1. ask[c].try \in Nat
      BY <1>1 DEF Asks
    <3>2. QED
      BY <3>1
  <2> HIDE DEF n
  <2>2. q \in Asks
    BY <1>1, <2>1 DEF Asks
  <2>3. q.pc = "send" /\ q.op = ask[c].op /\ q.result = ask[c].result
    BY <1>1 DEF Asks
  <2>4. QED
    BY <2>2, <2>3
<1>3. ResultProves(q, effect[c])
  BY <1>1, <1>2 DEF ClientInv, AnswersProve, ResultProves
<1>4. ask' = [ask EXCEPT ![c] = q]
  BY DEF RetryRequest, ClientInv, ClientTypes
<1> HIDE DEF q
<1>5. QED
  BY <1>1, <1>2, <1>3, <1>4, CallMoves DEF RetryRequest, ClientInv, ClientTypes, Running

(* What ResultOf makes of an answer is covered by what the answer proves:  *)
(* a status alone never becomes "no such row".                             *)
LEMMA ResultIsProved ==
  ASSUME NEW q \in Asks, NEW e \in Effects, q.op \in Ops, AnswerProves(q, e)
  PROVE  LET res == ResultOf(q.op, q.answer) IN
         /\ res \in {"throws", "row", "inserted", "deleted 1", "undefined", "deleted 0"}
         /\ res \in {"undefined", "deleted 0"} => e.absent
         /\ res \in {"row", "inserted"} => e.present
         /\ res = "deleted 1" => e.present /\ e.deleted
<1> DEFINE a == q.answer
           res == ResultOf(q.op, a)
<1>1. CASE Thrown(a)
  BY <1>1 DEF ResultOf
<1>2. CASE ~Thrown(a) /\ Succeeded(a)
  <2>1. res = [get |-> "row", insert |-> "inserted", delete |-> "deleted 1"][q.op]
    BY <1>2 DEF ResultOf
  <2>2. CASE q.op = "get"
    <3>1. res = "row"
      BY <2>1, <2>2
    <3>2. QED
      BY <1>2, <2>2, <3>1 DEF AnswerProves
  <2>3. CASE q.op = "insert"
    <3>1. res = "inserted"
      BY <2>1, <2>3
    <3>2. QED
      BY <1>2, <2>3, <3>1 DEF AnswerProves
  <2>4. CASE q.op = "delete"
    <3>1. res = "deleted 1"
      BY <2>1, <2>4, [get |-> "row", insert |-> "inserted", delete |-> "deleted 1"]["delete"] = "deleted 1"
    <3>2. QED
      BY <1>2, <2>4, <3>1 DEF AnswerProves
  <2>5. QED
    BY <2>2, <2>3, <2>4 DEF Ops
<1>3. CASE ~Thrown(a) /\ ~Succeeded(a)
  <2>1. CASE decodeFailure(a) = "NotFound" /\ q.op \in {"get", "delete"}
    <3>1. a[2] = "NotFound"
      BY <2>1 DEF decodeFailure
    <3>2. res = [get |-> "undefined", delete |-> "deleted 0"][q.op]
      BY <1>3, <2>1 DEF ResultOf
    <3>3. res \in {"undefined", "deleted 0"}
      <4>1. CASE q.op = "get"
        BY <3>2, <4>1
      <4>2. CASE q.op = "delete"
        BY <3>2, <4>2, [get |-> "undefined", delete |-> "deleted 0"]["delete"] = "deleted 0"
      <4>3. QED
        BY <2>1, <4>1, <4>2
    <3>4. QED
      BY <3>1, <3>3 DEF AnswerProves
  <2>2. CASE ~(decodeFailure(a) = "NotFound" /\ q.op \in {"get", "delete"})
    <3>1. res = "throws"
      BY <1>3, <2>2 DEF ResultOf
    <3>2. QED
      BY <3>1
  <2>3. QED
    BY <2>1, <2>2
<1>4. QED
  BY <1>1, <1>2, <1>3

LEMMA EndCallInv ==
  ASSUME ClientInv, NEW c \in Caller, EndCall(c) \/ AbortCall(c) PROVE ClientInv'
<1>1. ask[c] \in Asks /\ ask[c].op \in Ops /\ ask[c].pc # "idle" /\ effect[c] \in Effects
      /\ UNCHANGED <<rowLive, wired, held, resends, effect>>
  BY DEF EndCall, AbortCall, ClientInv, ClientTypes
<1>2. PICK res : /\ ask' = [ask EXCEPT ![c].pc = "done", ![c].result = res]
                 /\ (EndCall(c) /\ res = ResultOf(ask[c].op, ask[c].answer)) \/ res = "throws"
  BY DEF EndCall, AbortCall
<1>3. /\ res \in {"throws", "row", "inserted", "deleted 1", "undefined", "deleted 0"}
      /\ res \in {"undefined", "deleted 0"} => effect[c].absent
      /\ res \in {"row", "inserted"} => effect[c].present
      /\ res = "deleted 1" => effect[c].present /\ effect[c].deleted
  BY <1>1, <1>2, ResultIsProved DEF EndCall, ClientInv, AnswersProve
<1> DEFINE q == [ask[c] EXCEPT !.pc = "done", !.result = res]
<1>4. q \in Asks /\ q.pc = "done" /\ q.op = ask[c].op /\ q.result = res
  BY <1>1, <1>3 DEF Asks
<1>5. ResultProves(q, effect[c])
  BY <1>3, <1>4 DEF ResultProves
<1>6. ask' = [ask EXCEPT ![c] = q]
  BY <1>2 DEF ClientInv, ClientTypes
<1> HIDE DEF q
<1>7. QED
  BY <1>1, <1>4, <1>5, <1>6, CallMoves DEF ClientInv, ClientTypes

LEMMA BeginCallInv ==
  ASSUME ClientInv, NEW c \in Caller, NEW op \in Ops, BeginCall(c, op) PROVE ClientInv'
<1> DEFINE q == [NoAsk EXCEPT !.pc = "send", !.op = op, !.try = 1]
           e == [Nothing EXCEPT !.absent = ~rowLive, !.present = rowLive]
<1>1. q \in Asks /\ q.pc = "send" /\ q.op = op /\ q.result = "none"
  BY NoAskType DEF Asks
<1>2. e \in Effects
  BY NothingType DEF Effects, ClientInv, ClientTypes
<1>3. ask' = [ask EXCEPT ![c] = q] /\ effect' = [effect EXCEPT ![c] = e]
      /\ UNCHANGED <<rowLive, wired, held, resends>> /\ ask[c].pc = "idle"
  BY DEF BeginCall
<1> HIDE DEF q, e
<1>4. /\ ask' \in [Caller -> Asks] /\ ask'[c] = q /\ effect' \in [Caller -> Effects]
      /\ \A d \in Caller : d # c => ask'[d] = ask[d] /\ effect'[d] = effect[d]
  BY <1>1, <1>2, <1>3 DEF ClientInv, ClientTypes
<1>5. ClientTypes'
  BY <1>1, <1>3, <1>4 DEF ClientInv, ClientTypes
<1>6. AnswersProve'
  BY <1>1, <1>4 DEF ClientInv, AnswersProve, AnswerProves, ResultProves
<1>7. CallsWatch'
  <2>1. (rowLive => e.present) /\ (~rowLive => e.absent) /\ effect'[c] = e
    BY <1>3 DEF e, Nothing, ClientInv, ClientTypes
  <2>2. \A r \in held : r[1] \in Caller /\ r[1] # c
    BY <1>3 DEF ClientInv, ClientTypes
  <2>3. \A d \in Caller : d # c => (Running(d)' <=> Running(d))
    BY <1>4 DEF Running
  <2>4. QED
    BY <1>3, <1>4, <2>1, <2>2, <2>3 DEF ClientInv, CallsWatch
<1>8. QED
  BY <1>5, <1>6, <1>7 DEF ClientInv

LEMMA ResendInv == ASSUME ClientInv, NEW r \in wired \cup held, Resend(r) PROVE ClientInv'
<1>1. r \in Caller \X Nat \X Nat /\ resends + 1 \in Nat
  BY DEF ClientInv, ClientTypes
<1> DEFINE r2 == <<r[1], r[2], resends + 1>>
<1>2. r2 \in Caller \X Nat \X Nat /\ r2[1] = r[1]
  BY <1>1
<1>3. wired' = wired \cup {r2} /\ resends' = resends + 1 /\ UNCHANGED <<rowLive, ask, held, effect>>
  BY DEF Resend
<1> HIDE DEF r2
<1>4. ClientTypes'
  BY <1>1, <1>2, <1>3 DEF ClientInv, ClientTypes
<1>5. QED
  BY <1>3, <1>4 DEF ClientInv, AnswersProve, AnswerProves, ResultProves, CallsWatch, Running

(* The answers that are not the route's own.                               *)
LEMMA AnswerCodes ==
  \A a \in ProxyAnswers \cup ServerErrors \cup {<<409, "AmbiguousCommit">>} :
    a \in Nat \X Codes /\ ~Succeeded(a) /\ a[2] # "NotFound"
BY DEF ProxyAnswers, ServerErrors, Codes, Succeeded

(* Receive changes one call, and only one that awaits this attempt.        *)
LEMMA ReceiveMoves ==
  ASSUME ClientInv, NEW r \in wired \cup held, NEW a \in Nat \X Codes, ask' = Receive(r, a)
  PROVE  /\ r[1] \in Caller /\ ask' \in [Caller -> Asks]
         /\ \A d \in Caller : /\ ask'[d].op = ask[d].op /\ ask'[d].result = ask[d].result
                              /\ \/ ask'[d] = ask[d]
                                 \/ /\ d = r[1] /\ ask[d].pc = "await"
                                    /\ ask'[d].pc = "answered" /\ ask'[d].answer = a
<1>1. r[1] \in Caller
  BY DEF ClientInv, ClientTypes
<1>2. CASE ask[r[1]].pc = "await" /\ ask[r[1]].try = r[2]
  <2>1. ask' = [ask EXCEPT ![r[1]] = [ask[r[1]] EXCEPT !.pc = "answered", !.answer = a]]
    BY <1>1, <1>2 DEF Receive, ClientInv, ClientTypes
  <2>2. ask[r[1]] \in Asks
    BY <1>1 DEF ClientInv, ClientTypes
  <2> DEFINE q == [ask[r[1]] EXCEPT !.pc = "answered", !.answer = a]
  <2>3. q \in Asks /\ q.pc = "answered" /\ q.answer = a /\ q.op = ask[r[1]].op
        /\ q.result = ask[r[1]].result
    BY <2>2 DEF Asks
  <2>4. ask' = [ask EXCEPT ![r[1]] = q]
    BY <2>1
  <2> HIDE DEF q
  <2>5. QED
    BY <1>1, <1>2, <2>3, <2>4 DEF ClientInv, ClientTypes
<1>3. CASE ~(ask[r[1]].pc = "await" /\ ask[r[1]].try = r[2])
  BY <1>1, <1>3 DEF Receive, ClientInv, ClientTypes
<1>4. QED
  BY <1>2, <1>3

(* An answer arrives, and the effects it speaks of have been noted.        *)
LEMMA AnswerInv ==
  ASSUME ClientInv, NEW r \in wired \cup held, NEW a \in Nat \X Codes, ask' = Receive(r, a),
         wired' \subseteq wired, held' \subseteq held, resends' = resends,
         rowLive' \in BOOLEAN, effect' \in [Caller -> Effects],
         \A d \in Caller : /\ effect[d].absent => effect'[d].absent
                           /\ effect[d].present => effect'[d].present
                           /\ effect[d].deleted => effect'[d].deleted
                           /\ Running(d) /\ ~rowLive' => effect'[d].absent
                           /\ Running(d) /\ rowLive' => effect'[d].present,
         Running(r[1]) =>
           /\ a[2] = "NotFound" => ask[r[1]].op \in {"get", "delete"} /\ effect'[r[1]].absent
           /\ Succeeded(a) /\ ask[r[1]].op \in {"get", "insert"} => effect'[r[1]].present
           /\ Succeeded(a) /\ ask[r[1]].op = "delete"
                => effect'[r[1]].present /\ effect'[r[1]].deleted
  PROVE  ClientInv'
<1>1. /\ r[1] \in Caller /\ ask' \in [Caller -> Asks]
      /\ \A d \in Caller : /\ ask'[d].op = ask[d].op /\ ask'[d].result = ask[d].result
                           /\ \/ ask'[d] = ask[d]
                              \/ /\ d = r[1] /\ ask[d].pc = "await"
                                 /\ ask'[d].pc = "answered" /\ ask'[d].answer = a
  BY ReceiveMoves
<1>2. ClientTypes'
  <2>1. \A d \in Caller : ask[d].pc # "idle" <=> ask'[d].pc # "idle"
    BY <1>1
  <2>2. \A q \in wired \cup held : q[1] \in Caller
    BY DEF ClientInv, ClientTypes
  <2>3. QED
    BY <1>1, <2>1, <2>2 DEF ClientInv, ClientTypes
<1>3. AnswersProve'
  <2> SUFFICES ASSUME NEW d \in Caller
               PROVE  /\ ask'[d].pc = "answered" => AnswerProves(ask'[d], effect'[d])
                      /\ ResultProves(ask'[d], effect'[d])
    BY DEF AnswersProve
  <2>1. CASE ask'[d] = ask[d]
    BY <2>1, ProofsStay DEF ClientInv, AnswersProve
  <2>2. CASE /\ d = r[1] /\ ask[d].pc = "await" /\ ask'[d].pc = "answered"
             /\ ask'[d].answer = a /\ ask'[d].op = ask[d].op /\ ask'[d].result = ask[d].result
    <3>1. Running(d)
      BY <2>2 DEF Running
    <3>2. AnswerProves(ask'[d], effect'[d])
      BY <2>2, <3>1 DEF AnswerProves
    <3>3. ask[d].result = "none"
      BY <2>2 DEF ClientInv, AnswersProve, ResultProves
    <3>4. ResultProves(ask'[d], effect'[d])
      BY <2>2, <3>3 DEF ResultProves
    <3>5. QED
      BY <3>2, <3>4
  <2>3. QED
    BY <1>1, <2>1, <2>2
<1>4. CallsWatch'
  <2>1. \A d \in Caller : Running(d)' => Running(d)
    BY <1>1 DEF Running
  <2>2. \A q \in held : q[1] \in Caller
    BY DEF ClientInv, ClientTypes
  <2>3. QED
    BY <2>1, <2>2 DEF ClientInv, CallsWatch
<1>5. QED
  BY <1>2, <1>3, <1>4 DEF ClientInv

LEMMA BounceInv == ASSUME ClientInv, NEW r \in wired \cup held, Bounce(r) PROVE ClientInv'
<1>1. PICK a \in ProxyAnswers \cup ServerErrors : ask' = Receive(r, a)
  BY DEF Bounce
<1>2. a \in Nat \X Codes /\ ~Succeeded(a) /\ a[2] # "NotFound"
  BY <1>1, AnswerCodes
<1>3. UNCHANGED <<rowLive, resends, effect>> /\ wired' \subseteq wired /\ held' \subseteq held
  BY DEF Bounce
<1>4. QED
  BY <1>1, <1>2, <1>3, AnswerInv DEF ClientInv, ClientTypes, CallsWatch

LEMMA ServeReadInv == ASSUME ClientInv, NEW r \in wired \cup held, ServeRead(r) PROVE ClientInv'
<1>1. PICK a \in {ReadAnswer} \cup ProxyAnswers : ask' = Receive(r, a)
  BY DEF ServeRead
<1>2. /\ UNCHANGED <<rowLive, held, resends, effect>> /\ wired' \subseteq wired
      /\ ask[r[1]].op = "get" \/ (ask[r[1]].op = "delete" /\ ~rowLive)
      /\ r[1] \in Caller
  BY DEF ServeRead, ClientInv, ClientTypes
<1>3. /\ a \in Nat \X Codes
      /\ a[2] = "NotFound" => ~rowLive
      /\ Succeeded(a) => rowLive
  <2>1. CASE a = ReadAnswer
    BY <2>1 DEF ReadAnswer, Codes, Succeeded
  <2>2. CASE a \in ProxyAnswers
    BY <2>2, AnswerCodes
  <2>3. QED
    BY <1>1, <2>1, <2>2
<1>4. QED
  BY <1>1, <1>2, <1>3, AnswerInv DEF ClientInv, ClientTypes, CallsWatch

LEMMA ServeHoldInv == ASSUME ClientInv, NEW r \in wired \cup held, ServeHold(r) PROVE ClientInv'
<1>1. /\ r \in wired /\ ask[r[1]].op = "delete" /\ rowLive
      /\ wired' = wired \ {r} /\ held' = held \cup {r}
      /\ UNCHANGED <<rowLive, ask, resends, effect>>
  BY DEF ServeHold
<1>2. r \in Caller \X Nat \X Nat /\ r[1] \in Caller
  BY <1>1 DEF ClientInv, ClientTypes
<1>3. ClientTypes'
  BY <1>1, <1>2 DEF ClientInv, ClientTypes
<1>4. CallsWatch'
  BY <1>1, <1>2 DEF ClientInv, CallsWatch, Running
<1>5. AnswersProve'
  BY <1>1 DEF ClientInv, AnswersProve
<1>6. QED
  BY <1>3, <1>4, <1>5 DEF ClientInv

(* Effects are never taken back, and a running call sees the row that the  *)
(* handler leaves.                                                         *)
LEMMA CommitEffects ==
  ASSUME ClientInv, NEW r \in wired \cup held, ServeCommit(r)
  PROVE  /\ rowLive' \in BOOLEAN /\ effect' \in [Caller -> Effects]
         /\ \A d \in Caller : /\ effect[d].absent => effect'[d].absent
                              /\ effect[d].present => effect'[d].present
                              /\ effect[d].deleted => effect'[d].deleted
                              /\ Running(d) /\ ~rowLive' => effect'[d].absent
                              /\ Running(d) /\ rowLive' => effect'[d].present
         /\ ask[r[1]].op = "delete" => effect'[r[1]].deleted
<1> DEFINE c == r[1]
           live == (ask[c].op = "insert")
           del  == (ask[c].op = "delete")
           e == [effect EXCEPT ![c].deleted = @ \/ del]
<1>1. c \in Caller /\ effect[c] \in Effects /\ effect \in [Caller -> Effects]
  BY DEF ClientInv, ClientTypes
<1>2. rowLive' = live /\ effect' = Observe(e, live)
  BY DEF ServeCommit
<1>3. live \in BOOLEAN /\ del \in BOOLEAN
  OBVIOUS
<1> HIDE DEF live, del
<1>4. /\ e \in [Caller -> Effects]
      /\ \A d \in Caller : e[d].absent = effect[d].absent /\ e[d].present = effect[d].present
                           /\ (effect[d].deleted => e[d].deleted)
      /\ del => e[c].deleted
  BY <1>1, <1>3 DEF Effects
<1> HIDE DEF e
<1>5. ASSUME NEW d \in Caller
      PROVE  LET f == IF Running(d) THEN [e[d] EXCEPT !.absent = @ \/ ~live, !.present = @ \/ live]
                      ELSE e[d]
             IN  /\ f \in Effects /\ f.deleted = e[d].deleted
                 /\ (e[d].absent => f.absent) /\ (e[d].present => f.present)
                 /\ (Running(d) /\ ~live => f.absent) /\ (Running(d) /\ live => f.present)
  <2>1. e[d] \in Effects
    BY <1>4
  <2>2. QED
    BY <1>3, <2>1 DEF Effects
<1>6. /\ effect' \in [Caller -> Effects]
      /\ \A d \in Caller : /\ effect'[d].deleted = e[d].deleted
                           /\ e[d].absent => effect'[d].absent
                           /\ e[d].present => effect'[d].present
                           /\ Running(d) /\ ~live => effect'[d].absent
                           /\ Running(d) /\ live => effect'[d].present
  BY <1>2, <1>5 DEF Observe
<1>7. QED
  BY <1>1, <1>2, <1>3, <1>4, <1>6 DEF del

LEMMA ServeCommitInv == ASSUME ClientInv, NEW r \in wired \cup held, ServeCommit(r) PROVE ClientInv'
<1> DEFINE c == r[1]
           op == ask[c].op
<1>1. (r \in held /\ op = "delete") \/ (r \in wired /\ op = "insert")
  BY DEF ServeCommit, ClientInv, ClientTypes
<1>2. PICK a \in {CommitAnswer(op)} \cup ProxyAnswers \cup {<<409, "AmbiguousCommit">>} :
        ask' = Receive(r, a)
  BY DEF ServeCommit
<1>3. /\ rowLive' = (op = "insert") /\ resends' = resends
      /\ wired' \subseteq wired /\ held' \subseteq held
  BY DEF ServeCommit
<1>4. a \in Nat \X Codes /\ a[2] # "NotFound"
  <2>1. CASE a = CommitAnswer(op)
    BY <2>1 DEF CommitAnswer, Codes
  <2>2. CASE a # CommitAnswer(op)
    BY <1>2, <2>2, AnswerCodes
  <2>3. QED
    BY <2>1, <2>2
<1>5. Running(c) => /\ op = "insert" => effect'[c].present
                    /\ op = "delete" => effect'[c].present /\ effect'[c].deleted
  <2>1. c \in Caller
    BY DEF ClientInv, ClientTypes
  <2>2. CASE op = "insert"
    BY <1>3, <2>1, <2>2, CommitEffects
  <2>3. CASE r \in held /\ op = "delete"
    <3>1. Running(c) => effect[c].present
      BY <2>3 DEF ClientInv, CallsWatch
    <3>2. QED
      BY <2>1, <2>3, <3>1, CommitEffects
  <2>4. QED
    BY <1>1, <2>2, <2>3
<1>6. op \in {"insert", "delete"}
  BY <1>1
<1>7. QED
  BY <1>2, <1>3, <1>4, <1>5, <1>6, CommitEffects, AnswerInv

LEMMA ClientInvNext == ClientInv /\ [ClientNext]_clientVars => ClientInv'
<1> SUFFICES ASSUME ClientInv, [ClientNext]_clientVars PROVE ClientInv'
  OBVIOUS
<1>1. CASE UNCHANGED clientVars
  BY <1>1 DEF ClientInv, ClientTypes, AnswersProve, AnswerProves, ResultProves, CallsWatch,
              Running, clientVars
<1>2. ASSUME NEW c \in Caller, \/ SendRequest(c) \/ FetchThrows(c) \/ RetryRequest(c)
                               \/ EndCall(c) \/ AbortCall(c)
      PROVE  ClientInv'
  BY <1>2, SendRequestInv, FetchThrowsInv, RetryRequestInv, EndCallInv
<1>3. ASSUME NEW r \in wired \cup held, \/ Resend(r) \/ Bounce(r)
                                        \/ ServeRead(r) \/ ServeHold(r) \/ ServeCommit(r)
      PROVE  ClientInv'
  BY <1>3, ResendInv, BounceInv, ServeReadInv, ServeHoldInv, ServeCommitInv
<1>4. QED
  BY <1>1, <1>2, <1>3, BeginCallInv DEF ClientNext, Ops

(* What a call of the client reports happened while it ran, whatever the   *)
(* network lost or repeated and whatever a proxy answered in its place.    *)
THEOREM ClientAnswersAreTrue == ClientSpec => []ClientAnswerIsTrue
<1>1. ClientInv => ClientAnswerIsTrue
  BY DEF ClientInv, AnswersProve, ResultProves, ClientAnswerIsTrue
<1>2. QED
  BY ClientInvInit, ClientInvNext, <1>1, PTL DEF ClientSpec

-----------------------------------------------------------------------------
(* UseMutation                                                             *)

RunningCalls == {c \in MutateCall : mutateCall[c] = "running"}

(* The counter is the number of calls under way.                           *)
CounterIsExact == IsFiniteSet(RunningCalls) /\ inFlightRef = Cardinality(RunningCalls)

HookTypes ==
  /\ component \in {"new", "mounted", "gone"}
  /\ mountedRef \in BOOLEAN /\ isPending \in BOOLEAN
  /\ mutateCall \in [MutateCall -> {"idle", "running", "settled"}]

(* Outside StrictMode the flag is set for as long as the component is      *)
(* mounted, and mutate cannot be called before.                            *)
PendingCounts ==
  /\ component = "new" => ~isPending /\ RunningCalls = {}
  /\ component = "mounted" => mountedRef /\ (isPending <=> RunningCalls # {})

HookInv == HookTypes /\ CounterIsExact /\ PendingCounts

LEMMA HookInvInit == HookInit => HookInv
<1> SUFFICES ASSUME HookInit PROVE HookInv
  OBVIOUS
<1>1. RunningCalls = {}
  BY DEF HookInit, RunningCalls
<1>2. QED
  BY <1>1, FS_EmptySet DEF HookInit, HookInv, HookTypes, CounterIsExact, PendingCounts

LEMMA MutateInv == ASSUME HookInv, NEW c \in MutateCall, Mutate(c) PROVE HookInv'
<1>1. RunningCalls' = RunningCalls \cup {c} /\ c \notin RunningCalls
  BY DEF Mutate, HookInv, HookTypes, RunningCalls
<1>2. CounterIsExact'
  BY <1>1, FS_AddElement DEF Mutate, HookInv, CounterIsExact
<1>3. HookTypes'
  BY DEF Mutate, HookInv, HookTypes
<1>4. component = "mounted" => isPending'
  <2>1. RunningCalls = {} => inFlightRef = 0
    BY FS_EmptySet DEF HookInv, CounterIsExact
  <2>2. QED
    BY <2>1 DEF Mutate, HookInv, HookTypes, PendingCounts
<1>5. PendingCounts'
  BY <1>1, <1>4 DEF Mutate, HookInv, PendingCounts
<1>6. QED
  BY <1>2, <1>3, <1>5 DEF HookInv

LEMMA SettleInv == ASSUME HookInv, NEW c \in MutateCall, Settle(c) PROVE HookInv'
<1>1. RunningCalls' = RunningCalls \ {c} /\ c \in RunningCalls
  BY DEF Settle, HookInv, HookTypes, RunningCalls
<1>2. CounterIsExact'
  BY <1>1, FS_RemoveElement DEF Settle, HookInv, CounterIsExact
<1>3. HookTypes'
  BY DEF Settle, HookInv, HookTypes, PendingAfter
<1>4. inFlightRef' = 0 <=> RunningCalls' = {}
  BY <1>2, FS_EmptySet DEF CounterIsExact
<1>5. component = "mounted" => (isPending' <=> RunningCalls' # {})
  BY <1>1, <1>4 DEF Settle, PendingAfter, HookInv, HookTypes, PendingCounts
<1>6. PendingCounts'
  BY <1>1, <1>5 DEF Settle, HookInv, PendingCounts
<1>7. QED
  BY <1>2, <1>3, <1>6 DEF HookInv

LEMMA HookInvNext ==
  ASSUME StrictMode = FALSE
  PROVE  HookInv /\ [HookNext]_hookVars => HookInv'
<1> SUFFICES ASSUME HookInv, [HookNext]_hookVars PROVE HookInv'
  OBVIOUS
<1>1. CASE Mount \/ Unmount \/ UNCHANGED hookVars
  <2>1. RunningCalls' = RunningCalls /\ inFlightRef' = inFlightRef
    BY <1>1 DEF Mount, Unmount, hookVars, RunningCalls
  <2>2. CounterIsExact'
    BY <2>1 DEF HookInv, CounterIsExact
  <2>3. HookTypes'
    BY <1>1, HookAssumption DEF HookInv, HookTypes, Mount, Unmount, hookVars
  <2>4. PendingCounts'
    <3>1. CASE Mount
      <4>1. mountedRef' /\ component = "new" /\ component' = "mounted" /\ isPending' = isPending
        BY <3>1 DEF Mount
      <4>2. QED
        BY <2>1, <4>1 DEF HookInv, PendingCounts
    <3>2. CASE Unmount
      BY <3>2 DEF Unmount, PendingCounts
    <3>3. CASE UNCHANGED hookVars
      BY <2>1, <3>3 DEF HookInv, PendingCounts, hookVars
    <3>4. QED
      BY <1>1, <3>1, <3>2, <3>3
  <2>5. QED
    BY <2>2, <2>3, <2>4 DEF HookInv
<1>2. ASSUME NEW c \in MutateCall, Mutate(c) \/ Resolves(c) \/ Rejects(c) PROVE HookInv'
  BY <1>2, MutateInv, SettleInv DEF Resolves, Rejects
<1>3. QED
  BY <1>1, <1>2 DEF HookNext

(* Outside StrictMode, a mounted component renders a pending state exactly *)
(* while a call of its own is under way, however many calls overlap.       *)
THEOREM PendingIsExact == ASSUME StrictMode = FALSE PROVE HookSpec => []PendingIsTrue
<1>1. HookInv => PendingIsTrue
  BY DEF HookInv, PendingCounts, RunningCalls, PendingIsTrue
<1>2. HookInv /\ [HookNext]_hookVars => HookInv'
  BY HookInvNext
<1>3. QED
  BY HookInvInit, <1>1, <1>2, PTL DEF HookSpec

=============================================================================
