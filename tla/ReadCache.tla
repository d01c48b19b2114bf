------------------------------ MODULE ReadCache ------------------------------
(***************************************************************************)
(* The Cloudflare worker's read cache: withReadCache in front of            *)
(* GET /v1/c/:collection/:id and invalidateOnWrite behind every request.    *)
(*                                                                         *)
(* One document per tenant; a version stands for the row's body.  The       *)
(* Cache API (external) keeps one cache per colo and may drop an entry at   *)
(* any time; the store commits atomically (AtomicStore).                    *)
(***************************************************************************)
EXTENDS Naturals, FiniteSets

CONSTANTS
  Request,       \* HTTP requests
  Tenant,        \* tenant prefixes; all use the same document URL
  Colo,          \* data centres, each with its own cache
  Method,        \* methods the routes answer: a subset of AllMethods
  MaxVersions    \* bound: committed versions

VARIABLES
  row,       \* the committed version of every tenant's row; 0: no row
  version,   \* versions handed out
  entry,     \* the cached version under every cache key; 0: none
  request,   \* local state of every request
  tainted,   \* history: cache keys whose entry nothing will invalidate
  settled    \* history: the newest version of every tenant whose write was
             \* answered 2xx and whose background invalidation has run

cacheVars == <<row, version, entry, request, tainted, settled>>

AllMethods == {"GET", "PATCH", "PUT", "DELETE"}

ASSUME CacheAssumption == Method \subseteq AllMethods /\ MaxVersions \in Nat

CacheKey == Colo \X Tenant
SomeTenant == CHOOSE t \in Tenant : TRUE

(* The key carries the tenant of the verifier, as the query parameter __t, *)
(* for the read and for the invalidation alike.                            *)
cacheKeyFor_NoTenant(colo, tenant) == <<colo, SomeTenant>>
cacheKeyFor(colo, tenant) == <<colo, tenant>>

Unsent == [pc |-> "new", method |-> "GET", colo |-> CHOOSE c \in Colo : TRUE,
           tenant |-> SomeTenant, seen |-> 0, floor |-> 0]

CacheInit ==
  /\ row = [t \in Tenant |-> 0]
  /\ version = 0
  /\ entry = [k \in CacheKey |-> 0]
  /\ request = [r \in Request |-> Unsent]
  /\ tainted = {}
  /\ settled = [t \in Tenant |-> 0]

(* What is left of a request: what a GET saw, and the version it must see. *)
Answer(r, v) ==
  [request EXCEPT ![r] = [Unsent EXCEPT !.pc = "done", !.seen = v, !.floor = request[r].floor]]

(* POST /v1/c/:collection targets the list URL, which is not cached.       *)
InsertRow(t) ==
  /\ row[t] = 0 /\ version < MaxVersions
  /\ version' = version + 1
  /\ row' = [row EXCEPT ![t] = version']
  /\ tainted' = tainted \cup {k \in CacheKey : k[2] = t /\ entry[k] # 0}
  /\ settled' = [settled EXCEPT ![t] = version']
  /\ UNCHANGED <<entry, request>>

Arrive(r) ==
  /\ request[r].pc = "new"
  /\ \E m \in Method, c \in Colo, t \in Tenant :
       request' = [request EXCEPT ![r] = [Unsent EXCEPT
         !.pc = IF m = "GET" THEN "match" ELSE "write",
         !.method = m, !.colo = c, !.tenant = t,
         !.floor = IF m = "GET" THEN settled[t] ELSE 0]]
  /\ UNCHANGED <<row, version, entry, tainted, settled>>

KeyOf(r) == cacheKeyFor(request[r].colo, request[r].tenant)

(* A hit answers from the cache, a 304 included: the handler does not run. *)
CacheMatch(r) ==
  /\ request[r].pc = "match"
  /\ request' = IF entry[KeyOf(r)] # 0 THEN Answer(r, entry[KeyOf(r)])
                ELSE [request EXCEPT ![r].pc = "handler"]
  /\ UNCHANGED <<row, version, entry, tainted, settled>>

(* The handler reads the row; only a 200 is stored.                        *)
HandleGet(r) ==
  /\ request[r].pc = "handler"
  /\ LET v == row[request[r].tenant] IN
     request' = IF v = 0 THEN Answer(r, 0)
                ELSE [request EXCEPT ![r] = [@ EXCEPT !.pc = "fill", !.seen = v]]
  /\ UNCHANGED <<row, version, entry, tainted, settled>>

(* cache.put, awaited before the response is returned: a fill of a version *)
(* that a write has since replaced is stale from the start.                *)
CacheFill(r) ==
  /\ request[r].pc = "fill"
  /\ entry' = [entry EXCEPT ![KeyOf(r)] = request[r].seen]
  /\ tainted' = IF request[r].seen = row[request[r].tenant]
                THEN tainted \ {KeyOf(r)} ELSE tainted \cup {KeyOf(r)}
  /\ request' = Answer(r, request[r].seen)
  /\ UNCHANGED <<row, version, settled>>

(* The methods that bust the entry of the document they wrote; PUT, the    *)
(* replace route, is not among them.                                       *)
WRITE_METHODS == {"POST", "PATCH", "DELETE"}

(* The write of request r is committed.                                    *)
CommitRow(r) ==
  LET q == request[r] IN
  /\ row[q.tenant] # 0 /\ version < MaxVersions
  /\ version' = version + 1
  /\ row' = [row EXCEPT ![q.tenant] = IF q.method = "DELETE" THEN 0 ELSE version']

(* The entries of the request's tenant but for the given ones.             *)
Unreached(r, reached) ==
  {k \in CacheKey \ reached : k[2] = request[r].tenant /\ entry[k] # 0}

(* PATCH, PUT and DELETE of a row that exists commit and answer 2xx.  The  *)
(* entries of other colos are out of reach.                                *)
CommitWrite(r) ==
  LET reached == {KeyOf(r)} \cap {k \in CacheKey : request[r].method \in {"PATCH", "DELETE"}}
  IN /\ request[r].pc = "write"
     /\ CommitRow(r)
     /\ request' = [request EXCEPT ![r] = [@ EXCEPT !.pc = "invalidate", !.seen = version']]
     /\ tainted' = tainted \cup Unreached(r, reached)
     /\ UNCHANGED <<entry, settled>>

(* Any other answer invalidates nothing: 404 or 409, when nothing was      *)
(* committed, but also 409 AmbiguousCommit or a 5xx, when it may have been. *)
WriteRefused(r) ==
  /\ request[r].pc = "write"
  /\ request' = Answer(r, 0)
  /\ UNCHANGED <<row, version, entry, tainted, settled>>

WriteUncertain(r) ==
  /\ request[r].pc = "write"
  /\ CommitRow(r)
  /\ request' = Answer(r, 0)
  /\ tainted' = tainted \cup Unreached(r, {})
  /\ UNCHANGED <<entry, settled>>

(* The write of request r is through.                                      *)
WriteSettles(r) ==
  settled' = [settled EXCEPT ![request[r].tenant] =
                IF request[r].seen > @ THEN request[r].seen ELSE @]

(* ctx.waitUntil(invalidateOnWrite(...)): after the response, best effort. *)
Invalidate(r) ==
  /\ request[r].pc = "invalidate"
  /\ IF request[r].method \in WRITE_METHODS
     THEN entry' = [entry EXCEPT ![KeyOf(r)] = 0] /\ tainted' = tainted \ {KeyOf(r)}
     ELSE UNCHANGED <<entry, tainted>>
  /\ request' = Answer(r, 0)
  /\ WriteSettles(r)
  /\ UNCHANGED <<row, version>>

InvalidateFails(r) ==
  /\ request[r].pc = "invalidate"
  /\ tainted' = tainted \cup {k \in {KeyOf(r)} : entry[k] # 0}
  /\ request' = Answer(r, 0)
  /\ UNCHANGED <<row, version, entry, settled>>

(* The max-age passes, or the Cache API evicts the entry.                  *)
Evict(k) ==
  /\ entry[k] # 0
  /\ entry' = [entry EXCEPT ![k] = 0]
  /\ tainted' = tainted \ {k}
  /\ UNCHANGED <<row, version, request, settled>>

CacheNext ==
  \/ \E t \in Tenant : InsertRow(t)
  \/ \E k \in CacheKey : Evict(k)
  \/ \E r \in Request : \/ Arrive(r) \/ CacheMatch(r) \/ HandleGet(r) \/ CacheFill(r)
                        \/ CommitWrite(r) \/ WriteRefused(r) \/ WriteUncertain(r)
                        \/ Invalidate(r) \/ InvalidateFails(r)

CacheSpec == CacheInit /\ [][CacheNext]_cacheVars

-----------------------------------------------------------------------------
Invalidating(k) == \E r \in Request : /\ request[r].pc = "invalidate" /\ KeyOf(r) = k
                                      /\ request[r].method \in {"PATCH", "DELETE"}

(* A cached row is its tenant's committed row, or an invalidation is on    *)
(* its way, or one of the cases the cache leaves to expiry happened: a     *)
(* fill that raced a write, a failed invalidation, a committed write that  *)
(* was answered with an error, or one by PUT, by POST or in another colo   *)
(* (withReadCache, invalidateOnWrite, cacheKeyFor).                        *)
StaleEntryIsExplained ==
  \A k \in CacheKey : entry[k] # 0 =>
    entry[k] = row[k[2]] \/ Invalidating(k) \/ k \in tainted

(* Read-your-writes: a GET that answers with a row answers with one no     *)
(* older than the newest write that, when the GET arrived, had been        *)
(* answered with success and invalidated in the background.  The code does *)
(* not give this (WRITE_METHODS omits PUT).                                *)
GetSeesCompletedWrites ==
  \A r \in Request : request[r].pc = "done" /\ request[r].seen # 0
                        => request[r].seen >= request[r].floor
=============================================================================
