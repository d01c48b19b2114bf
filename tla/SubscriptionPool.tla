-------------------------- MODULE SubscriptionPool --------------------------
(***************************************************************************)
(* The client's live queries: hooks mount and unmount queries, a pool       *)
(* shares one cache entry per query signature and one /v1/since loop per    *)
(* table, and refetches a query when the loop reports events.  Every await  *)
(* is a step boundary: requests and loops that have been aborted finish     *)
(* late.                                                                    *)
(*                                                                         *)
(* The server is external: per table it has the number of commits and how   *)
(* many of them a fold has moved out of the log; a read returns those       *)
(* numbers, a poll answers as pollOnce does (ChangeFeed).                   *)
(***************************************************************************)
EXTENDS Integers, FiniteSets, FiniteSetsExt

CONSTANTS
  Hook,        \* mounted useQuery instances
  Sig,         \* query signatures
  Table,       \* collections
  ChainTables, \* signature -> the tables a live query subscribes to
  MaxCommits,  \* bound: commits per table
  MaxReads,    \* bound: signature -> its reads under way at once
  MaxLoops,    \* bound: loops of one table that have not returned
  MaxAttempt   \* bound: the retry counter saturates here

VARIABLES
  tableVer,   \* table -> commits so far
  tableFloor, \* table -> commits folded out of the log
  mounted,    \* hook -> the signature it is attached to, or Unmounted
  cache,      \* signature -> cache entry
  reads,      \* <<signature, k>> -> a fetcher call
  tablePolls, \* table -> the poll object
  loops,      \* <<table, k>> -> a running poll loop
  laps        \* history: table -> dead cursors since a cursor was last accepted

poolVars == <<tableVer, tableFloor, mounted, cache, reads, tablePolls, loops, laps>>

Unmounted == "unmounted"

ASSUME PoolAssumption ==
  /\ ChainTables \in [Sig -> SUBSET Table] /\ Unmounted \notin Sig /\ IsFiniteSet(Hook)
  /\ MaxCommits \in Nat /\ MaxReads \in [Sig -> Nat \ {0}] /\ MaxLoops \in Nat \ {0} /\ MaxAttempt \in Nat

EmptyCursor == 0      \* cursor n: the first n commits were reported

NoEntry == [on |-> FALSE, status |-> "loading", data |-> [t \in Table |-> 0],
            has |-> FALSE, inFlight |-> 0, parked |-> FALSE]
NoRead == [pc |-> "free", aborted |-> FALSE, data |-> [t \in Table |-> 0]]
NoPoll == [refcount |-> 0, loop |-> 0, cursor |-> EmptyCursor, terminal |-> FALSE,
           silent |-> FALSE]     \* silent: history, the loop ended without an error
NoLoop == [pc |-> "free", aborted |-> FALSE, req |-> EmptyCursor, answer |-> "none",
           next |-> EmptyCursor, attempt |-> 0, recovering |-> FALSE]

ReadId == UNION {{<<q, k>> : k \in 1 .. MaxReads[q]} : q \in Sig}

PoolInit ==
  /\ tableVer = [t \in Table |-> 0] /\ tableFloor = [t \in Table |-> 0]
  /\ mounted = [h \in Hook |-> Unmounted]
  /\ cache = [q \in Sig |-> NoEntry]
  /\ reads = [f \in ReadId |-> NoRead]
  /\ tablePolls = [t \in Table |-> NoPoll]
  /\ loops = [l \in Table \X (1 .. MaxLoops) |-> NoLoop]
  /\ laps = [t \in Table |-> 0]

Subs(q) == {h \in Hook : mounted[h] = q}

(* invalidateForTable: the queries of the table that somebody watches.     *)
Visible_Idle(t) == {q \in Sig : t \in ChainTables[q] /\ Subs(q) # {} /\ cache[q].inFlight = 0}
Visible(t) == {q \in Sig : t \in ChainTables[q] /\ Subs(q) # {}}

-----------------------------------------------------------------------------
(* dispatchFetch, for a set of signatures at once.                         *)

FreeRead(q) == {k \in 1 .. MaxReads[q] : reads[<<q, k>>].pc = "free"}

CanDispatch(qs) == \A q \in qs : FreeRead(q) # {}

terminalErrorFor(q, ps) == \E t \in ChainTables[q] : ps[t].terminal

(* With a dead poll behind it the entry only shows the poll's error;       *)
(* otherwise the read under way is superseded by a new one.                *)
FetchedEntry(q, c, ps) ==
  IF terminalErrorFor(q, ps)
  THEN [c EXCEPT !.status = "error", !.parked = TRUE]
  ELSE [c EXCEPT !.inFlight = Min(FreeRead(q)), !.parked = FALSE,
                 !.status = IF c.has THEN "refreshing" ELSE "loading"]

DispatchCache(qs, cs, ps) ==
  [q \in Sig |-> IF q \in qs /\ cs[q].on THEN FetchedEntry(q, cs[q], ps) ELSE cs[q]]

(* A superseded read is aborted, which does not stop it from finishing.    *)
DispatchReads(qs, cs, ps) ==
  [f \in DOMAIN reads |->
     IF f[1] \in qs /\ cs[f[1]].on /\ ~terminalErrorFor(f[1], ps)
     THEN IF f[2] = Min(FreeRead(f[1])) THEN [NoRead EXCEPT !.pc = "out"]
          ELSE IF f[2] = cs[f[1]].inFlight THEN [reads[f] EXCEPT !.aborted = TRUE]
          ELSE reads[f]
     ELSE reads[f]]

(* A read arrives: an aborted or superseded one is dropped.                *)
Current_Any(q, k) == cache[q].on
Current(q, k) == ~reads[<<q, k>>].aborted /\ cache[q].on /\ cache[q].inFlight = k

FetchArrives(q, k) ==
  LET r == reads[<<q, k>>] IN
  /\ r.pc = "read"
  /\ reads' = [reads EXCEPT ![<<q, k>>] = NoRead]
  /\ cache' = IF ~Current(q, k) THEN cache
              ELSE [cache EXCEPT ![q].status = "ok", ![q].data = r.data,
                                 ![q].has = TRUE, ![q].inFlight = 0]
  /\ UNCHANGED <<tableVer, tableFloor, mounted, tablePolls, loops, laps>>

(* The read fails; what was shown before stays.                            *)
FetchFails(q, k) ==
  /\ reads[<<q, k>>].pc = "out"
  /\ reads' = [reads EXCEPT ![<<q, k>>] = NoRead]
  /\ cache' = IF Current(q, k) THEN [cache EXCEPT ![q].status = "error", ![q].inFlight = 0]
              ELSE cache
  /\ UNCHANGED <<tableVer, tableFloor, mounted, tablePolls, loops, laps>>

-----------------------------------------------------------------------------
(* Table polls.                                                            *)

FreeLoop(t) == {k \in 1 .. MaxLoops : loops[<<t, k>>].pc = "free"}

(* startTablePoll: a poll object with the empty cursor, and its loop, whose *)
(* first request goes out at once.                                         *)
Started(t, refcount) ==
  [NoPoll EXCEPT !.refcount = refcount, !.loop = Min(FreeLoop(t))]
StartedLoop(t) == [NoLoop EXCEPT !.pc = "out"]

StartLoops(ts, ls) ==
  [l \in DOMAIN ls |-> IF l[1] \in ts /\ l[2] = Min(FreeLoop(l[1]))
                       THEN StartedLoop(l[1]) ELSE ls[l]]

(* attach: the first subscriber of a signature creates its entry and       *)
(* fetches; each table's poll is started or its count raised.              *)
Attach(h, q) ==
  LET ts == ChainTables[q]
      fresh == {t \in ts : tablePolls[t].refcount = 0}
      polls == [t \in Table |-> IF t \in fresh THEN Started(t, 1)
                                ELSE IF t \in ts THEN [tablePolls[t] EXCEPT !.refcount = @ + 1]
                                ELSE tablePolls[t]]
      entered == IF cache[q].on THEN cache ELSE [cache EXCEPT ![q] = [NoEntry EXCEPT !.on = TRUE]]
      first == IF cache[q].on THEN {} ELSE {q}
  IN /\ mounted[h] = Unmounted
     /\ \A t \in fresh : FreeLoop(t) # {}
     /\ CanDispatch(first)
     /\ mounted' = [mounted EXCEPT ![h] = q]
     /\ tablePolls' = polls
     /\ loops' = StartLoops(fresh, loops)
     /\ cache' = DispatchCache(first, entered, polls)
     /\ reads' = DispatchReads(first, entered, polls)
     /\ laps' = [t \in Table |-> IF t \in fresh THEN 0 ELSE laps[t]]
     /\ UNCHANGED <<tableVer, tableFloor>>

(* The unsubscribe closure: the last subscriber drops the entry and aborts *)
(* its read; each table's poll stops when nobody is left.                  *)
stopTablePoll_Leak(t) ==
  IF tablePolls[t].refcount = 1 /\ ~tablePolls[t].terminal THEN NoPoll
  ELSE [tablePolls[t] EXCEPT !.refcount = @ - 1]
stopTablePoll(t) ==
  IF tablePolls[t].refcount = 1 THEN NoPoll
  ELSE [tablePolls[t] EXCEPT !.refcount = @ - 1]

Detach(h) ==
  LET q == mounted[h]
      last == Subs(q) = {h}
      stopped == {t \in ChainTables[q] : tablePolls[t].refcount = 1}
  IN /\ q # Unmounted
     /\ mounted' = [mounted EXCEPT ![h] = Unmounted]
     /\ cache' = IF last THEN [cache EXCEPT ![q] = NoEntry] ELSE cache
     /\ reads' = [f \in DOMAIN reads |->
                    IF last /\ f = <<q, cache[q].inFlight>>
                    THEN [reads[f] EXCEPT !.aborted = TRUE] ELSE reads[f]]
     /\ tablePolls' = [t \in Table |-> IF t \in ChainTables[q] THEN stopTablePoll(t)
                                       ELSE tablePolls[t]]
     /\ loops' = [l \in DOMAIN loops |->
                    IF l[1] \in stopped /\ l[2] = tablePolls[l[1]].loop
                    THEN [NoLoop EXCEPT !.pc = "out", !.aborted = TRUE] ELSE loops[l]]
     /\ UNCHANGED <<tableVer, tableFloor, laps>>

(* refetch: the terminal polls of the query's tables are restarted with    *)
(* their counts, the query is read again, and so are the other queries the *)
(* dead polls had parked.                                                  *)
Siblings_None(revived, q) == {}
Siblings(revived, q) == (UNION {Visible(t) : t \in revived}) \ {q}

Refetch(h) ==
  LET q == mounted[h]
      revived == {t \in ChainTables[q] : tablePolls[t].terminal}
      polls == [t \in Table |-> IF t \in revived THEN Started(t, tablePolls[t].refcount)
                                ELSE tablePolls[t]]
      qs == {q} \cup Siblings(revived, q)
  IN /\ q # Unmounted
     /\ \A t \in revived : FreeLoop(t) # {}
     /\ CanDispatch(qs)
     /\ tablePolls' = polls
     /\ loops' = StartLoops(revived, loops)
     /\ cache' = DispatchCache(qs, cache, polls)
     /\ reads' = DispatchReads(qs, cache, polls)
     /\ laps' = [t \in Table |-> IF t \in revived THEN 0 ELSE laps[t]]
     /\ UNCHANGED <<tableVer, tableFloor, mounted>>

-----------------------------------------------------------------------------
(* The poll loop: request, answer, and what the loop does when it resumes. *)

(* The server's answer to a cursor (external: since.ts, in ChangeFeed).    *)
SinceAnswer(t, c) ==
  IF c # EmptyCursor /\ c <= tableFloor[t] THEN "schema"
  ELSE IF tableVer[t] > Max({c, tableFloor[t]}) THEN "events" ELSE "empty"

PollAnswered(t, k) ==
  LET l == loops[<<t, k>>] IN
  /\ l.pc = "out" /\ ~l.aborted
  /\ loops' = [loops EXCEPT ![<<t, k>>] =
       [l EXCEPT !.pc = "answered", !.answer = SinceAnswer(t, l.req),
                 !.next = IF SinceAnswer(t, l.req) = "events" THEN tableVer[t] ELSE l.req]]
  /\ UNCHANGED <<tableVer, tableFloor, mounted, cache, reads, tablePolls, laps>>

(* An empty bootstrap that minted a cursor proves nothing yet.             *)
recoveryProven_Always(l) == TRUE
recoveryProven(l) == ~l.recovering \/ l.req # EmptyCursor \/ l.next = EmptyCursor

Saturate(n) == Min({n, MaxAttempt})

LoopSucceeds(t, k) ==
  LET l == loops[<<t, k>>]
      qs == IF l.answer = "events" THEN Visible(t) ELSE {}
      polls == [tablePolls EXCEPT ![t].cursor = l.next]
  IN /\ l.pc = "answered" /\ ~l.aborted /\ l.answer \in {"events", "empty"}
     /\ CanDispatch(qs)
     /\ tablePolls' = polls
     /\ cache' = DispatchCache(qs, cache, polls)
     /\ reads' = DispatchReads(qs, cache, polls)
     /\ loops' = [loops EXCEPT ![<<t, k>>] =
          [NoLoop EXCEPT !.pc = "out", !.req = l.next,
             !.attempt = IF recoveryProven(l) THEN 0 ELSE l.attempt,
             !.recovering = l.recovering /\ ~recoveryProven(l)]]
     /\ laps' = [laps EXCEPT ![t] = IF l.req # EmptyCursor \/ l.next = EmptyCursor THEN 0 ELSE @]
     /\ UNCHANGED <<tableVer, tableFloor, mounted>>

(* SchemaError on a cursor - the server's answer, or that of a server of   *)
(* another version that refuses a cursor its peer minted: start over from  *)
(* the empty one, refetch what is visible, and back off all the same.      *)
LoopRecovers(t, k) ==
  LET l == loops[<<t, k>>]
      qs == Visible(t)
      polls == [tablePolls EXCEPT ![t].cursor = EmptyCursor]
  IN /\ ~l.aborted
     /\ l.answer = "schema" \/ (l.pc = "out" /\ l.req # EmptyCursor)
     /\ CanDispatch(qs)
     /\ tablePolls' = polls
     /\ cache' = DispatchCache(qs, cache, polls)
     /\ reads' = DispatchReads(qs, cache, polls)
     /\ loops' = [loops EXCEPT ![<<t, k>>] =
          [NoLoop EXCEPT !.pc = "backoff", !.attempt = Saturate(l.attempt + 1), !.recovering = TRUE]]
     /\ laps' = [laps EXCEPT ![t] = Saturate(@ + 1)]
     /\ UNCHANGED <<tableVer, tableFloor, mounted>>

(* The request fails and may be retried.                                   *)
LoopRetries(t, k) ==
  LET l == loops[<<t, k>>] IN
  /\ l.pc = "out" /\ ~l.aborted
  /\ loops' = [loops EXCEPT ![<<t, k>>] =
       [NoLoop EXCEPT !.pc = "backoff", !.attempt = Saturate(l.attempt + 1),
                      !.recovering = l.recovering]]
  /\ UNCHANGED <<tableVer, tableFloor, mounted, cache, reads, tablePolls, laps>>

BackoffEnds(t, k) ==
  LET l == loops[<<t, k>>] IN
  /\ l.pc = "backoff" /\ ~l.aborted
  /\ loops' = [loops EXCEPT ![<<t, k>>].pc = "out", ![<<t, k>>].req = tablePolls[t].cursor]
  /\ UNCHANGED <<tableVer, tableFloor, mounted, cache, reads, tablePolls, laps>>

(* A permanent error: the loop ends and failForTable parks every visible   *)
(* query of the table on the error, its read aborted.                      *)
LoopDies(t, k) ==
  LET l == loops[<<t, k>>]
      qs == Visible(t)
  IN /\ l.pc = "out" /\ ~l.aborted
     /\ tablePolls' = [tablePolls EXCEPT ![t].terminal = TRUE, ![t].loop = 0]
     /\ loops' = [loops EXCEPT ![<<t, k>>] = NoLoop]
     /\ cache' = [q \in Sig |-> IF q \in qs
                                THEN [cache[q] EXCEPT !.status = "error", !.inFlight = 0, !.parked = TRUE]
                                ELSE cache[q]]
     /\ reads' = [f \in DOMAIN reads |->
                    IF f[1] \in qs /\ f[2] = cache[f[1]].inFlight
                    THEN [reads[f] EXCEPT !.aborted = TRUE] ELSE reads[f]]
     /\ UNCHANGED <<tableVer, tableFloor, mounted, laps>>

(* An aborted loop returns at its next resumption, whatever it was told.   *)
LoopReturns(t, k) ==
  /\ loops[<<t, k>>].aborted
  /\ loops' = [loops EXCEPT ![<<t, k>>] = NoLoop]
  /\ UNCHANGED <<tableVer, tableFloor, mounted, cache, reads, tablePolls, laps>>

(* The fetch rejects with an AbortError nobody here asked for (a pluggable *)
(* fetch with a timeout or a signal of its own): the loop ends all the     *)
(* same, but sets no terminalError and tells no query.                     *)
LoopGivesUp(t, k) ==
  LET l == loops[<<t, k>>] IN
  /\ l.pc = "out" /\ ~l.aborted
  /\ tablePolls' = [tablePolls EXCEPT ![t].silent = TRUE, ![t].loop = 0]
  /\ loops' = [loops EXCEPT ![<<t, k>>] = NoLoop]
  /\ UNCHANGED <<tableVer, tableFloor, mounted, cache, reads, laps>>

-----------------------------------------------------------------------------
(* The server behind the requests (external).                              *)

ServerCommit(t) ==
  /\ tableVer[t] < MaxCommits
  /\ tableVer' = [tableVer EXCEPT ![t] = @ + 1]
  /\ UNCHANGED <<tableFloor, mounted, cache, reads, tablePolls, loops, laps>>

ServerFold(t) ==
  /\ tableFloor[t] < tableVer[t]
  /\ tableFloor' = [tableFloor EXCEPT ![t] = tableVer[t]]
  /\ UNCHANGED <<tableVer, mounted, cache, reads, tablePolls, loops, laps>>

ServerRead(q, k) ==
  /\ reads[<<q, k>>].pc = "out"
  /\ reads' = [reads EXCEPT ![<<q, k>>].pc = "read", ![<<q, k>>].data = tableVer]
  /\ UNCHANGED <<tableVer, tableFloor, mounted, cache, tablePolls, loops, laps>>

PoolNext ==
  \/ \E h \in Hook : \/ \E q \in Sig : Attach(h, q)
                      \/ Detach(h) \/ Refetch(h)
  \/ \E f \in ReadId : ServerRead(f[1], f[2]) \/ FetchArrives(f[1], f[2]) \/ FetchFails(f[1], f[2])
  \/ \E t \in Table, k \in 1 .. MaxLoops :
       \/ PollAnswered(t, k) \/ LoopSucceeds(t, k) \/ LoopRecovers(t, k)
       \/ LoopRetries(t, k) \/ BackoffEnds(t, k) \/ LoopDies(t, k) \/ LoopReturns(t, k)
       \/ LoopGivesUp(t, k)
  \/ \E t \in Table : ServerCommit(t) \/ ServerFold(t)

PoolSpec == PoolInit /\ [][PoolNext]_poolVars

-----------------------------------------------------------------------------
(* One poll per table somebody watches and none for the others: the count  *)
(* is the number of mounted queries on the table, exactly one loop that is *)
(* not aborted serves it - the one in tablePolls - and a poll somebody     *)
(* watches is without a loop only after a permanent error, which a refetch *)
(* revives, or after an AbortError of the fetch itself, which nothing does *)
(* until the last watcher leaves (subscription-pool.ts attach,             *)
(* stopTablePoll, restartTerminalPoll).                                    *)
OnePollPerTable ==
  \A t \in Table :
    LET p == tablePolls[t]
        watchers == {h \in Hook : mounted[h] # Unmounted /\ t \in ChainTables[mounted[h]]}
        live == {k \in 1 .. MaxLoops : loops[<<t, k>>].pc # "free" /\ ~loops[<<t, k>>].aborted}
    IN /\ p.refcount = Cardinality(watchers)
       /\ live = IF p.loop = 0 THEN {} ELSE {p.loop}
       /\ (p.terminal \/ p.silent) = (watchers # {} /\ p.loop = 0)
       /\ ~(p.terminal /\ p.silent)

(* A query never shows older data than it showed before: a superseded or   *)
(* dropped read that finishes late changes nothing (dispatchFetch).        *)
DataNeverRegresses ==
  [][\A q \in Sig : cache[q].has /\ cache'[q].has =>
       \A t \in ChainTables[q] : cache[q].data[t] <= cache'[q].data[t]]_poolVars

(* What a table's loop has reported is on the screen: a query that says    *)
(* "ok" shows data at least as new as the cursor of each of its tables -   *)
(* the events restart the read that was under way when they arrived        *)
(* (invalidateForTable).                                                   *)
ReportedIsShown ==
  \A q \in Sig : cache[q].on /\ cache[q].status = "ok" =>
    \A t \in ChainTables[q] : tablePolls[t].cursor <= cache[q].data[t]

(* A query is parked on a poll's error only while a poll of one of its     *)
(* tables is dead: reviving the poll for one query refreshes the others it *)
(* had parked (refetch).                                                   *)
ParkedOnlyOnDeadPoll ==
  \A q \in Sig : cache[q].on /\ cache[q].parked => terminalErrorFor(q, tablePolls)

(* Recovering from dead cursors over and over backs off: as long as no     *)
(* cursor has been accepted, every lap raises the retry counter.           *)
RecoveryBacksOff ==
  \A t \in Table : tablePolls[t].loop # 0 =>
    laps[t] <= loops[<<t, tablePolls[t].loop>>].attempt

(* use-query.ts: the hook "re-runs the callback against the real client    *)
(* when any of them mutate".  When the poll is waiting, the server has     *)
(* nothing to report for its cursor and no read is under way, a query that *)
(* says "ok" shows every commit.                                           *)
LiveQueryIsFresh ==
  \A q \in Sig : cache[q].on /\ cache[q].status = "ok" =>
    \A t \in ChainTables[q] :
      tablePolls[t].loop # 0 =>
        LET l == loops[<<t, tablePolls[t].loop>>] IN
        l.pc = "out" /\ SinceAnswer(t, l.req) = "empty" => cache[q].data[t] = tableVer[t]
=============================================================================
