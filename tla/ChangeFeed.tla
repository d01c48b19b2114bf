----------------------------- MODULE ChangeFeed -----------------------------
(***************************************************************************)
(* GET /v1/since: the change feed a client follows with a cursor, while the *)
(* compactor raises log_seq_start, retirement deletes old log objects and   *)
(* `baerly admin restore --force` starts a new generation of the            *)
(* collection.                                                              *)
(*                                                                         *)
(* A commit and a fold are one step each (CommitLog has their steps).  A    *)
(* poll is one step per storage call, as is a restore.                      *)
(***************************************************************************)
EXTENDS Integers, Sequences, FiniteSets, FiniteSetsExt

CONSTANTS
  Follower,     \* clients of the feed
  FeedSlots,    \* bound: log slots 0 .. FeedSlots - 1
  FeedWindow,   \* LOG_RETENTION_SEQ_WINDOW
  MaxEvents,    \* DEFAULT_MAX_EVENTS
  MaxRestores,  \* bound: restores
  MaxAborts     \* bound: polls each client abandons

VARIABLES
  feedLog,    \* slot -> the log object there, or Gone
  manifest,   \* current.json: [gen, start, hint, floor]
  landed,     \* history: the entries committed, [gen, seq, real]
  condemned,  \* slots a retirement pass is authorized to delete and has not
  restorer,   \* local state of the restore command
  follower    \* local state of every client and of the poll that serves it

feedVars == <<feedLog, manifest, landed, condemned, restorer, follower>>

(* A poll that crossed a retirement must not reach past the retained       *)
(* window: LOG_RETENTION_SEQ_WINDOW and DEFAULT_MAX_EVENTS are both 1024.  *)
(* The window is not empty: were it, a second restore could find no log    *)
(* object, restart at slot 0 and lose a row to a DELETE still under way.   *)
ASSUME FeedAssumption ==
  /\ FeedSlots \in Nat \ {0} /\ MaxRestores \in Nat /\ MaxAborts \in Nat
  /\ FeedWindow \in Nat \ {0} /\ MaxEvents \in 1 .. (FeedWindow + 1)

Slot == 0 .. FeedSlots - 1
Gone == [gen |-> 0, seq |-> 0, real |-> FALSE]
EntryAt(g, s) == [gen |-> g, seq |-> s, real |-> TRUE]

(* A create at a certified-deleted slot, which its writer will not ack.    *)
Phantom(g, s) == [gen |-> g, seq |-> s, real |-> FALSE]

Present(s) == s \in Slot /\ feedLog[s] # Gone

(* Cursors: <<>> is the empty one, <<generation, seq>> the composite.      *)
NoCursor == <<>>

NoManifest == [gen |-> 0, start |-> 0, hint |-> 0, floor |-> 0]
IdleRestore == [pc |-> "idle", head |-> NoManifest, base |-> 0, count |-> 0]
IdlePoll(c, n) == [pc |-> "idle", cursor |-> c, aborts |-> n, man |-> NoManifest,
                   pos |-> 0, end |-> 0, events |-> <<>>, fast |-> TRUE]

FeedInit ==
  /\ feedLog = [s \in Slot |-> Gone]
  /\ manifest = [gen |-> 1, start |-> 0, hint |-> 0, floor |-> 0]
  /\ landed = {}
  /\ condemned = {}
  /\ restorer = IdleRestore
  /\ follower = [f \in Follower |-> [poll |-> IdlePoll(NoCursor, 0), origin |-> 0, got |-> <<>>]]

-----------------------------------------------------------------------------
(* The collection under the feed.                                          *)

(* The first free slot at or after the probe's starting point.             *)
TrueTail ==
  LET from == Max({manifest.start, manifest.hint})
  IN Min({s \in from .. FeedSlots : ~Present(s)})

(* A writer outside a restore: restore assumes it has the collection to    *)
(* itself, so no commit runs beside one.                                   *)
FeedCommit ==
  /\ restorer.pc = "idle"
  /\ TrueTail \in Slot
  /\ feedLog' = [feedLog EXCEPT ![TrueTail] = EntryAt(manifest.gen, TrueTail)]
  /\ landed' = landed \cup {EntryAt(manifest.gen, TrueTail)}
  /\ UNCHANGED <<manifest, condemned, restorer, follower>>

(* A stale writer re-creates a slot retirement deleted; its floor check    *)
(* fails the call and the clean-up of the object may fail too.             *)
FeedPhantom ==
  /\ restorer.pc = "idle"
  /\ \E s \in Slot : /\ s < manifest.floor /\ ~Present(s)
                     /\ feedLog' = [feedLog EXCEPT ![s] = Phantom(manifest.gen, s)]
  /\ UNCHANGED <<manifest, landed, condemned, restorer, follower>>

(* The compactor folds a prefix of the live log into the snapshot.         *)
FeedFold ==
  /\ \E to \in (manifest.start + 1) .. TrueTail :
       manifest' = [manifest EXCEPT !.start = to, !.hint = Max({@, to})]
  /\ UNCHANGED <<feedLog, landed, condemned, restorer, follower>>

(* retireLogRange: the CAS that certifies the range, then its DELETEs, in  *)
(* any order; a crash forgets the ones not yet done.                       *)
FeedCertify ==
  LET start == Min({manifest.floor, manifest.start})
      end == manifest.start - FeedWindow
  IN /\ start < end
     /\ manifest' = [manifest EXCEPT !.floor = end]
     /\ condemned' = condemned \cup start .. (end - 1)
     /\ UNCHANGED <<feedLog, landed, restorer, follower>>

FeedDelete ==
  /\ \E s \in condemned : /\ feedLog' = [feedLog EXCEPT ![s] = Gone]
                          /\ condemned' = condemned \ {s}
  /\ UNCHANGED <<manifest, landed, restorer, follower>>

FeedRetireCrash ==
  /\ condemned # {} /\ condemned' = {}
  /\ UNCHANGED <<feedLog, manifest, landed, restorer, follower>>

-----------------------------------------------------------------------------
(* baerly admin restore --force.                                           *)

RestoreRead ==
  /\ restorer.pc = "idle" /\ manifest.gen <= MaxRestores
  /\ restorer' = [restorer EXCEPT !.pc = "list", !.head = manifest, !.base = 0, !.count = 0]
  /\ UNCHANGED <<feedLog, manifest, landed, condemned, follower>>

(* tailFromListedLogKeys: one past the highest listed log key.             *)
tailFromListedLogKeys_Floor == restorer.head.start
tailFromListedLogKeys ==
  LET listed == {s \in Slot : Present(s)} IN IF listed = {} THEN 0 ELSE Max(listed) + 1

RestoreList ==
  /\ restorer.pc = "list"
  /\ restorer' = [restorer EXCEPT !.pc = "seed", !.base = tailFromListedLogKeys]
  /\ UNCHANGED <<feedLog, manifest, landed, condemned, follower>>

(* The reseed under If-Match; it may lower log_seq_start, it drops the     *)
(* delete floor and mints a generation.  A lost CAS ends the command.      *)
RestoreSeed ==
  /\ restorer.pc = "seed"
  /\ IF manifest = restorer.head
     THEN /\ manifest' = [gen |-> manifest.gen + 1, start |-> restorer.base,
                          hint |-> restorer.base, floor |-> 0]
          /\ restorer' = [restorer EXCEPT !.pc = "load", !.head = NoManifest]
     ELSE restorer' = IdleRestore /\ UNCHANGED manifest
  /\ UNCHANGED <<feedLog, landed, condemned, follower>>

(* One row: an ordinary commit.                                            *)
RestoreRow ==
  /\ restorer.pc = "load"
  /\ TrueTail \in Slot
  /\ feedLog' = [feedLog EXCEPT ![TrueTail] = EntryAt(manifest.gen, TrueTail)]
  /\ landed' = landed \cup {EntryAt(manifest.gen, TrueTail)}
  /\ restorer' = [restorer EXCEPT !.count = @ + 1]
  /\ UNCHANGED <<manifest, condemned, follower>>

(* End of input: the tail_hint stamp, clamped.  A malformed line or a lost *)
(* connection ends the command earlier and leaves the rows (RestoreCrash). *)
RestoreStamp ==
  /\ restorer.pc = "load"
  /\ restorer' = IdleRestore
  /\ manifest' = IF restorer.count = 0 THEN manifest
                 ELSE [manifest EXCEPT !.hint = Max({restorer.base + restorer.count, @, manifest.start})]
  /\ UNCHANGED <<feedLog, landed, condemned, follower>>

RestoreCrash ==
  /\ restorer.pc # "idle" /\ restorer' = IdleRestore
  /\ UNCHANGED <<feedLog, manifest, landed, condemned, follower>>

-----------------------------------------------------------------------------
(* longPollSince over pollOnce, one step per storage call.                 *)

Poll(f) == follower[f].poll
SetPoll(f, p) == follower' = [follower EXCEPT ![f].poll = p]
KeepLog == UNCHANGED <<feedLog, manifest, landed, condemned, restorer>>

(* pollOnce reads current.json; the probe starts at the higher of its      *)
(* floor and its hint.                                                     *)
PollRead(f) ==
  /\ Poll(f).pc \in {"idle", "wait"}
  /\ SetPoll(f, [Poll(f) EXCEPT !.pc = "probe", !.man = manifest, !.events = <<>>,
                                !.fast = (Poll(f).pc = "idle"),
                                !.pos = Max({manifest.start, manifest.hint})])
  /\ KeepLog

(* probeLogTail: one GET per slot up to the first miss.                    *)
PollProbe_Hint(f) ==
  /\ Poll(f).pc = "probe"
  /\ SetPoll(f, [Poll(f) EXCEPT !.pc = "screen"])
  /\ KeepLog

PollProbe(f) ==
  /\ Poll(f).pc = "probe"
  /\ SetPoll(f, IF Present(Poll(f).pos)
                THEN [Poll(f) EXCEPT !.pos = @ + 1]
                ELSE [Poll(f) EXCEPT !.pc = "screen"])
  /\ KeepLog

(* A cursor of another generation, or below the floor, is refused.         *)
Refused_AnyGeneration(cursor, man) == cursor # NoCursor /\ cursor[2] < man.start
Refused(cursor, man) ==
  cursor # NoCursor /\ (cursor[1] # man.gen \/ cursor[2] < man.start)

StartSeq(cursor, man) == IF cursor = NoCursor THEN man.start ELSE cursor[2] + 1

EndSeq(tail, start) == Min({tail, start + MaxEvents})

(* A refusal reaches the client as SchemaError; it starts over with the    *)
(* empty cursor, after the fresh read that the error text asks for.        *)
PollScreen(f) ==
  LET p == Poll(f)
      start == StartSeq(p.cursor, p.man)
  IN /\ p.pc = "screen"
     /\ IF Refused(p.cursor, p.man)
        THEN follower' = [follower EXCEPT ![f] =
               [poll |-> IdlePoll(NoCursor, p.aborts), origin |-> 0, got |-> <<>>]]
        ELSE follower' = [follower EXCEPT
               ![f].poll = [p EXCEPT !.pc = "get", !.pos = start, !.end = EndSeq(p.pos, start)],
               ![f].origin = IF p.cursor = NoCursor THEN start ELSE @]
     /\ KeepLog

(* getLogEntry: a missing entry is skipped.                                *)
PollGet(f) ==
  LET p == Poll(f) IN
  /\ p.pc = "get" /\ p.pos < p.end
  /\ SetPoll(f, [p EXCEPT !.pos = @ + 1,
                          !.events = IF Present(p.pos) THEN Append(@, feedLog[p.pos]) ELSE @])
  /\ KeepLog

(* The answer carries the events and the cursor of the last one, under the *)
(* generation the poll read.                                               *)
PollAnswer(f) ==
  LET p == Poll(f) IN
  /\ p.pc = "get" /\ p.pos >= p.end /\ p.events # <<>>
  /\ follower' = [follower EXCEPT
       ![f].poll = IdlePoll(<<p.man.gen, p.events[Len(p.events)].seq>>, p.aborts),
       ![f].got = @ \o p.events]
  /\ KeepLog

(* Nothing yet: wait for the next tick, or past the deadline answer with   *)
(* the cursor unchanged.  The first poll always waits for one tick.        *)
PollEmpty(f) ==
  LET p == Poll(f) IN
  /\ p.pc = "get" /\ p.pos >= p.end /\ p.events = <<>>
  /\ \/ SetPoll(f, [IdlePoll(p.cursor, p.aborts) EXCEPT !.pc = "wait"])
     \/ ~p.fast /\ SetPoll(f, IdlePoll(p.cursor, p.aborts))
  /\ KeepLog

(* The client goes away, or the answer is lost: its cursor stays.          *)
PollAbort(f) ==
  LET p == Poll(f) IN
  /\ p.pc # "idle" /\ p.aborts < MaxAborts
  /\ SetPoll(f, IdlePoll(p.cursor, p.aborts + 1))
  /\ KeepLog

PollStep(f) == \/ PollRead(f) \/ PollProbe(f) \/ PollScreen(f) \/ PollGet(f)
               \/ PollAnswer(f) \/ PollEmpty(f)

FeedNext ==
  \/ FeedCommit \/ FeedPhantom \/ FeedFold
  \/ FeedCertify \/ FeedDelete \/ FeedRetireCrash
  \/ RestoreRead \/ RestoreList \/ RestoreSeed \/ RestoreRow \/ RestoreStamp \/ RestoreCrash
  \/ \E f \in Follower : PollStep(f) \/ PollAbort(f)

(* Only the feed is fair: a client keeps polling, storage calls return and *)
(* a restore finishes or fails.                                            *)
FeedFairness ==
  /\ \A f \in Follower : WF_feedVars(PollStep(f))
  /\ WF_feedVars(RestoreCrash)

FeedSpec == FeedInit /\ [][FeedNext]_feedVars /\ FeedFairness

-----------------------------------------------------------------------------
(* A cursor the server accepts (since.ts) stands for a complete history:   *)
(* from the slot the client started at up to the cursor, it was sent every *)
(* entry committed in that generation, once, in order, and nothing else -  *)
(* although a poll silently skips an entry retirement deleted under it, a  *)
(* stale writer may have refilled a slot it reads, and a restore reuses    *)
(* slot numbers.                                                           *)
AcceptedCursorIsComplete ==
  \A f \in Follower :
    LET p == Poll(f)
        c == p.cursor
    IN p.pc = "get" /\ c # NoCursor =>
         follower[f].got = [i \in 1 .. (c[2] - follower[f].origin + 1) |->
                              EntryAt(c[1], follower[f].origin + i - 1)]

(* At and above log_seq_start the log holds exactly the rows committed in  *)
(* the current generation: no entry of a truncated generation comes back   *)
(* as a live row, and no DELETE of a retirement pass that was under way    *)
(* removes a row the restore wrote (restore.ts picks slots above every log *)
(* object that is left, and assumes that no writer runs beside it).        *)
LiveLogIsExact ==
  \A s \in manifest.start .. FeedSlots - 1 :
    /\ Present(s) => feedLog[s] = EntryAt(manifest.gen, s)
    /\ EntryAt(manifest.gen, s) \in landed => Present(s)

(* What is committed reaches every client that keeps polling, unless it is *)
(* folded or truncated first: the poll probes past a stale tail_hint       *)
(* (since.ts, pollOnce).                                                   *)
FeedDelivers ==
  \A f \in Follower, g \in 1 .. MaxRestores + 1, s \in Slot :
    EntryAt(g, s) \in landed
      ~> \/ \E i \in 1 .. Len(follower[f].got) : follower[f].got[i] = EntryAt(g, s)
         \/ manifest.gen # g \/ manifest.start > s
=============================================================================
