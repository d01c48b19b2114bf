---------------------------- MODULE Live_proofs -----------------------------
(***************************************************************************)
(* What a live client sees, for any number of clients, hooks and tables.   *)
(*                                                                         *)
(* The change feed (ChangeFeed), for any number of log slots, restores and *)
(* polls and any positive retention window: a cursor the server accepts    *)
(* stands for a complete history, and the live log holds exactly the rows  *)
(* of the current generation.                                              *)
(*                                                                         *)
(* The subscription pool (SubscriptionPool), for any queries and bounds:   *)
(* one poll per watched table, nothing older than what was shown or        *)
(* reported, nothing parked on a poll that lives again.                    *)
(***************************************************************************)
EXTENDS ChangeFeed, SubscriptionPool, FiniteSetTheorems, SequenceTheorems, WellFoundedInduction, TLAPS

Objects == [gen : Nat, seq : Nat, real : BOOLEAN]

Manifests == [gen : Nat, start : Nat, hint : Nat, floor : Nat]

Restorers ==
  [pc : {"idle", "list", "seed", "load"}, head : Manifests, base : Nat, count : Nat]

Polls ==
  [pc : {"idle", "wait", "probe", "screen", "get"}, cursor : {NoCursor} \cup (Nat \X Nat),
   aborts : Nat, man : Manifests, pos : Nat, end : Nat, events : Seq(Objects), fast : BOOLEAN]

Followers == [poll : Polls, origin : Nat, got : Seq(Objects)]

FeedTypes ==
  /\ feedLog \in [Slot -> Objects]
  /\ \A s \in Slot : feedLog[s] # Gone => feedLog[s].seq = s
  /\ manifest \in Manifests /\ manifest.gen >= 1
  /\ manifest.start <= FeedSlots /\ manifest.hint <= FeedSlots
  /\ landed \in SUBSET Objects
  /\ condemned \in SUBSET Nat
  /\ restorer \in Restorers
  /\ follower \in [Follower -> Followers]

(* Certification and its DELETEs stay the window below log_seq_start; the  *)
(* slot under log_seq_start is still there, which is what keeps a restore  *)
(* from reusing the slots that a retirement pass is about to delete.       *)
RetirementIsBelow ==
  /\ manifest.floor = 0 \/ manifest.floor + FeedWindow <= manifest.start
  /\ \A s \in condemned : s + FeedWindow < manifest.start
  /\ manifest.start > 0 => Present(manifest.start - 1)

(* LiveLogIsExact, with what its steps need: tail_hint is no higher than   *)
(* the first free slot, and no entry is of a generation to come.           *)
LiveLog ==
  /\ \A s \in Slot : manifest.start <= s =>
       /\ s < manifest.hint => Present(s)
       /\ Present(s) => feedLog[s] = EntryAt(manifest.gen, s)
       /\ EntryAt(manifest.gen, s) \in landed => Present(s)
  /\ \A e \in landed : e.gen <= manifest.gen

(* A restore starts above every log object, and has filled the slots it    *)
(* counts.                                                                 *)
RestoreIsAbove ==
  /\ restorer.pc \in {"list", "seed"} => restorer.count = 0
  /\ restorer.pc = "seed" =>
       /\ restorer.base <= FeedSlots /\ manifest.start <= restorer.base
       /\ restorer.base > 0 => Present(restorer.base - 1)
       /\ \A s \in Slot : restorer.base <= s => ~Present(s)
  /\ restorer.pc = "load" =>
       /\ restorer.base + restorer.count <= FeedSlots
       /\ \A s \in Slot : manifest.start <= s /\ s < restorer.base + restorer.count => Present(s)

-----------------------------------------------------------------------------
(* What the state x of a client, and of the poll that serves it, says of   *)
(* the log.                                                                *)

Reading == {"probe", "screen", "get"}

(* The slot up to which the poll knows the log.                            *)
Reach(p) == IF p.pc = "get" THEN p.end ELSE p.pos

(* In the generation it read, from its log_seq_start to where it has       *)
(* probed, the log is complete except where retirement has been since.     *)
PollKnows(p) ==
  p.pc \in Reading =>
    /\ p.man.gen <= manifest.gen /\ p.man.start <= manifest.start
    /\ p.man.gen = manifest.gen =>
         /\ \A s \in condemned : s < p.man.start \/ s < manifest.floor
         /\ \A s \in Slot : p.man.start <= s /\ manifest.floor <= s =>
              /\ Present(s) => feedLog[s] = EntryAt(manifest.gen, s)
              /\ s < Reach(p) => Present(s)

(* From its first slot to the cursor, the client was sent every entry.     *)
Complete(x) ==
  /\ Len(x.got) = x.poll.cursor[2] - x.origin + 1
  /\ \A i \in 1..Len(x.got) : x.got[i] = EntryAt(x.poll.cursor[1], x.origin + i - 1)

(* A cursor that the server would accept, or has accepted, is complete.    *)
CursorKnows(x) ==
  LET p == x.poll
      c == p.cursor
  IN /\ c = NoCursor => x.got = <<>>
     /\ c # NoCursor =>
          /\ c[1] <= manifest.gen
          /\ p.pc \in Reading => c[1] <= p.man.gen
          /\ p.pc \in {"idle", "wait"} /\ c[1] = manifest.gen /\ manifest.start <= c[2] => Complete(x)
          /\ p.pc \in {"probe", "screen"} /\ c[1] = p.man.gen /\ p.man.start <= c[2] => Complete(x)
          /\ p.pc = "get" => Complete(x) /\ c[1] = p.man.gen /\ p.man.start <= c[2]
     /\ c = NoCursor /\ p.pc = "get" => x.origin = p.man.start

(* The events read so far are all of them, unless retirement has reached   *)
(* the poll's first slot; and then log_seq_start is above its last.        *)
EventsAreDense(p) ==
  /\ p.pc \in {"probe", "screen"} => p.events = <<>> /\ p.pos <= FeedSlots
  /\ p.pc = "get" =>
       /\ StartSeq(p.cursor, p.man) <= p.pos
       /\ p.end <= StartSeq(p.cursor, p.man) + MaxEvents /\ p.end <= FeedSlots
       /\ \A i \in 1..Len(p.events) : p.events[i].seq < p.end
       /\ p.man.gen = manifest.gen /\ manifest.floor <= StartSeq(p.cursor, p.man) =>
            /\ Len(p.events) = p.pos - StartSeq(p.cursor, p.man)
            /\ \A i \in 1..Len(p.events) :
                 p.events[i] = EntryAt(p.man.gen, StartSeq(p.cursor, p.man) + i - 1)

FollowerOk(x) == PollKnows(x.poll) /\ CursorKnows(x) /\ EventsAreDense(x.poll)

FeedInv ==
  /\ FeedTypes /\ RetirementIsBelow /\ LiveLog /\ RestoreIsAbove
  /\ \A f \in Follower : \A x \in {follower[f]} : FollowerOk(x)

-----------------------------------------------------------------------------
(* Least and greatest elements.                                            *)

LEMMA HasLeast == ASSUME NEW S \in SUBSET Nat, S # {} PROVE \E n \in S : \A m \in S : n <= m
<1> DEFINE R == OpToRel(<, Nat)
<1>1. IsWellFoundedOn(R, Nat)
  BY NatLessThanWellFounded
<1>2. \A x, y \in Nat : x < y => <<x, y>> \in R
  BY DEF OpToRel
<1> HIDE DEF R
<1>3. PICK n \in S : \A m \in S : ~(<<m, n>> \in R)
  BY <1>1, WFMin
<1>4. ASSUME NEW m \in S PROVE n <= m
  <2>1. m \in Nat /\ n \in Nat
    OBVIOUS
  <2>2. ~(m < n)
    BY <1>2, <1>3, <2>1
  <2>3. QED
    BY <2>1, <2>2
<1>5. QED
  BY <1>4

LEMMA MinIsLeast ==
  ASSUME NEW S \in SUBSET Nat, S # {}
  PROVE  Min(S) \in S /\ \A m \in S : Min(S) <= m
BY HasLeast DEF Min

LEMMA MaxIsGreatest ==
  ASSUME NEW b \in Nat, NEW S \in SUBSET (0 .. b), S # {}
  PROVE  Max(S) \in S /\ \A m \in S : m <= Max(S)
<1> DEFINE T == {b - m : m \in S}
<1>1. T \in SUBSET Nat /\ T # {}
  <2>1. \A m \in S : b - m \in Nat
    OBVIOUS
  <2>2. QED
    BY <2>1
<1>2. PICK t \in T : \A m \in T : t <= m
  BY <1>1, HasLeast
<1>3. PICK x \in S : t = b - x
  BY <1>2
<1>4. ASSUME NEW m \in S PROVE x >= m
  <2>1. b - m \in T
    OBVIOUS
  <2>2. b - x <= b - m
    BY <1>2, <1>3, <2>1
  <2>3. QED
    BY <2>2
<1>5. Max(S) \in S /\ \A m \in S : Max(S) >= m
  BY <1>4 DEF Max
<1>6. QED
  BY <1>5

LEMMA MaxOfTwo == ASSUME NEW m \in Nat, NEW n \in Nat PROVE Max({m, n}) = IF m < n THEN n ELSE m
BY DEF Max

LEMMA MinOfTwo == ASSUME NEW m \in Nat, NEW n \in Nat PROVE Min({m, n}) = IF m < n THEN m ELSE n
BY DEF Min

LEMMA MaxOfThree ==
  ASSUME NEW m \in Nat, NEW n \in Nat, NEW k \in Nat
  PROVE  /\ Max({m, n, k}) \in {m, n, k}
         /\ m <= Max({m, n, k}) /\ n <= Max({m, n, k}) /\ k <= Max({m, n, k})
<1>1. \E x \in {m, n, k} : \A y \in {m, n, k} : x >= y
  OBVIOUS
<1>2. QED
  BY <1>1 DEF Max

-----------------------------------------------------------------------------
(* The log.                                                                *)

LEMMA SlotFacts ==
  /\ FeedSlots \in Nat /\ FeedSlots > 0 /\ FeedWindow \in Nat /\ FeedWindow >= 1
  /\ MaxEvents \in Nat /\ MaxEvents <= FeedWindow + 1
  /\ Slot \subseteq Nat /\ FeedSlots \notin Slot
  /\ \A s \in Nat : s \in Slot <=> s < FeedSlots
BY FeedAssumption DEF Slot

LEMMA ObjectFacts ==
  ASSUME NEW g \in Nat, g >= 1, NEW s \in Nat
  PROVE  /\ EntryAt(g, s) \in Objects /\ EntryAt(g, s) # Gone /\ EntryAt(g, s).seq = s
         /\ Phantom(g, s) \in Objects /\ Phantom(g, s) # Gone /\ Phantom(g, s).seq = s
         /\ EntryAt(g, s).gen = g
BY DEF EntryAt, Phantom, Gone, Objects

LEMMA ManifestFacts ==
  ASSUME FeedTypes
  PROVE  /\ manifest.gen \in Nat /\ manifest.gen >= 1 /\ manifest.start \in Nat
         /\ manifest.hint \in Nat /\ manifest.floor \in Nat
         /\ manifest.start <= FeedSlots /\ manifest.hint <= FeedSlots
BY DEF FeedTypes, Manifests

(* The tail is free, and the live log is complete below it.                *)
LEMMA TailFacts ==
  ASSUME FeedTypes, LiveLog
  PROVE  /\ TrueTail \in Nat /\ manifest.start <= TrueTail /\ TrueTail <= FeedSlots
         /\ ~Present(TrueTail)
         /\ \A s \in Slot : manifest.start <= s /\ s < TrueTail => Present(s)
<1> DEFINE from == Max({manifest.start, manifest.hint})
           free == {s \in from .. FeedSlots : ~Present(s)}
<1>1. /\ from \in Nat /\ from <= FeedSlots /\ manifest.start <= from
      /\ \A s \in Slot : manifest.start <= s /\ s < from => s < manifest.hint
  BY ManifestFacts, SlotFacts, MaxOfTwo
<1>2. TrueTail = Min(free)
  BY DEF TrueTail
<1> HIDE DEF from
<1>3. FeedSlots \in free /\ free \in SUBSET Nat
  BY <1>1, SlotFacts DEF Present
<1>4. Min(free) \in free /\ \A m \in free : Min(free) <= m
  BY <1>3, MinIsLeast
<1>5. TrueTail \in from .. FeedSlots /\ ~Present(TrueTail) /\ \A m \in free : TrueTail <= m
  BY <1>2, <1>4
<1>6. ASSUME NEW s \in Slot, manifest.start <= s, s < TrueTail PROVE Present(s)
  <2>1. CASE s < from
    BY <1>1, <1>6, <2>1 DEF LiveLog
  <2>2. CASE ~(s < from)
    <3>1. s \in from .. FeedSlots /\ ~(TrueTail <= s)
      BY <1>1, <1>5, <1>6, <2>2, SlotFacts
    <3>2. QED
      BY <1>5, <3>1
  <2>3. QED
    BY <2>1, <2>2
<1>7. QED
  BY <1>1, <1>5, <1>6, ManifestFacts, SlotFacts

(* A step of the log: no client moves, generations and log_seq_start only  *)
(* rise, and only retirement touches what a poll may have read.            *)
LEMMA LogMoves ==
  ASSUME FeedInv, UNCHANGED follower, FeedTypes', RetirementIsBelow', LiveLog', RestoreIsAbove',
         manifest.gen <= manifest'.gen, manifest.start <= manifest'.start,
         manifest'.gen = manifest.gen =>
           /\ manifest.floor <= manifest'.floor
           /\ \A s \in condemned' : s \in condemned \/ s < manifest'.floor
           /\ \A s \in Slot : manifest'.floor <= s /\ s \notin condemned =>
                feedLog'[s] = feedLog[s] \/ feedLog'[s] = EntryAt(manifest.gen, s)
  PROVE  FeedInv'
<1>1. FeedTypes
  BY DEF FeedInv
<1>2. /\ manifest.gen \in Nat /\ manifest.gen >= 1 /\ manifest.start \in Nat /\ manifest.floor \in Nat
      /\ manifest'.gen \in Nat /\ manifest'.start \in Nat /\ manifest'.floor \in Nat
  BY <1>1 DEF FeedTypes, Manifests
<1>3. ASSUME NEW f \in Follower, NEW x \in {follower'[f]} PROVE FollowerOk(x)'
  <2>1. x \in Followers /\ FollowerOk(x)
    BY <1>1, <1>3 DEF FeedInv, FeedTypes
  <2>2. PICK p \in Polls : p = x.poll
    BY <2>1 DEF Followers
  <2>3. p.man \in Manifests /\ p.man.gen \in Nat /\ p.man.start \in Nat
    BY DEF Polls, Manifests
  <2>4. PollKnows(p)'
    <3> SUFFICES ASSUME p.pc \in Reading
                 PROVE  /\ p.man.gen <= manifest'.gen /\ p.man.start <= manifest'.start
                        /\ p.man.gen = manifest'.gen =>
                             /\ \A s \in condemned' : s < p.man.start \/ s < manifest'.floor
                             /\ \A s \in Slot : p.man.start <= s /\ manifest'.floor <= s =>
                                  /\ Present(s)' => feedLog'[s] = EntryAt(manifest'.gen, s)
                                  /\ s < Reach(p) => Present(s)'
      BY DEF PollKnows, Reach
    <3>1. p.man.gen <= manifest.gen /\ p.man.start <= manifest.start
      BY <2>1, <2>2 DEF FollowerOk, PollKnows
    <3>2. p.man.gen <= manifest'.gen /\ p.man.start <= manifest'.start
      BY <1>2, <2>3, <3>1
    <3>3. ASSUME p.man.gen = manifest'.gen
          PROVE  /\ \A s \in condemned' : s < p.man.start \/ s < manifest'.floor
                 /\ \A s \in Slot : p.man.start <= s /\ manifest'.floor <= s =>
                                  /\ Present(s)' => feedLog'[s] = EntryAt(manifest'.gen, s)
                                  /\ s < Reach(p) => Present(s)'
      <4>1. manifest'.gen = manifest.gen /\ p.man.gen = manifest.gen
        BY <1>2, <2>3, <3>1, <3>3
      <4>2. /\ \A s \in condemned : s < p.man.start \/ s < manifest.floor
            /\ \A s \in Slot : p.man.start <= s /\ manifest.floor <= s =>
                 /\ Present(s) => feedLog[s] = EntryAt(manifest.gen, s)
                 /\ s < Reach(p) => Present(s)
        BY <2>1, <2>2, <4>1 DEF FollowerOk, PollKnows
      <4>3. \A s \in condemned : s \in Nat
        BY <1>1 DEF FeedTypes
      <4>4. \A s \in condemned : s < p.man.start \/ s < manifest'.floor
        BY <1>2, <4>1, <4>2, <4>3
      <4>5. \A s \in condemned' : s < p.man.start \/ s < manifest'.floor
        BY <4>1, <4>4
      <4>6. ASSUME NEW s \in Slot, p.man.start <= s, manifest'.floor <= s
            PROVE  /\ Present(s)' => feedLog'[s] = EntryAt(manifest'.gen, s)
                   /\ s < Reach(p) => Present(s)'
        <5>1. s \in Nat /\ manifest.floor <= s /\ s \notin condemned
          BY <1>2, <2>3, <4>1, <4>4, <4>6, SlotFacts
        <5>2. feedLog'[s] = feedLog[s] \/ feedLog'[s] = EntryAt(manifest.gen, s)
          BY <4>1, <4>6, <5>1
        <5>3. EntryAt(manifest.gen, s) # Gone
          BY <1>2, <5>1, ObjectFacts
        <5>4. QED
          BY <4>1, <4>2, <4>6, <5>1, <5>2, <5>3 DEF Present
      <4>7. QED
        BY <4>5, <4>6
    <3>4. QED
      BY <3>2, <3>3
  <2>5. CursorKnows(x)'
    <3>1. p.cursor # NoCursor => p.cursor[1] \in Nat /\ p.cursor[2] \in Nat
      BY DEF Polls
    <3>2. p.cursor # NoCursor => p.cursor[1] <= manifest.gen
      BY <2>1, <2>2 DEF FollowerOk, CursorKnows
    <3>3. p.cursor # NoCursor =>
            /\ p.cursor[1] <= manifest'.gen
            /\ p.cursor[1] = manifest'.gen /\ manifest'.start <= p.cursor[2] =>
                 p.cursor[1] = manifest.gen /\ manifest.start <= p.cursor[2]
      BY <1>2, <3>1, <3>2
    <3>4. QED
      BY <2>1, <2>2, <3>3 DEF FollowerOk, CursorKnows, Complete
  <2>6. EventsAreDense(p)'
    <3>1. p.pc = "get" => p.man.gen <= manifest.gen
      BY <2>1, <2>2 DEF FollowerOk, PollKnows, Reading
    <3>2. p.pc = "get" => StartSeq(p.cursor, p.man) \in Nat
      BY <2>3 DEF StartSeq, Polls
    <3>3. p.pc = "get" /\ p.man.gen = manifest'.gen /\ manifest'.floor <= StartSeq(p.cursor, p.man)
            => p.man.gen = manifest.gen /\ manifest.floor <= StartSeq(p.cursor, p.man)
      BY <1>2, <2>3, <3>1, <3>2
    <3>4. QED
      BY <2>1, <2>2, <3>3 DEF FollowerOk, EventsAreDense, StartSeq, EntryAt
  <2>7. QED
    BY <2>2, <2>4, <2>5, <2>6 DEF FollowerOk
<1>4. QED
  BY <1>3 DEF FeedInv

(* The log stands still and one client moves.                              *)
LEMMA PollMoves ==
  ASSUME FeedInv, NEW f \in Follower, NEW x \in Followers,
         follower' = [follower EXCEPT ![f] = x], KeepLog, FollowerOk(x)
  PROVE  FeedInv'
<1>1. FeedTypes /\ RetirementIsBelow /\ LiveLog /\ RestoreIsAbove
      /\ UNCHANGED <<feedLog, manifest, landed, condemned, restorer>>
  BY DEF FeedInv, KeepLog
<1>2. follower' \in [Follower -> Followers] /\ follower'[f] = x
      /\ \A g \in Follower : g # f => follower'[g] = follower[g]
  BY <1>1 DEF FeedTypes
<1>3. \A s : Present(s)' <=> Present(s)
  BY <1>1 DEF Present
<1>4. FeedTypes'
  BY <1>1, <1>2 DEF FeedTypes
<1>5. RetirementIsBelow' /\ LiveLog' /\ RestoreIsAbove'
  BY <1>1 DEF RetirementIsBelow, LiveLog, RestoreIsAbove, Present
<1>6. ASSUME NEW g \in Follower, NEW y \in {follower'[g]} PROVE FollowerOk(y)'
  <2>1. FollowerOk(y)
    BY <1>2, <1>6 DEF FeedInv
  <2>2. PollKnows(y.poll)'
    BY <1>1, <1>3, <2>1 DEF FollowerOk, PollKnows
  <2>3. CursorKnows(y)'
    BY <1>1, <2>1 DEF FollowerOk, CursorKnows
  <2>4. EventsAreDense(y.poll)'
    BY <1>1, <2>1 DEF FollowerOk, EventsAreDense
  <2>5. QED
    BY <2>2, <2>3, <2>4 DEF FollowerOk
<1>7. QED
  BY <1>4, <1>5, <1>6 DEF FeedInv

-----------------------------------------------------------------------------
(* The steps of the log.                                                   *)

LEMMA IdleFacts ==
  ASSUME NEW c \in {NoCursor} \cup (Nat \X Nat), NEW n \in Nat
  PROVE  /\ IdlePoll(c, n) \in Polls /\ IdlePoll(c, n).pc = "idle" /\ IdlePoll(c, n).cursor = c
         /\ NoManifest \in Manifests
         /\ IdleRestore \in Restorers /\ IdleRestore.pc = "idle"
<1>1. NoManifest \in Manifests
  BY DEF NoManifest, Manifests
<1>2. QED
  BY <1>1 DEF IdlePoll, IdleRestore, Polls, Restorers

LEMMA FeedInvInit == FeedInit => FeedInv
<1> SUFFICES ASSUME FeedInit PROVE FeedInv
  OBVIOUS
<1>0. Gone \in Objects /\ NoCursor \in {NoCursor} \cup (Nat \X Nat)
  BY DEF Gone, Objects
<1>1. IdlePoll(NoCursor, 0) \in Polls /\ IdlePoll(NoCursor, 0).pc = "idle"
      /\ IdlePoll(NoCursor, 0).cursor = NoCursor /\ IdleRestore \in Restorers
      /\ IdleRestore.pc = "idle"
  BY <1>0, IdleFacts
<1>2. \A s : ~Present(s)
  BY DEF FeedInit, Present
<1>3. FeedTypes
  <2>1. \A f \in Follower : follower[f] \in Followers
    BY <1>1 DEF FeedInit, Followers
  <2>2. QED
    BY <1>0, <1>1, <2>1, SlotFacts DEF FeedInit, FeedTypes, Manifests
<1>4. RetirementIsBelow /\ LiveLog /\ RestoreIsAbove
  BY <1>1, <1>2, SlotFacts DEF FeedInit, RetirementIsBelow, LiveLog, RestoreIsAbove
<1>5. ASSUME NEW f \in Follower, NEW x \in {follower[f]} PROVE FollowerOk(x)
  <2>1. x.poll = IdlePoll(NoCursor, 0) /\ x.got = <<>>
    BY DEF FeedInit
  <2>2. QED
    BY <1>1, <2>1 DEF FollowerOk, PollKnows, CursorKnows, EventsAreDense, Reading
<1>6. QED
  BY <1>3, <1>4, <1>5 DEF FeedInv

(* A row lands at the tail.                                                *)
LEMMA RowLands ==
  ASSUME FeedInv, TrueTail \in Slot,
         feedLog' = [feedLog EXCEPT ![TrueTail] = EntryAt(manifest.gen, TrueTail)],
         landed' = landed \cup {EntryAt(manifest.gen, TrueTail)},
         UNCHANGED <<manifest, condemned, follower>>, restorer' \in Restorers, RestoreIsAbove'
  PROVE  FeedInv'
<1>1. FeedTypes /\ RetirementIsBelow /\ LiveLog
  BY DEF FeedInv
<1>2. PICK t \in Slot : t = TrueTail
  OBVIOUS
<1>3. /\ manifest.gen \in Nat /\ manifest.gen >= 1 /\ manifest.start \in Nat /\ manifest.floor \in Nat
      /\ t \in Nat
  BY <1>1, ManifestFacts, SlotFacts
<1>4. /\ EntryAt(manifest.gen, t) \in Objects /\ EntryAt(manifest.gen, t) # Gone
      /\ EntryAt(manifest.gen, t).seq = t /\ EntryAt(manifest.gen, t).gen = manifest.gen
  BY <1>3, ObjectFacts
<1>5. feedLog'[t] = EntryAt(manifest.gen, t) /\ \A s \in Slot : s # t => feedLog'[s] = feedLog[s]
  BY <1>1, <1>2 DEF FeedTypes
<1>6. /\ \A s \in Slot : Present(s)' <=> s = t \/ Present(s)
      /\ \A s : Present(s) => Present(s)'
  BY <1>4, <1>5 DEF Present
<1>7. FeedTypes'
  BY <1>1, <1>2, <1>4, <1>5 DEF FeedTypes
<1>8. RetirementIsBelow'
  BY <1>1, <1>6 DEF RetirementIsBelow
<1>9. LiveLog'
  <2>1. ASSUME NEW s \in Slot, manifest.start <= s, EntryAt(manifest.gen, s) \in landed'
        PROVE  Present(s)'
    <3>1. CASE EntryAt(manifest.gen, s) \in landed
      BY <1>1, <1>6, <2>1, <3>1 DEF LiveLog
    <3>2. CASE EntryAt(manifest.gen, s) = EntryAt(manifest.gen, t)
      <4>1. s = t
        BY <1>3, <3>2, ObjectFacts, SlotFacts
      <4>2. QED
        BY <1>6, <4>1
    <3>3. QED
      BY <1>2, <2>1, <3>1, <3>2
  <2>2. \A e \in landed' : e.gen <= manifest.gen
    BY <1>1, <1>2, <1>3, <1>4 DEF LiveLog
  <2>3. \A s \in Slot : manifest.start <= s =>
          /\ s < manifest.hint => Present(s)'
          /\ Present(s)' => feedLog'[s] = EntryAt(manifest.gen, s)
    BY <1>1, <1>5, <1>6 DEF LiveLog
  <2>4. QED
    BY <2>1, <2>2, <2>3 DEF LiveLog, EntryAt
<1>10. \A s \in Slot : feedLog'[s] = feedLog[s] \/ feedLog'[s] = EntryAt(manifest.gen, s)
  BY <1>5
<1>11. QED
  BY <1>1, <1>3, <1>7, <1>8, <1>9, <1>10, LogMoves

LEMMA FeedCommitInv == ASSUME FeedInv, FeedCommit PROVE FeedInv'
<1>1. restorer \in Restorers /\ restorer.pc = "idle" /\ UNCHANGED restorer
  BY DEF FeedInv, FeedTypes, FeedCommit
<1>2. RestoreIsAbove'
  BY <1>1 DEF RestoreIsAbove
<1>3. QED
  BY <1>1, <1>2, RowLands DEF FeedCommit

LEMMA FeedPhantomInv == ASSUME FeedInv, FeedPhantom PROVE FeedInv'
<1>1. PICK s \in Slot : /\ s < manifest.floor /\ ~Present(s)
                        /\ feedLog' = [feedLog EXCEPT ![s] = Phantom(manifest.gen, s)]
  BY DEF FeedPhantom
<1>2. /\ FeedTypes /\ RetirementIsBelow /\ LiveLog /\ restorer.pc = "idle"
      /\ UNCHANGED <<manifest, landed, condemned, restorer, follower>>
  BY DEF FeedInv, FeedPhantom
<1>3. /\ manifest.gen \in Nat /\ manifest.gen >= 1 /\ manifest.start \in Nat /\ manifest.floor \in Nat
      /\ s \in Nat
  BY <1>2, ManifestFacts, SlotFacts
<1>4. /\ Phantom(manifest.gen, s) \in Objects /\ Phantom(manifest.gen, s) # Gone
      /\ Phantom(manifest.gen, s).seq = s
  BY <1>3, ObjectFacts
<1>5. feedLog'[s] = Phantom(manifest.gen, s) /\ \A r \in Slot : r # s => feedLog'[r] = feedLog[r]
  BY <1>1, <1>2 DEF FeedTypes
<1>6. /\ \A r \in Slot : r # s => (Present(r)' <=> Present(r))
      /\ \A r : Present(r) => Present(r)'
  BY <1>4, <1>5 DEF Present
<1>7. s < manifest.start
  BY <1>1, <1>2, <1>3, SlotFacts DEF RetirementIsBelow
<1>8. FeedTypes'
  BY <1>1, <1>2, <1>4, <1>5 DEF FeedTypes
<1>9. RetirementIsBelow'
  BY <1>2, <1>6 DEF RetirementIsBelow
<1>10. LiveLog'
  <2>1. \A r \in Slot : manifest.start <= r => r # s
    BY <1>3, <1>7, SlotFacts
  <2>2. QED
    BY <1>2, <1>5, <1>6, <2>1 DEF LiveLog
<1>11. RestoreIsAbove'
  BY <1>2 DEF RestoreIsAbove
<1>12. \A r \in Slot : manifest.floor <= r => feedLog'[r] = feedLog[r]
  BY <1>1, <1>3, <1>5, SlotFacts
<1>13. QED
  BY <1>2, <1>3, <1>8, <1>9, <1>10, <1>11, <1>12, LogMoves

LEMMA FeedDeleteInv == ASSUME FeedInv, FeedDelete PROVE FeedInv'
<1>1. PICK s \in condemned : /\ feedLog' = [feedLog EXCEPT ![s] = Gone]
                             /\ condemned' = condemned \ {s}
  BY DEF FeedDelete
<1>2. /\ FeedTypes /\ RetirementIsBelow /\ LiveLog /\ RestoreIsAbove /\ restorer \in Restorers
      /\ UNCHANGED <<manifest, landed, restorer, follower>>
  BY DEF FeedInv, FeedDelete, FeedTypes
<1>3. /\ manifest.gen \in Nat /\ manifest.start \in Nat /\ manifest.floor \in Nat
      /\ s \in Nat /\ s < manifest.start - 1 /\ s \in Slot
  BY <1>2, ManifestFacts, SlotFacts DEF RetirementIsBelow, FeedTypes
<1>4. feedLog'[s] = Gone /\ \A r \in Slot : r # s => feedLog'[r] = feedLog[r]
  BY <1>1, <1>2, <1>3 DEF FeedTypes
<1>5. /\ \A r : r # s => (Present(r)' <=> Present(r))
      /\ \A r : Present(r)' => Present(r)
  BY <1>4 DEF Present
<1>6. FeedTypes'
  <2>1. Gone \in Objects
    BY DEF Gone, Objects
  <2>2. QED
    BY <1>1, <1>2, <1>3, <1>4, <2>1 DEF FeedTypes
<1>7. RetirementIsBelow'
  BY <1>1, <1>2, <1>3, <1>5 DEF RetirementIsBelow
<1>8. \A r \in Slot : manifest.start <= r => r # s
  BY <1>3, SlotFacts
<1>9. LiveLog'
  BY <1>2, <1>4, <1>5, <1>8 DEF LiveLog
<1>10. RestoreIsAbove'
  <2>1. restorer.base \in Nat
    BY <1>2 DEF Restorers
  <2>2. restorer.pc = "seed" => restorer.base - 1 # s
    BY <1>2, <1>3, <2>1 DEF RestoreIsAbove
  <2>3. QED
    BY <1>2, <1>5, <1>8, <2>2 DEF RestoreIsAbove
<1>11. \A r \in Slot : r \notin condemned => feedLog'[r] = feedLog[r]
  BY <1>4
<1>12. QED
  BY <1>1, <1>2, <1>3, <1>6, <1>7, <1>9, <1>10, <1>11, LogMoves

LEMMA FeedRetireCrashInv == ASSUME FeedInv, FeedRetireCrash PROVE FeedInv'
<1>1. /\ FeedTypes /\ RetirementIsBelow /\ LiveLog /\ RestoreIsAbove
      /\ UNCHANGED <<feedLog, manifest, landed, restorer, follower>> /\ condemned' = {}
  BY DEF FeedInv, FeedRetireCrash
<1>2. manifest.gen \in Nat /\ manifest.start \in Nat /\ manifest.floor \in Nat
  BY <1>1, ManifestFacts
<1>3. \A r : Present(r)' <=> Present(r)
  BY <1>1 DEF Present
<1>4. FeedTypes'
  BY <1>1 DEF FeedTypes
<1>5. RetirementIsBelow' /\ LiveLog' /\ RestoreIsAbove'
  BY <1>1, <1>3 DEF RetirementIsBelow, LiveLog, RestoreIsAbove
<1>6. QED
  BY <1>1, <1>2, <1>4, <1>5, LogMoves

(* A step that moves the manifest only.                                    *)
LEMMA FeedFoldInv == ASSUME FeedInv, FeedFold PROVE FeedInv'
<1>1. PICK to \in (manifest.start + 1) .. TrueTail :
        manifest' = [manifest EXCEPT !.start = to, !.hint = Max({@, to})]
  BY DEF FeedFold
<1>2. /\ FeedTypes /\ RetirementIsBelow /\ LiveLog /\ RestoreIsAbove /\ restorer \in Restorers
      /\ UNCHANGED <<feedLog, landed, condemned, restorer, follower>>
  BY DEF FeedInv, FeedFold, FeedTypes
<1>3. /\ manifest.gen \in Nat /\ manifest.start \in Nat /\ manifest.floor \in Nat
      /\ manifest.hint \in Nat /\ manifest.hint <= FeedSlots /\ manifest.gen >= 1
      /\ manifest.start <= FeedSlots
  BY <1>2, ManifestFacts
<1>4. /\ TrueTail \in Nat /\ TrueTail <= FeedSlots /\ ~Present(TrueTail)
      /\ manifest.start <= TrueTail
      /\ \A s \in Slot : manifest.start <= s /\ s < TrueTail => Present(s)
  BY <1>2, TailFacts
<1>5. to \in Nat /\ manifest.start < to /\ to <= TrueTail /\ to <= FeedSlots
  BY <1>1, <1>3, <1>4, SlotFacts
<1> DEFINE hint == Max({manifest.hint, to})
<1>6. hint \in Nat /\ hint <= FeedSlots /\ \A s \in Nat : to <= s /\ s < hint => s < manifest.hint
  BY <1>3, <1>5, MaxOfTwo, SlotFacts
<1> HIDE DEF hint
<1>7. /\ manifest' \in Manifests /\ manifest'.gen = manifest.gen /\ manifest'.start = to
      /\ manifest'.hint = hint /\ manifest'.floor = manifest.floor
  BY <1>1, <1>2, <1>5, <1>6 DEF FeedTypes, Manifests, hint
<1>8. \A r : Present(r)' <=> Present(r)
  BY <1>2 DEF Present
<1>9. FeedTypes'
  BY <1>2, <1>3, <1>5, <1>6, <1>7 DEF FeedTypes
<1>10. RetirementIsBelow'
  <2>1. to - 1 \in Slot /\ manifest.start <= to - 1 /\ to - 1 < TrueTail
    BY <1>3, <1>4, <1>5, SlotFacts
  <2>2. Present(to - 1)
    BY <1>4, <2>1
  <2>3. \A s \in condemned : s \in Nat /\ s + FeedWindow < to
    BY <1>2, <1>3, <1>5, SlotFacts DEF RetirementIsBelow, FeedTypes
  <2>4. manifest.floor = 0 \/ manifest.floor + FeedWindow <= to
    BY <1>2, <1>3, <1>5, SlotFacts DEF RetirementIsBelow
  <2>5. QED
    BY <1>2, <1>7, <1>8, <2>2, <2>3, <2>4 DEF RetirementIsBelow
<1>11. \A s \in Slot : s \in Nat /\ (to <= s => manifest.start <= s)
  BY <1>3, <1>5, SlotFacts
<1>12. LiveLog'
  BY <1>2, <1>6, <1>7, <1>8, <1>11 DEF LiveLog
<1>13. RestoreIsAbove'
  <2>1. restorer.base \in Nat /\ restorer.count \in Nat
    BY <1>2 DEF Restorers
  <2>2. restorer.pc = "seed" => to <= restorer.base
    <3> SUFFICES ASSUME restorer.pc = "seed", ~(to <= restorer.base) PROVE FALSE
      OBVIOUS
    <3>1. /\ manifest.start <= restorer.base
          /\ \A s \in Slot : restorer.base <= s => ~Present(s)
      BY <1>2 DEF RestoreIsAbove
    <3>2. restorer.base \in Slot /\ restorer.base < TrueTail
      BY <1>4, <1>5, <2>1, SlotFacts
    <3>3. QED
      BY <1>4, <2>1, <3>1, <3>2
  <2>3. QED
    BY <1>2, <1>7, <1>8, <1>11, <2>2 DEF RestoreIsAbove
<1>14. manifest.start <= to /\ manifest.floor <= manifest.floor /\ manifest.gen <= manifest.gen
  BY <1>3, <1>5
<1>15. QED
  BY <1>2, <1>7, <1>9, <1>10, <1>12, <1>13, <1>14, LogMoves

LEMMA FeedCertifyInv == ASSUME FeedInv, FeedCertify PROVE FeedInv'
<1> DEFINE start == Min({manifest.floor, manifest.start})
           end == manifest.start - FeedWindow
<1>1. /\ start < end /\ manifest' = [manifest EXCEPT !.floor = end]
      /\ condemned' = condemned \cup start .. (end - 1)
  BY DEF FeedCertify
<1>2. /\ FeedTypes /\ RetirementIsBelow /\ LiveLog /\ RestoreIsAbove
      /\ UNCHANGED <<feedLog, landed, restorer, follower>> /\ condemned \in SUBSET Nat
  BY DEF FeedInv, FeedCertify, FeedTypes
<1>3. /\ manifest.gen \in Nat /\ manifest.start \in Nat /\ manifest.floor \in Nat
      /\ manifest.hint \in Nat /\ manifest.hint <= FeedSlots /\ manifest.gen >= 1
      /\ manifest.start <= FeedSlots
  BY <1>2, ManifestFacts
<1>4. manifest.floor <= manifest.start
  BY <1>2, <1>3, SlotFacts DEF RetirementIsBelow
<1>5. start = manifest.floor
  BY <1>3, <1>4, MinOfTwo
<1>6. end \in Nat /\ manifest.floor < end /\ end + FeedWindow = manifest.start
  BY <1>1, <1>3, <1>5, SlotFacts
<1> HIDE DEF start, end
<1>7. /\ manifest' \in Manifests /\ manifest'.gen = manifest.gen /\ manifest'.start = manifest.start
      /\ manifest'.hint = manifest.hint /\ manifest'.floor = end
  BY <1>1, <1>2, <1>6 DEF FeedTypes, Manifests
<1>8. \A s \in condemned' : s \in Nat /\ (s \in condemned \/ s < end)
  BY <1>1, <1>2, <1>3, <1>5, <1>6
<1>9. \A r : Present(r)' <=> Present(r)
  BY <1>2 DEF Present
<1>10. FeedTypes'
  BY <1>2, <1>3, <1>7, <1>8 DEF FeedTypes
<1>11. RetirementIsBelow'
  <2>1. \A s \in condemned' : s + FeedWindow < manifest.start
    BY <1>2, <1>3, <1>6, <1>8, SlotFacts DEF RetirementIsBelow
  <2>2. QED
    BY <1>2, <1>3, <1>6, <1>7, <1>9, <2>1, SlotFacts DEF RetirementIsBelow
<1>12. LiveLog' /\ RestoreIsAbove'
  BY <1>2, <1>7, <1>9 DEF LiveLog, RestoreIsAbove
<1>13. manifest.start <= manifest'.start /\ manifest.floor <= manifest'.floor
  BY <1>3, <1>6, <1>7
<1>14. QED
  BY <1>2, <1>3, <1>7, <1>8, <1>10, <1>11, <1>12, <1>13, LogMoves

(* The restore command moves, and nothing else does.                       *)
LEMMA RestorerMoves ==
  ASSUME FeedInv, UNCHANGED <<feedLog, manifest, landed, condemned, follower>>,
         restorer' \in Restorers, RestoreIsAbove'
  PROVE  FeedInv'
<1>1. FeedTypes /\ RetirementIsBelow /\ LiveLog
  BY DEF FeedInv
<1>2. manifest.gen \in Nat /\ manifest.start \in Nat /\ manifest.floor \in Nat
  BY <1>1, ManifestFacts
<1>3. \A r : Present(r)' <=> Present(r)
  BY DEF Present
<1>4. FeedTypes'
  BY <1>1 DEF FeedTypes
<1>5. RetirementIsBelow' /\ LiveLog'
  BY <1>1, <1>3 DEF RetirementIsBelow, LiveLog
<1>6. QED
  BY <1>2, <1>4, <1>5, LogMoves

LEMMA RestoreReadInv == ASSUME FeedInv, RestoreRead PROVE FeedInv'
<1>1. restorer \in Restorers /\ manifest \in Manifests
  BY DEF FeedInv, FeedTypes
<1>2. restorer' \in Restorers /\ restorer'.pc = "list" /\ restorer'.count = 0
  BY <1>1 DEF RestoreRead, Restorers
<1>3. RestoreIsAbove'
  BY <1>2 DEF RestoreIsAbove
<1>4. QED
  BY <1>2, <1>3, RestorerMoves DEF RestoreRead

LEMMA RestoreListInv == ASSUME FeedInv, RestoreList PROVE FeedInv'
<1> DEFINE listed == {s \in Slot : Present(s)}
           base == tailFromListedLogKeys
<1>1. /\ FeedTypes /\ RetirementIsBelow /\ RestoreIsAbove /\ restorer \in Restorers
      /\ restorer.pc = "list" /\ UNCHANGED <<feedLog, manifest, landed, condemned, follower>>
      /\ restorer' = [restorer EXCEPT !.pc = "seed", !.base = base]
  BY DEF FeedInv, FeedTypes, RestoreList
<1>2. manifest.start \in Nat /\ manifest.start <= FeedSlots
  BY <1>1, ManifestFacts
<1>3. manifest.start > 0 => manifest.start - 1 \in listed
  BY <1>1 DEF RetirementIsBelow, Present
<1>4. /\ base \in Nat /\ base <= FeedSlots /\ manifest.start <= base
      /\ base > 0 => Present(base - 1)
      /\ \A s \in Slot : base <= s => ~Present(s)
  <2>1. CASE listed = {}
    <3>1. base = 0
      BY <2>1 DEF tailFromListedLogKeys
    <3>2. QED
      BY <1>2, <1>3, <2>1, <3>1, SlotFacts
  <2>2. CASE listed # {}
    <3>1. base = Max(listed) + 1
      BY <2>2 DEF tailFromListedLogKeys
    <3>2. listed \in SUBSET (0 .. FeedSlots)
      <4>1. \A s \in Slot : s \in 0 .. FeedSlots
        BY SlotFacts
      <4>2. QED
        BY <4>1
    <3>3. Max(listed) \in listed /\ \A m \in listed : m <= Max(listed)
      BY <2>2, <3>2, MaxIsGreatest, SlotFacts
    <3> HIDE DEF base
    <3>4. PICK top \in Slot : top = Max(listed) /\ Present(top) /\ base = top + 1
      BY <3>1, <3>3
    <3>5. base \in Nat /\ base <= FeedSlots /\ base - 1 = top
      BY <3>4, SlotFacts
    <3>6. manifest.start <= base
      BY <1>2, <1>3, <3>3, <3>4, <3>5, SlotFacts
    <3>7. \A s \in Slot : base <= s => ~Present(s)
      BY <3>3, <3>4, SlotFacts
    <3>8. QED
      BY <3>4, <3>5, <3>6, <3>7
  <2>3. QED
    BY <2>1, <2>2
<1> HIDE DEF base
<1>5. restorer' \in Restorers /\ restorer'.pc = "seed" /\ restorer'.count = restorer.count
      /\ restorer'.base = base
  BY <1>1, <1>4 DEF Restorers
<1>6. \A r : Present(r)' <=> Present(r)
  BY <1>1 DEF Present
<1>7. restorer.count = 0
  BY <1>1 DEF RestoreIsAbove
<1>8. RestoreIsAbove'
  BY <1>1, <1>4, <1>5, <1>6, <1>7 DEF RestoreIsAbove
<1>9. QED
  BY <1>1, <1>5, <1>8, RestorerMoves

LEMMA IdleRestoreInv ==
  ASSUME FeedInv, restorer' = IdleRestore,
         UNCHANGED <<feedLog, manifest, landed, condemned, follower>>
  PROVE  FeedInv'
<1>1. NoCursor \in {NoCursor} \cup (Nat \X Nat) /\ 0 \in Nat
  OBVIOUS
<1>2. restorer' \in Restorers /\ restorer'.pc = "idle"
  BY <1>1, IdleFacts
<1>3. RestoreIsAbove'
  BY <1>2 DEF RestoreIsAbove
<1>4. QED
  BY <1>2, <1>3, RestorerMoves

(* The reseed: the new generation starts above every object of the old.    *)
LEMMA RestoreSeedInv == ASSUME FeedInv, RestoreSeed PROVE FeedInv'
<1>1. /\ FeedTypes /\ RetirementIsBelow /\ LiveLog /\ RestoreIsAbove /\ restorer \in Restorers
      /\ restorer.pc = "seed" /\ UNCHANGED <<feedLog, landed, condemned, follower>>
  BY DEF FeedInv, FeedTypes, RestoreSeed
<1>2. /\ manifest.gen \in Nat /\ manifest.gen >= 1 /\ manifest.start \in Nat /\ manifest.floor \in Nat
  BY <1>1, ManifestFacts
<1>3. /\ restorer.base \in Nat /\ restorer.count = 0
      /\ restorer.base <= FeedSlots /\ manifest.start <= restorer.base
      /\ restorer.base > 0 => Present(restorer.base - 1)
      /\ \A s \in Slot : restorer.base <= s => ~Present(s)
  BY <1>1 DEF RestoreIsAbove, Restorers
<1>4. CASE manifest # restorer.head
  BY <1>1, <1>4, IdleRestoreInv DEF RestoreSeed
<1>5. CASE manifest = restorer.head
  <2> DEFINE g == manifest.gen + 1
  <2>1. g \in Nat /\ g >= 1 /\ manifest.gen < g
    BY <1>2
  <2>2. manifest' = [gen |-> g, start |-> restorer.base, hint |-> restorer.base, floor |-> 0]
        /\ restorer' = [restorer EXCEPT !.pc = "load", !.head = NoManifest]
    BY <1>5 DEF RestoreSeed
  <2> HIDE DEF g
  <2>3. /\ manifest' \in Manifests /\ manifest'.gen = g /\ manifest'.start = restorer.base
        /\ manifest'.hint = restorer.base /\ manifest'.floor = 0
    BY <1>3, <2>1, <2>2 DEF Manifests
  <2>4. NoManifest \in Manifests
    BY DEF NoManifest, Manifests
  <2>5. /\ restorer' \in Restorers /\ restorer'.pc = "load" /\ restorer'.base = restorer.base
        /\ restorer'.count = 0
    BY <1>1, <1>3, <2>2, <2>4 DEF Restorers
  <2>6. \A r : Present(r)' <=> Present(r)
    BY <1>1 DEF Present
  <2>7. FeedTypes'
    BY <1>1, <1>3, <2>1, <2>3, <2>5 DEF FeedTypes
  <2>8. RetirementIsBelow'
    <3>1. \A s \in condemned : s \in Nat /\ s + FeedWindow < restorer.base
      BY <1>1, <1>2, <1>3, SlotFacts DEF RetirementIsBelow, FeedTypes
    <3>2. QED
      BY <1>1, <1>3, <2>3, <2>6, <3>1 DEF RetirementIsBelow
  <2>9. LiveLog'
    <3>1. \A e \in landed : e.gen \in Nat /\ e.gen <= manifest.gen
      BY <1>1 DEF LiveLog, FeedTypes, Objects
    <3>2. \A e \in landed : e.gen <= g /\ e.gen # g
      BY <1>2, <2>1, <3>1
    <3>3. \A s \in Slot : EntryAt(g, s) \notin landed
      BY <2>1, <3>2, ObjectFacts, SlotFacts
    <3>4. ASSUME NEW s \in Slot, restorer.base <= s
          PROVE  ~Present(s)' /\ ~(s < restorer.base)
      BY <1>3, <2>6, <3>4, SlotFacts
    <3>5. QED
      BY <1>1, <2>3, <3>2, <3>3, <3>4 DEF LiveLog
  <2>10. RestoreIsAbove'
    <3>1. restorer.base + 0 = restorer.base /\ restorer.base <= FeedSlots
      BY <1>3
    <3>2. \A s \in Slot : ~(restorer.base <= s /\ s < restorer.base)
      BY <1>3, SlotFacts
    <3>3. QED
      BY <2>3, <2>5, <3>1, <3>2 DEF RestoreIsAbove
  <2>11. manifest.gen <= manifest'.gen /\ manifest'.gen # manifest.gen
         /\ manifest.start <= manifest'.start
    BY <1>2, <1>3, <2>1, <2>3
  <2>12. QED
    BY <1>1, <2>7, <2>8, <2>9, <2>10, <2>11, LogMoves
<1>6. QED
  BY <1>4, <1>5

LEMMA RestoreRowInv == ASSUME FeedInv, RestoreRow PROVE FeedInv'
<1>1. /\ FeedTypes /\ LiveLog /\ RestoreIsAbove /\ restorer \in Restorers /\ restorer.pc = "load"
      /\ UNCHANGED <<manifest, condemned, follower>> /\ TrueTail \in Slot
      /\ feedLog' = [feedLog EXCEPT ![TrueTail] = EntryAt(manifest.gen, TrueTail)]
      /\ restorer' = [restorer EXCEPT !.count = restorer.count + 1]
  BY DEF FeedInv, FeedTypes, RestoreRow
<1>2. PICK t \in Slot : t = TrueTail
  BY <1>1
<1>3. /\ t \in Nat /\ manifest.start \in Nat /\ manifest.start <= t /\ t < FeedSlots /\ ~Present(t)
      /\ \A s \in Slot : manifest.start <= s /\ s < t => Present(s)
      /\ manifest.gen \in Nat /\ manifest.gen >= 1
  BY <1>1, <1>2, TailFacts, ManifestFacts, SlotFacts
<1>4. /\ restorer.base \in Nat /\ restorer.count \in Nat
      /\ \A s \in Slot : manifest.start <= s /\ s < restorer.base + restorer.count => Present(s)
  BY <1>1 DEF RestoreIsAbove, Restorers
<1>5. restorer.base + restorer.count <= t
  BY <1>3, <1>4
<1> DEFINE n == restorer.count + 1
<1>6. n \in Nat /\ restorer.base + n <= t + 1
  BY <1>3, <1>4, <1>5
<1>7. restorer' = [restorer EXCEPT !.count = n]
  BY <1>1
<1> HIDE DEF n
<1>8. /\ restorer' \in Restorers /\ restorer'.pc = "load" /\ restorer'.base = restorer.base
      /\ restorer'.count = n
  BY <1>1, <1>6, <1>7 DEF Restorers
<1>9. /\ EntryAt(manifest.gen, t) # Gone
  BY <1>3, ObjectFacts
<1>10. Present(t)' /\ \A s \in Slot : Present(s) => Present(s)'
  BY <1>1, <1>2, <1>9 DEF Present, FeedTypes
<1>11. \A s \in Slot : manifest.start <= s /\ s < restorer.base + n => Present(s)'
  <2> SUFFICES ASSUME NEW s \in Slot, manifest.start <= s, s < restorer.base + n PROVE Present(s)'
    OBVIOUS
  <2>1. s \in Nat /\ (s < t \/ s = t)
    BY <1>3, <1>4, <1>6, SlotFacts
  <2>2. QED
    BY <1>3, <1>10, <2>1
<1>12. restorer.base + n <= FeedSlots
  BY <1>3, <1>4, <1>6, SlotFacts
<1>13. RestoreIsAbove'
  BY <1>1, <1>8, <1>11, <1>12 DEF RestoreIsAbove
<1>14. QED
  BY <1>1, <1>8, <1>13, RowLands DEF RestoreRow

(* The stamp raises tail_hint over slots that are filled.                  *)
LEMMA RestoreStampInv == ASSUME FeedInv, RestoreStamp PROVE FeedInv'
<1>1. /\ FeedTypes /\ RetirementIsBelow /\ LiveLog /\ RestoreIsAbove /\ restorer \in Restorers
      /\ restorer.pc = "load" /\ UNCHANGED <<feedLog, landed, condemned, follower>>
      /\ restorer' = IdleRestore
  BY DEF FeedInv, FeedTypes, RestoreStamp
<1>2. CASE restorer.count = 0
  BY <1>1, <1>2, IdleRestoreInv DEF RestoreStamp
<1>3. CASE restorer.count # 0
  <2> DEFINE n == restorer.base + restorer.count
             hint == Max({n, manifest.hint, manifest.start})
  <2>1. /\ manifest.gen \in Nat /\ manifest.gen >= 1 /\ manifest.start \in Nat
        /\ manifest.hint \in Nat /\ manifest.floor \in Nat
        /\ manifest.start <= FeedSlots /\ manifest.hint <= FeedSlots
    BY <1>1, ManifestFacts
  <2>2. n \in Nat /\ n <= FeedSlots /\ \A s \in Slot : manifest.start <= s /\ s < n => Present(s)
    BY <1>1 DEF RestoreIsAbove, Restorers
  <2> HIDE DEF n
  <2>3. hint \in {n, manifest.hint, manifest.start}
    BY <2>1, <2>2, MaxOfThree
  <2> HIDE DEF hint
  <2>4. hint \in Nat /\ hint <= FeedSlots
    BY <2>1, <2>2, <2>3
  <2>5. ASSUME NEW s \in Slot, manifest.start <= s, s < hint PROVE Present(s)
    <3>1. s \in Nat /\ (s < n \/ s < manifest.hint)
      BY <2>1, <2>2, <2>3, <2>5, SlotFacts
    <3>2. QED
      BY <1>1, <2>2, <2>5, <3>1 DEF LiveLog
  <2>6. manifest' = [manifest EXCEPT !.hint = hint]
    BY <1>3 DEF RestoreStamp, hint, n
  <2>7. /\ manifest' \in Manifests /\ manifest'.gen = manifest.gen /\ manifest'.start = manifest.start
        /\ manifest'.hint = hint /\ manifest'.floor = manifest.floor
    BY <1>1, <2>4, <2>6 DEF FeedTypes, Manifests
  <2>8. NoCursor \in {NoCursor} \cup (Nat \X Nat) /\ 0 \in Nat
    OBVIOUS
  <2>9. restorer' \in Restorers /\ restorer'.pc = "idle"
    BY <1>1, <2>8, IdleFacts
  <2>10. \A r : Present(r)' <=> Present(r)
    BY <1>1 DEF Present
  <2>11. FeedTypes'
    BY <1>1, <2>1, <2>4, <2>7, <2>9 DEF FeedTypes
  <2>12. RetirementIsBelow' /\ RestoreIsAbove'
    BY <1>1, <2>7, <2>9, <2>10 DEF RetirementIsBelow, RestoreIsAbove
  <2>13. LiveLog'
    BY <1>1, <2>5, <2>7, <2>10 DEF LiveLog
  <2>14. QED
    BY <1>1, <2>1, <2>7, <2>11, <2>12, <2>13, LogMoves
<1>4. QED
  BY <1>2, <1>3

LEMMA RestoreCrashInv == ASSUME FeedInv, RestoreCrash PROVE FeedInv'
BY IdleRestoreInv DEF RestoreCrash

-----------------------------------------------------------------------------
(* The steps of a poll.                                                    *)

(* Only the poll of the client moves.                                      *)
LEMMA SetPollMoves ==
  ASSUME FeedInv, NEW f \in Follower, NEW q \in Polls, SetPoll(f, q), KeepLog,
         \A x \in Followers : x.poll = q /\ x.origin = follower[f].origin /\ x.got = follower[f].got
                                => FollowerOk(x)
  PROVE  FeedInv'
<1> DEFINE x == [follower[f] EXCEPT !.poll = q]
<1>1. follower \in [Follower -> Followers] /\ follower[f] \in Followers
  BY DEF FeedInv, FeedTypes
<1>2. x \in Followers /\ x.poll = q /\ x.origin = follower[f].origin /\ x.got = follower[f].got
  BY <1>1 DEF Followers
<1>3. follower' = [follower EXCEPT ![f] = x]
  BY <1>1 DEF SetPoll
<1> HIDE DEF x
<1>4. QED
  BY <1>2, <1>3, PollMoves

LEMMA PollFacts ==
  ASSUME FeedInv, NEW f \in Follower
  PROVE  /\ follower[f] \in Followers /\ Poll(f) \in Polls /\ Poll(f) = follower[f].poll
         /\ PollKnows(Poll(f)) /\ CursorKnows(follower[f]) /\ EventsAreDense(Poll(f))
         /\ Poll(f).man \in Manifests /\ Poll(f).man.gen \in Nat /\ Poll(f).man.start \in Nat
         /\ Poll(f).pos \in Nat /\ Poll(f).end \in Nat /\ Poll(f).aborts \in Nat
         /\ Poll(f).cursor \in {NoCursor} \cup (Nat \X Nat)
         /\ Poll(f).cursor # NoCursor => Poll(f).cursor[1] \in Nat /\ Poll(f).cursor[2] \in Nat
<1>1. follower[f] \in Followers /\ FollowerOk(follower[f])
  BY DEF FeedInv, FeedTypes
<1>2. Poll(f) \in Polls /\ Poll(f) = follower[f].poll
  BY <1>1 DEF Poll, Followers
<1>3. Poll(f).man \in Manifests
  BY <1>2 DEF Polls
<1>4. QED
  BY <1>1, <1>2, <1>3 DEF FollowerOk, Polls, Manifests

(* A poll that goes back to waiting, or ends, with the cursor it had.      *)
LEMMA BackToIdle ==
  ASSUME FeedInv, NEW f \in Follower, NEW q \in Polls, q.pc \in {"idle", "wait"},
         q.cursor = Poll(f).cursor, SetPoll(f, q), KeepLog
  PROVE  FeedInv'
<1>1. PICK p \in Polls : p = Poll(f)
  BY PollFacts
<1>2. PICK x0 \in Followers : x0 = follower[f]
  BY PollFacts
<1>3. /\ x0.poll = p /\ PollKnows(p) /\ CursorKnows(x0) /\ p.man.gen \in Nat /\ p.man.start \in Nat
      /\ p.cursor # NoCursor => p.cursor[1] \in Nat /\ p.cursor[2] \in Nat
      /\ manifest.gen \in Nat /\ manifest.start \in Nat
  BY <1>1, <1>2, PollFacts, ManifestFacts DEF FeedInv
<1>4. ASSUME NEW x \in Followers, x.poll = q, x.origin = x0.origin, x.got = x0.got
      PROVE  FollowerOk(x)
  <2>1. PollKnows(q) /\ EventsAreDense(q)
    BY DEF PollKnows, EventsAreDense, Reading
  <2>2. Complete(x) <=> Complete(x0)
    BY <1>1, <1>3, <1>4 DEF Complete
  <2>3. p.cursor # NoCursor /\ p.cursor[1] = manifest.gen /\ manifest.start <= p.cursor[2]
          => Complete(x0)
    <3> SUFFICES ASSUME p.cursor # NoCursor, p.cursor[1] = manifest.gen,
                        manifest.start <= p.cursor[2]
                 PROVE  Complete(x0)
      OBVIOUS
    <3>1. CASE p.pc \in {"idle", "wait"}
      BY <1>3, <3>1 DEF CursorKnows
    <3>2. CASE p.pc \in Reading
      <4>1. p.cursor[1] <= p.man.gen /\ p.man.gen <= manifest.gen /\ p.man.start <= manifest.start
        BY <1>3, <3>2 DEF CursorKnows, PollKnows
      <4>2. p.cursor[1] = p.man.gen /\ p.man.start <= p.cursor[2]
        BY <1>3, <4>1
      <4>3. QED
        BY <1>3, <3>2, <4>2 DEF CursorKnows, Reading
    <3>3. QED
      BY <3>1, <3>2 DEF Polls, Reading
  <2>4. CursorKnows(x)
    BY <1>1, <1>3, <1>4, <2>2, <2>3 DEF CursorKnows, Reading
  <2>5. QED
    BY <1>4, <2>1, <2>4 DEF FollowerOk
<1>5. QED
  BY <1>2, <1>4, SetPollMoves

LEMMA PollReadInv == ASSUME FeedInv, NEW f \in Follower, PollRead(f) PROVE FeedInv'
<1>1. PICK p \in Polls : p = Poll(f)
  BY PollFacts
<1>2. PICK x0 \in Followers : x0 = follower[f]
  BY PollFacts
<1>3. /\ FeedTypes /\ RetirementIsBelow /\ LiveLog
      /\ x0.poll = p /\ CursorKnows(x0) /\ manifest \in Manifests
      /\ p.pc \in {"idle", "wait"}
  BY <1>1, <1>2, PollFacts DEF FeedInv, FeedTypes, PollRead
<1>4. /\ manifest.gen \in Nat /\ manifest.start \in Nat /\ manifest.hint \in Nat
      /\ manifest.floor \in Nat
  BY <1>3, ManifestFacts
<1> DEFINE pos == Max({manifest.start, manifest.hint})
           fast == (p.pc = "idle")
           q == [p EXCEPT !.pc = "probe", !.man = manifest, !.events = <<>>, !.fast = fast,
                          !.pos = pos]
<1>5. /\ pos \in Nat /\ pos <= FeedSlots
      /\ \A s \in Slot : manifest.start <= s /\ s < pos => s < manifest.hint
  <2>1. manifest.start <= FeedSlots /\ manifest.hint <= FeedSlots
    BY <1>3, ManifestFacts
  <2>2. pos = IF manifest.start < manifest.hint THEN manifest.hint ELSE manifest.start
    BY <1>4, MaxOfTwo
  <2> HIDE DEF pos
  <2>3. QED
    BY <1>4, <2>1, <2>2, SlotFacts
<1>6. fast \in BOOLEAN /\ SetPoll(f, q) /\ KeepLog
  BY <1>1 DEF PollRead
<1> HIDE DEF pos, fast
<1>7. <<>> \in Seq(Objects)
  OBVIOUS
<1>8. /\ q \in Polls /\ q.pc = "probe" /\ q.man = manifest /\ q.pos = pos /\ q.events = <<>>
      /\ q.cursor = p.cursor
  BY <1>3, <1>5, <1>6, <1>7 DEF Polls
<1> HIDE DEF q
<1>9. PollKnows(q)
  <2>1. \A s \in condemned : s \in Nat /\ s < manifest.start
    BY <1>3, <1>4, SlotFacts DEF RetirementIsBelow, FeedTypes
  <2>2. \A s \in Slot : manifest.start <= s =>
          /\ Present(s) => feedLog[s] = EntryAt(manifest.gen, s)
          /\ s < pos => Present(s)
    BY <1>3, <1>5 DEF LiveLog
  <2>3. manifest.gen <= manifest.gen /\ manifest.start <= manifest.start
    BY <1>4
  <2>4. QED
    BY <1>8, <2>1, <2>2, <2>3 DEF PollKnows, Reach
<1>10. EventsAreDense(q)
  BY <1>5, <1>8 DEF EventsAreDense
<1>11. ASSUME NEW x \in Followers, x.poll = q, x.origin = x0.origin, x.got = x0.got
       PROVE  FollowerOk(x)
  <2>1. Complete(x) <=> Complete(x0)
    BY <1>3, <1>8, <1>11 DEF Complete
  <2>2. CursorKnows(x)
    BY <1>3, <1>8, <1>11, <2>1 DEF CursorKnows, Reading
  <2>3. QED
    BY <1>9, <1>10, <1>11, <2>2 DEF FollowerOk
<1>12. QED
  BY <1>2, <1>6, <1>8, <1>11, SetPollMoves

LEMMA PollProbeInv == ASSUME FeedInv, NEW f \in Follower, PollProbe(f) PROVE FeedInv'
<1>1. PICK p \in Polls : p = Poll(f)
  BY PollFacts
<1>2. PICK x0 \in Followers : x0 = follower[f]
  BY PollFacts
<1>3. /\ x0.poll = p /\ PollKnows(p) /\ CursorKnows(x0) /\ EventsAreDense(p) /\ p.pc = "probe"
      /\ KeepLog /\ p.pos \in Nat
  BY <1>1, <1>2, PollFacts DEF PollProbe
<1>4. ASSUME NEW q \in Polls, q.pc \in {"probe", "screen"}, q.man = p.man, q.events = p.events,
             q.cursor = p.cursor, q.pos = p.pos \/ (q.pos = p.pos + 1 /\ Present(p.pos)), SetPoll(f, q)
      PROVE  FeedInv'
  <2>1. PollKnows(q)
    <3>1. \A s \in Slot : s < q.pos => s < p.pos \/ Present(s)
      BY <1>3, <1>4, SlotFacts
    <3>2. QED
      BY <1>3, <1>4, <3>1 DEF PollKnows, Reach, Reading
  <2>2. EventsAreDense(q)
    <3>1. p.pos <= FeedSlots
      BY <1>3 DEF EventsAreDense
    <3>2. q.pos <= FeedSlots
      BY <1>3, <1>4, <3>1, SlotFacts DEF Present
    <3>3. QED
      BY <1>3, <1>4, <3>2 DEF EventsAreDense
  <2>3. ASSUME NEW x \in Followers, x.poll = q, x.origin = x0.origin, x.got = x0.got
        PROVE  FollowerOk(x)
    <3>1. Complete(x) <=> Complete(x0)
      BY <1>3, <1>4, <2>3 DEF Complete
    <3>2. CursorKnows(x)
      BY <1>3, <1>4, <2>3, <3>1 DEF CursorKnows, Reading
    <3>3. QED
      BY <2>1, <2>2, <2>3, <3>2 DEF FollowerOk
  <2>4. QED
    BY <1>2, <1>3, <1>4, <2>3, SetPollMoves
<1>5. CASE Present(p.pos)
  <2> DEFINE n == p.pos + 1
             q == [p EXCEPT !.pos = n]
  <2>1. SetPoll(f, q) /\ n \in Nat
    BY <1>1, <1>3, <1>5 DEF PollProbe
  <2>2. /\ q \in Polls /\ q.pc = p.pc /\ q.man = p.man /\ q.events = p.events
        /\ q.cursor = p.cursor /\ q.pos = n
    BY <2>1 DEF Polls
  <2> HIDE DEF q
  <2>3. QED
    BY <1>3, <1>4, <1>5, <2>1, <2>2
<1>6. CASE ~Present(p.pos)
  <2> DEFINE q == [p EXCEPT !.pc = "screen"]
  <2>1. SetPoll(f, q)
    BY <1>1, <1>6 DEF PollProbe
  <2>2. /\ q \in Polls /\ q.pc = "screen" /\ q.man = p.man /\ q.events = p.events
        /\ q.cursor = p.cursor /\ q.pos = p.pos
    BY DEF Polls
  <2> HIDE DEF q
  <2>3. QED
    BY <1>4, <2>1, <2>2
<1>7. QED
  BY <1>5, <1>6

(* A refused client starts over; an accepted cursor is complete.           *)
LEMMA PollScreenInv == ASSUME FeedInv, NEW f \in Follower, PollScreen(f) PROVE FeedInv'
<1>1. PICK p \in Polls : p = Poll(f)
  BY PollFacts
<1>2. PICK x0 \in Followers : x0 = follower[f]
  BY PollFacts
<1>3. /\ x0.poll = p /\ PollKnows(p) /\ CursorKnows(x0) /\ EventsAreDense(p) /\ p.pc = "screen"
      /\ KeepLog /\ p.pos \in Nat /\ p.aborts \in Nat /\ p.man.gen \in Nat /\ p.man.start \in Nat
      /\ p.cursor \in {NoCursor} \cup (Nat \X Nat)
      /\ p.cursor # NoCursor => p.cursor[1] \in Nat /\ p.cursor[2] \in Nat
      /\ follower \in [Follower -> Followers] /\ x0.origin \in Nat /\ x0.got \in Seq(Objects)
  BY <1>1, <1>2, PollFacts DEF PollScreen, FeedInv, FeedTypes, Followers
<1>4. CASE Refused(p.cursor, p.man)
  <2> DEFINE x == [poll |-> IdlePoll(NoCursor, p.aborts), origin |-> 0, got |-> <<>>]
  <2>1. follower' = [follower EXCEPT ![f] = x]
    BY <1>1, <1>4 DEF PollScreen
  <2>2. NoCursor \in {NoCursor} \cup (Nat \X Nat)
    OBVIOUS
  <2>3. IdlePoll(NoCursor, p.aborts) \in Polls /\ IdlePoll(NoCursor, p.aborts).pc = "idle"
        /\ IdlePoll(NoCursor, p.aborts).cursor = NoCursor
    BY <1>3, <2>2, IdleFacts
  <2>4. x \in Followers /\ x.poll.pc = "idle" /\ x.poll.cursor = NoCursor /\ x.got = <<>>
    BY <2>3 DEF Followers
  <2> HIDE DEF x
  <2>5. FollowerOk(x)
    BY <2>4 DEF FollowerOk, PollKnows, CursorKnows, EventsAreDense, Reading
  <2>6. QED
    BY <1>3, <2>1, <2>4, <2>5, PollMoves
<1>5. CASE ~Refused(p.cursor, p.man)
  <2> DEFINE start == StartSeq(p.cursor, p.man)
             end == EndSeq(p.pos, start)
             q == [p EXCEPT !.pc = "get", !.pos = start, !.end = end]
             origin == IF p.cursor = NoCursor THEN start ELSE x0.origin
             x == [x0 EXCEPT !.poll = q, !.origin = origin]
  <2>1. follower' = [follower EXCEPT ![f] = x]
    BY <1>1, <1>2, <1>3, <1>5 DEF PollScreen
  <2>2. start \in Nat /\ p.man.start <= start
    BY <1>3, <1>5 DEF StartSeq, Refused
  <2>3. start + MaxEvents \in Nat
    BY <2>2, SlotFacts
  <2>4. end \in Nat /\ end <= p.pos /\ end <= start + MaxEvents /\ end <= FeedSlots
    <3>1. p.pos <= FeedSlots
      BY <1>3 DEF EventsAreDense
    <3>2. QED
      BY <1>3, <2>2, <2>3, <3>1, MinOfTwo, SlotFacts DEF EndSeq
  <2>5. origin \in Nat /\ (p.cursor # NoCursor => origin = x0.origin)
        /\ (p.cursor = NoCursor => origin = p.man.start)
    BY <1>3, <2>2 DEF StartSeq
  <2>6. start = StartSeq(p.cursor, p.man)
    OBVIOUS
  <2> HIDE DEF start, end, origin
  <2>7. /\ q \in Polls /\ q.pc = "get" /\ q.pos = start /\ q.end = end /\ q.man = p.man
        /\ q.events = p.events /\ q.cursor = p.cursor
    BY <2>2, <2>4 DEF Polls
  <2> HIDE DEF q
  <2>8. x \in Followers /\ x.poll = q /\ x.origin = origin /\ x.got = x0.got
    BY <2>5, <2>7 DEF Followers
  <2> HIDE DEF x
  <2>9. PollKnows(q)
    <3>1. \A s \in Slot : s < end => s < p.pos
      BY <1>3, <2>4, SlotFacts
    <3>2. QED
      BY <1>3, <2>7, <3>1 DEF PollKnows, Reach, Reading
  <2>10. CursorKnows(x)
    <3>1. ASSUME p.cursor # NoCursor
          PROVE  Complete(x) /\ p.cursor[1] = p.man.gen /\ p.man.start <= p.cursor[2]
      <4>1. p.cursor[1] = p.man.gen /\ p.man.start <= p.cursor[2]
        BY <1>3, <1>5, <3>1 DEF Refused
      <4>2. Complete(x0)
        BY <1>3, <3>1, <4>1 DEF CursorKnows
      <4>3. QED
        BY <1>3, <2>5, <2>7, <2>8, <3>1, <4>1, <4>2 DEF Complete
    <3>2. p.man.gen <= p.man.gen
      BY <1>3
    <3>3. QED
      BY <1>3, <2>5, <2>7, <2>8, <3>1, <3>2 DEF CursorKnows, Reading
  <2>11. EventsAreDense(q)
    <3>1. p.events = <<>>
      BY <1>3 DEF EventsAreDense
    <3>2. Len(q.events) = 0 /\ start - start = 0 /\ start <= start
      BY <2>2, <2>7, <3>1
    <3>3. QED
      BY <2>4, <2>6, <2>7, <3>2 DEF EventsAreDense
  <2>12. QED
    BY <1>3, <2>1, <2>8, <2>9, <2>10, <2>11, PollMoves DEF FollowerOk
<1>6. QED
  BY <1>4, <1>5

LEMMA PollGetInv == ASSUME FeedInv, NEW f \in Follower, PollGet(f) PROVE FeedInv'
<1>1. PICK p \in Polls : p = Poll(f)
  BY PollFacts
<1>2. PICK x0 \in Followers : x0 = follower[f]
  BY PollFacts
<1>3. /\ x0.poll = p /\ PollKnows(p) /\ CursorKnows(x0) /\ EventsAreDense(p) /\ p.pc = "get"
      /\ KeepLog /\ p.pos \in Nat /\ p.end \in Nat /\ p.pos < p.end /\ FeedTypes
      /\ p.man.gen \in Nat /\ p.man.start \in Nat
      /\ p.cursor # NoCursor => p.cursor[1] \in Nat /\ p.cursor[2] \in Nat
  BY <1>1, <1>2, PollFacts DEF PollGet, FeedInv
<1> DEFINE n == p.pos + 1
           evs == IF Present(p.pos) THEN Append(p.events, feedLog[p.pos]) ELSE p.events
           q == [p EXCEPT !.pos = n, !.events = evs]
           st == StartSeq(p.cursor, p.man)
<1>4. SetPoll(f, q) /\ n \in Nat /\ n = p.pos + 1
  BY <1>1, <1>3 DEF PollGet
<1>5. st \in Nat /\ p.man.start <= st
  BY <1>3 DEF StartSeq, CursorKnows
<1>6. /\ st <= p.pos /\ p.end <= st + MaxEvents
      /\ \A i \in 1..Len(p.events) : p.events[i].seq < p.end
      /\ p.man.gen = manifest.gen /\ manifest.floor <= st =>
            /\ Len(p.events) = p.pos - st
            /\ \A i \in 1..Len(p.events) : p.events[i] = EntryAt(p.man.gen, st + i - 1)
  BY <1>3 DEF EventsAreDense
<1> HIDE DEF st
<1>7. p.events \in Seq(Objects) /\ Len(p.events) \in Nat
  BY DEF Polls
<1>8. /\ evs \in Seq(Objects)
      /\ \A i \in 1..Len(evs) : evs[i].seq < p.end
      /\ p.man.gen = manifest.gen /\ manifest.floor <= st =>
            /\ Len(evs) = n - st
            /\ \A i \in 1..Len(evs) : evs[i] = EntryAt(p.man.gen, st + i - 1)
  <2>1. CASE Present(p.pos)
    <3>1. p.pos \in Slot /\ feedLog[p.pos] \in Objects /\ feedLog[p.pos].seq = p.pos
      BY <1>3, <2>1 DEF Present, FeedTypes
    <3>2. PICK e \in Objects : e = feedLog[p.pos]
      BY <3>1
    <3>3. /\ evs = Append(p.events, e) /\ evs \in Seq(Objects) /\ Len(evs) = Len(p.events) + 1
          /\ \A i \in 1..Len(p.events) : evs[i] = p.events[i]
          /\ evs[Len(p.events) + 1] = e
      BY <1>7, <2>1, <3>2, AppendProperties
    <3> HIDE DEF evs
    <3>4. \A i \in 1..Len(evs) : i \in 1..Len(p.events) \/ i = Len(p.events) + 1
      BY <1>7, <3>3
    <3>5. \A i \in 1..Len(evs) : evs[i].seq < p.end
      BY <1>3, <1>6, <3>1, <3>2, <3>3, <3>4
    <3>6. ASSUME p.man.gen = manifest.gen, manifest.floor <= st
          PROVE  /\ Len(evs) = n - st
                 /\ \A i \in 1..Len(evs) : evs[i] = EntryAt(p.man.gen, st + i - 1)
      <4>1. manifest.floor \in Nat
        BY <1>3, ManifestFacts
      <4>2. p.man.start <= p.pos /\ manifest.floor <= p.pos
        BY <1>3, <1>5, <1>6, <3>6, <4>1
      <4>3. e = EntryAt(p.man.gen, p.pos)
        BY <1>3, <2>1, <3>1, <3>2, <3>6, <4>2 DEF PollKnows, Reading
      <4>4. Len(p.events) = p.pos - st /\ st + (Len(p.events) + 1) - 1 = p.pos
        <5>1. Len(p.events) = p.pos - st
          BY <1>6, <3>6
        <5>2. p.pos \in Nat
          BY <1>3
        <5>3. QED
          BY <1>5, <1>7, <5>1, <5>2
      <4>5. \A i \in 1..Len(p.events) : p.events[i] = EntryAt(p.man.gen, st + i - 1)
        BY <1>6, <3>6
      <4>6. evs[Len(p.events) + 1] = EntryAt(p.man.gen, st + (Len(p.events) + 1) - 1)
        BY <3>3, <4>3, <4>4
      <4>7. \A i \in 1..Len(evs) : evs[i] = EntryAt(p.man.gen, st + i - 1)
        BY <3>3, <3>4, <4>5, <4>6
      <4>8. Len(evs) = n - st
        BY <1>3, <1>4, <1>5, <3>3, <4>4
      <4>9. QED
        BY <4>7, <4>8
    <3>7. QED
      BY <3>3, <3>5, <3>6
  <2>2. CASE ~Present(p.pos)
    <3>1. evs = p.events
      BY <2>2
    <3>2. ~(p.man.gen = manifest.gen /\ manifest.floor <= st)
      <4> SUFFICES ASSUME p.man.gen = manifest.gen, manifest.floor <= st PROVE FALSE
        OBVIOUS
      <4>1. manifest.floor \in Nat
        BY <1>3, ManifestFacts
      <4>2. p.man.start <= p.pos /\ manifest.floor <= p.pos
        BY <1>3, <1>5, <1>6, <4>1
      <4>3. p.pos \in Slot
        <5>1. p.end <= FeedSlots
          BY <1>3 DEF EventsAreDense
        <5>2. QED
          BY <1>3, <5>1, SlotFacts
      <4>4. Present(p.pos)
        BY <1>3, <4>2, <4>3 DEF PollKnows, Reading, Reach
      <4>5. QED
        BY <2>2, <4>4
    <3>3. QED
      BY <1>6, <1>7, <3>1, <3>2
  <2>3. QED
    BY <2>1, <2>2
<1> HIDE DEF n, evs
<1>9. /\ q \in Polls /\ q.pc = "get" /\ q.pos = n /\ q.end = p.end /\ q.man = p.man
      /\ q.events = evs /\ q.cursor = p.cursor
  BY <1>3, <1>4, <1>8 DEF Polls
<1> HIDE DEF q
<1>10. PollKnows(q)
  BY <1>3, <1>9 DEF PollKnows, Reach, Reading
<1>11. EventsAreDense(q)
  <2>1. st = StartSeq(q.cursor, q.man) /\ st <= n
    BY <1>3, <1>4, <1>5, <1>6, <1>9 DEF st
  <2>2. QED
    BY <1>3, <1>6, <1>8, <1>9, <2>1 DEF EventsAreDense
<1>12. ASSUME NEW x \in Followers, x.poll = q, x.origin = x0.origin, x.got = x0.got
       PROVE  FollowerOk(x)
  <2>1. Complete(x) <=> Complete(x0)
    BY <1>3, <1>9, <1>12 DEF Complete
  <2>2. CursorKnows(x)
    BY <1>3, <1>9, <1>12, <2>1 DEF CursorKnows, Reading
  <2>3. QED
    BY <1>10, <1>11, <1>12, <2>2 DEF FollowerOk
<1>13. QED
  BY <1>2, <1>3, <1>4, <1>9, <1>12, SetPollMoves

(* The answer: the events extend a complete history, or retirement has     *)
(* overtaken the poll and its cursor will be refused.                      *)
LEMMA PollAnswerInv == ASSUME FeedInv, NEW f \in Follower, PollAnswer(f) PROVE FeedInv'
<1>1. PICK p \in Polls : p = Poll(f)
  BY PollFacts
<1>2. PICK x0 \in Followers : x0 = follower[f]
  BY PollFacts
<1>3. /\ x0.poll = p /\ PollKnows(p) /\ CursorKnows(x0) /\ EventsAreDense(p) /\ p.pc = "get"
      /\ KeepLog /\ p.pos \in Nat /\ p.end \in Nat /\ FeedTypes /\ RetirementIsBelow
      /\ p.man.gen \in Nat /\ p.man.start \in Nat /\ p.aborts \in Nat /\ p.events # <<>>
      /\ p.cursor # NoCursor => p.cursor[1] \in Nat /\ p.cursor[2] \in Nat
      /\ follower \in [Follower -> Followers]
  BY <1>1, <1>2, PollFacts DEF PollAnswer, FeedInv, FeedTypes
<1>4. /\ manifest.gen \in Nat /\ manifest.start \in Nat /\ manifest.floor \in Nat
  BY <1>3, ManifestFacts
<1>5. p.events \in Seq(Objects) /\ x0.got \in Seq(Objects) /\ x0.origin \in Nat
  BY DEF Polls, Followers
<1>6. PICK n \in Nat : n = Len(p.events) /\ n >= 1 /\ p.events[n] \in Objects
  BY <1>3, <1>5, EmptySeq, LenProperties, ElementOfSeq
<1>7. PICK q \in Nat : q = p.events[n].seq
  BY <1>6 DEF Objects
<1> DEFINE st == StartSeq(p.cursor, p.man)
           c == <<p.man.gen, q>>
           got == x0.got \o p.events
           poll == IdlePoll(c, p.aborts)
           x == [x0 EXCEPT !.poll = poll, !.got = got]
<1>8. follower' = [follower EXCEPT ![f] = x]
  BY <1>1, <1>2, <1>3, <1>6, <1>7 DEF PollAnswer
<1>9. /\ c \in {NoCursor} \cup (Nat \X Nat) /\ c # NoCursor /\ c[1] = p.man.gen /\ c[2] = q
  <2>1. p.man.gen \in Nat
    BY <1>3
  <2> QED
    BY <2>1 DEF NoCursor
<1> HIDE DEF c
<1>10. poll \in Polls /\ poll.pc = "idle" /\ poll.cursor = c
  BY <1>3, <1>9, IdleFacts
<1> HIDE DEF poll
<1>11. /\ got \in Seq(Objects) /\ Len(got) = Len(x0.got) + n /\ Len(x0.got) \in Nat
       /\ \A i \in 1..Len(x0.got) : got[i] = x0.got[i]
       /\ \A i \in 1..Len(got) : i > Len(x0.got) => got[i] = p.events[i - Len(x0.got)]
  <2>1. Len(x0.got) \in Nat /\ Len(p.events) = n
    BY <1>5, <1>6, LenProperties
  <2>2. /\ got \in Seq(Objects) /\ Len(got) = Len(x0.got) + Len(p.events)
        /\ \A i \in 1..Len(x0.got) + Len(p.events) :
              got[i] = IF i <= Len(x0.got) THEN x0.got[i] ELSE p.events[i - Len(x0.got)]
    BY <1>5, ConcatProperties
  <2> HIDE DEF got
  <2>3. ASSUME NEW i \in 1..Len(x0.got) PROVE got[i] = x0.got[i]
    BY <2>1, <2>2, <2>3
  <2>4. ASSUME NEW i \in 1..Len(got), i > Len(x0.got) PROVE got[i] = p.events[i - Len(x0.got)]
    BY <2>1, <2>2, <2>4
  <2> QED
    BY <2>1, <2>2, <2>3, <2>4
<1> HIDE DEF got
<1>12. x \in Followers /\ x.poll = poll /\ x.got = got /\ x.origin = x0.origin
  BY <1>10, <1>11 DEF Followers
<1> HIDE DEF x
<1>13. st \in Nat
  BY <1>3 DEF StartSeq
<1>14. /\ p.end <= st + MaxEvents /\ p.events[n].seq < p.end
       /\ p.man.gen = manifest.gen /\ manifest.floor <= st =>
            /\ Len(p.events) = p.pos - st
            /\ \A i \in 1..Len(p.events) : p.events[i] = EntryAt(p.man.gen, st + i - 1)
  BY <1>3, <1>6 DEF EventsAreDense
<1>15. ASSUME p.man.gen = manifest.gen, manifest.start <= q PROVE Complete(x)
  <2>1. manifest.floor <= st
    <3> SUFFICES ASSUME ~(manifest.floor <= st) PROVE FALSE
      OBVIOUS
    <3>1. manifest.floor + FeedWindow <= manifest.start
      BY <1>3, <1>4, <1>13 DEF RetirementIsBelow
    <3>2. q < st + MaxEvents
      BY <1>3, <1>7, <1>13, <1>14, SlotFacts
    <3>3. QED
      BY <1>4, <1>13, <1>15, <3>1, <3>2, SlotFacts
  <2>2. \A i \in 1..n : p.events[i] = EntryAt(p.man.gen, st + i - 1)
    BY <1>6, <1>14, <1>15, <2>1
  <2>3. q = st + n - 1
    <3>1. p.events[n] = EntryAt(p.man.gen, st + n - 1) /\ st + n - 1 \in Nat
      BY <1>6, <1>13, <2>2
    <3>2. QED
      BY <1>7, <3>1 DEF EntryAt
  <2>4. st = x0.origin + Len(x0.got)
        /\ \A i \in 1..Len(x0.got) : x0.got[i] = EntryAt(p.man.gen, x0.origin + i - 1)
    <3>1. CASE p.cursor = NoCursor
      <4>1. x0.got = <<>> /\ x0.origin = p.man.start
        BY <1>3, <3>1 DEF CursorKnows
      <4>2. st = p.man.start /\ Len(x0.got) = 0
        BY <3>1, <4>1 DEF StartSeq
      <4>3. QED
        BY <1>3, <4>1, <4>2
    <3>2. CASE p.cursor # NoCursor
      <4>1. Complete(x0) /\ p.cursor[1] = p.man.gen
        BY <1>3, <3>2 DEF CursorKnows
      <4>2. st = p.cursor[2] + 1
        BY <3>2 DEF StartSeq
      <4>3. Len(x0.got) = p.cursor[2] - x0.origin + 1
            /\ \A i \in 1..Len(x0.got) : x0.got[i] = EntryAt(p.man.gen, x0.origin + i - 1)
        BY <1>3, <4>1 DEF Complete
      <4>4. st = x0.origin + Len(x0.got)
        BY <1>3, <1>5, <3>2, <4>2, <4>3
      <4>5. QED
        BY <4>3, <4>4
    <3>3. QED
      BY <3>1, <3>2
  <2> HIDE DEF st
  <2>5. Len(got) = q - x0.origin + 1
    <3>1. Len(got) = Len(x0.got) + n /\ Len(x0.got) \in Nat /\ x0.origin \in Nat
      BY <1>5, <1>11
    <3>2. st = x0.origin + Len(x0.got) /\ q = st + n - 1
      BY <2>3, <2>4
    <3>3. QED
      BY <3>1, <3>2
  <2>6. ASSUME NEW i \in 1..Len(got) PROVE got[i] = EntryAt(p.man.gen, x0.origin + i - 1)
    <3>1. CASE i \in 1..Len(x0.got)
      BY <1>11, <2>4, <3>1
    <3>2. CASE i \notin 1..Len(x0.got)
      <4>1. i - Len(x0.got) \in 1..n /\ i > Len(x0.got)
        <5>1. Len(got) = Len(x0.got) + n /\ Len(x0.got) \in Nat
          BY <1>11
        <5>2. QED
          BY <3>2, <5>1
      <4>2. got[i] = EntryAt(p.man.gen, st + (i - Len(x0.got)) - 1)
        BY <1>11, <2>2, <2>6, <4>1
      <4>3. st + (i - Len(x0.got)) - 1 = x0.origin + i - 1
        BY <1>5, <1>11, <2>4, <2>6
      <4>4. QED
        BY <4>2, <4>3
    <3>3. QED
      BY <3>1, <3>2
  <2>7. QED
    BY <1>9, <1>10, <1>12, <2>5, <2>6 DEF Complete
<1>16. p.man.gen <= manifest.gen
  BY <1>3 DEF PollKnows, Reading
<1>17. CursorKnows(x)
  BY <1>9, <1>10, <1>12, <1>15, <1>16 DEF CursorKnows, Reading
<1>18. PollKnows(x.poll) /\ EventsAreDense(x.poll)
  BY <1>10, <1>12 DEF PollKnows, EventsAreDense, Reading
<1>19. QED
  BY <1>3, <1>8, <1>12, <1>17, <1>18, PollMoves DEF FollowerOk

LEMMA PollEmptyInv == ASSUME FeedInv, NEW f \in Follower, PollEmpty(f) PROVE FeedInv'
<1>1. PICK p \in Polls : p = Poll(f)
  BY PollFacts
<1>2. p.cursor \in {NoCursor} \cup (Nat \X Nat) /\ p.aborts \in Nat /\ KeepLog
  BY <1>1, PollFacts DEF PollEmpty
<1> DEFINE i == IdlePoll(p.cursor, p.aborts)
           w == [i EXCEPT !.pc = "wait"]
<1>3. i \in Polls /\ i.pc = "idle" /\ i.cursor = p.cursor
  BY <1>2, IdleFacts
<1>4. SetPoll(f, w) \/ SetPoll(f, i)
  BY <1>1 DEF PollEmpty
<1> HIDE DEF i
<1>5. w \in Polls /\ w.pc = "wait" /\ w.cursor = p.cursor
  BY <1>3 DEF Polls
<1> HIDE DEF w
<1>6. QED
  BY <1>1, <1>2, <1>3, <1>4, <1>5, BackToIdle

LEMMA PollAbortInv == ASSUME FeedInv, NEW f \in Follower, PollAbort(f) PROVE FeedInv'
<1>1. PICK p \in Polls : p = Poll(f)
  BY PollFacts
<1>2. p.cursor \in {NoCursor} \cup (Nat \X Nat) /\ p.aborts + 1 \in Nat /\ KeepLog
  BY <1>1, PollFacts DEF PollAbort
<1> DEFINE i == IdlePoll(p.cursor, p.aborts + 1)
<1>3. i \in Polls /\ i.pc = "idle" /\ i.cursor = p.cursor
  BY <1>2, IdleFacts
<1>4. SetPoll(f, i)
  BY <1>1 DEF PollAbort
<1> HIDE DEF i
<1>5. QED
  BY <1>1, <1>2, <1>3, <1>4, BackToIdle

-----------------------------------------------------------------------------
(* The invariant, and what it is for.                                      *)

LEMMA FeedInvStep == FeedInv /\ [FeedNext]_feedVars => FeedInv'
<1> SUFFICES ASSUME FeedInv, [FeedNext]_feedVars PROVE FeedInv'
  OBVIOUS
<1>1. CASE FeedNext
  BY <1>1, FeedCommitInv, FeedPhantomInv, FeedFoldInv, FeedCertifyInv, FeedDeleteInv,
     FeedRetireCrashInv, RestoreReadInv, RestoreListInv, RestoreSeedInv, RestoreRowInv,
     RestoreStampInv, RestoreCrashInv, PollReadInv, PollProbeInv, PollScreenInv, PollGetInv,
     PollAnswerInv, PollEmptyInv, PollAbortInv DEF FeedNext, PollStep
<1>2. CASE UNCHANGED feedVars
  <2>1. UNCHANGED <<feedLog, manifest, landed, condemned, restorer, follower>>
    BY <1>2 DEF feedVars
  <2>2. restorer' \in Restorers
    BY <2>1 DEF FeedInv, FeedTypes
  <2>3. RestoreIsAbove'
    BY <2>1 DEF FeedInv, RestoreIsAbove, Present
  <2>4. QED
    BY <2>1, <2>2, <2>3, RestorerMoves
<1>3. QED
  BY <1>1, <1>2

(* The inductive invariant of the feed.                                    *)
THEOREM FeedInvHolds == FeedSpec => []FeedInv
BY FeedInvInit, FeedInvStep, PTL DEF FeedSpec

(* At and above log_seq_start the log holds exactly the rows committed in  *)
(* the current generation, through any number of restores: a restore       *)
(* (tailFromListedLogKeys) starts above every object that is left, and the *)
(* DELETEs of a retirement pass stay below that.                           *)
THEOREM LiveLogsAreExact == FeedSpec => []LiveLogIsExact
<1>1. FeedInv => LiveLogIsExact
  <2> SUFFICES ASSUME FeedInv, NEW s \in manifest.start .. FeedSlots - 1
               PROVE  /\ Present(s) => feedLog[s] = EntryAt(manifest.gen, s)
                      /\ EntryAt(manifest.gen, s) \in landed => Present(s)
    BY DEF LiveLogIsExact
  <2>1. s \in Slot /\ manifest.start <= s
    BY ManifestFacts, SlotFacts DEF FeedInv
  <2>2. QED
    BY <2>1 DEF FeedInv, LiveLog
<1>2. QED
  BY <1>1, FeedInvHolds, PTL

(* A cursor that pollOnce accepts stands for a complete history, however   *)
(* many polls crossed a retirement, a refilled slot or a restore: events   *)
(* are dense unless retirement has passed the poll's first slot, and then  *)
(* the window keeps log_seq_start above its last.                          *)
THEOREM AcceptedCursorsAreComplete == FeedSpec => []AcceptedCursorIsComplete
<1>1. FeedInv => AcceptedCursorIsComplete
  <2> SUFFICES ASSUME FeedInv, NEW f \in Follower, Poll(f).pc = "get", Poll(f).cursor # NoCursor
               PROVE  follower[f].got =
                        [i \in 1 .. (Poll(f).cursor[2] - follower[f].origin + 1) |->
                           EntryAt(Poll(f).cursor[1], follower[f].origin + i - 1)]
    BY DEF AcceptedCursorIsComplete
  <2>1. follower[f] \in Followers /\ Poll(f) = follower[f].poll /\ CursorKnows(follower[f])
    BY PollFacts
  <2>2. Complete(follower[f])
    BY <2>1 DEF CursorKnows
  <2>3. follower[f].got \in Seq(Objects)
    BY <2>1 DEF Followers
  <2>4. follower[f].got = [i \in 1..Len(follower[f].got) |-> follower[f].got[i]]
    BY <2>3
  <2>5. QED
    BY <2>1, <2>2, <2>4 DEF Complete
<1>2. QED
  BY <1>1, FeedInvHolds, PTL

-----------------------------------------------------------------------------
(* The subscription pool: its types, and what each poll, loop, entry and   *)
(* read knows of the others.                                               *)

Versions == [Table -> Nat]

Entries ==
  [on : BOOLEAN, status : {"loading", "refreshing", "ok", "error"}, data : Versions,
   has : BOOLEAN, inFlight : Nat, parked : BOOLEAN]

Reads == [pc : {"free", "out", "read"}, aborted : BOOLEAN, data : Versions]

TablePolls == [refcount : Nat, loop : 0 .. MaxLoops, cursor : Nat, terminal : BOOLEAN,
               silent : BOOLEAN]

Loops ==
  [pc : {"free", "out", "answered", "backoff"}, aborted : BOOLEAN, req : Nat,
   answer : {"none", "schema", "events", "empty"}, next : Nat, attempt : 0 .. MaxAttempt,
   recovering : BOOLEAN]

LoopId == Table \X (1 .. MaxLoops)

PoolTypes ==
  /\ tableVer \in Versions /\ tableFloor \in Versions
  /\ mounted \in [Hook -> Sig \cup {Unmounted}]
  /\ cache \in [Sig -> Entries]
  /\ reads \in [ReadId -> Reads]
  /\ tablePolls \in [Table -> TablePolls]
  /\ loops \in [LoopId -> Loops]
  /\ laps \in [Table -> 0 .. MaxAttempt]

(* The poll object p of a table, with the hooks that watch the table, the  *)
(* loops that serve it and its commits.                                    *)
PollOk(p, watchers, live, ver) ==
  /\ p.refcount = Cardinality(watchers)
  /\ watchers = {} => p = NoPoll
  /\ live = IF p.loop = 0 THEN {} ELSE {p.loop}
  /\ p.terminal \/ p.silent <=> (watchers # {} /\ p.loop = 0)
  /\ ~(p.terminal /\ p.silent)
  /\ p.cursor <= ver

Watchers(t) == {h \in Hook : mounted[h] # Unmounted /\ t \in ChainTables[mounted[h]]}
LiveLoops(t) == {k \in 1 .. MaxLoops : loops[<<t, k>>].pc # "free" /\ ~loops[<<t, k>>].aborted}

(* A loop l: it asks from the cursor of the poll p, and only a loop that   *)
(* is recovering has laps behind it, no more than it has backed off.       *)
LoopOk(l, p, lap, ver) ==
  /\ l.pc # "answered" => l.answer = "none"
  /\ l.pc # "free" /\ ~l.aborted =>
       /\ l.pc \in {"out", "answered"} => l.req = p.cursor
       /\ l.answer = "empty" => l.next = l.req
       /\ l.next <= ver
       /\ lap <= l.attempt /\ (~l.recovering => lap = 0)

(* The entry e of a query, with the polls ps: parked exactly on a dead     *)
(* poll, and as fresh as the cursors.                                      *)
EntryOk(q, e, ps, ver) ==
  /\ e.on /\ terminalErrorFor(q, ps) => e.status = "error" /\ e.inFlight = 0
  /\ e.on /\ e.parked => terminalErrorFor(q, ps)
  /\ e.on /\ e.status = "ok" => \A t \in ChainTables[q] : ps[t].cursor <= e.data[t]
  /\ (\A t \in Table : e.data[t] <= ver[t]) /\ (e.has => e.on)

(* The k-th read r of a query with entry e: its data is the server's, and  *)
(* if it is the current one, no older than the cursors or the entry.       *)
ReadOk(q, k, e, r, ps, ver) ==
  r.pc = "read" =>
    /\ \A t \in Table : r.data[t] <= ver[t]
    /\ e.on /\ e.inFlight = k /\ ~r.aborted =>
         \A t \in ChainTables[q] : ps[t].cursor <= r.data[t] /\ (e.has => e.data[t] <= r.data[t])

PoolInv ==
  /\ PoolTypes
  /\ \A t \in Table : PollOk(tablePolls[t], Watchers(t), LiveLoops(t), tableVer[t])
  /\ \A l \in LoopId : LoopOk(loops[l], tablePolls[l[1]], laps[l[1]], tableVer[l[1]])
  /\ \A q \in Sig : /\ cache[q].on <=> Subs(q) # {}
                    /\ EntryOk(q, cache[q], tablePolls, tableVer)
  /\ \A f \in ReadId : ReadOk(f[1], f[2], cache[f[1]], reads[f], tablePolls, tableVer)
-----------------------------------------------------------------------------
(* Constants, and the values entries, reads and loops start with.          *)

LEMMA PoolFacts ==
  /\ ChainTables \in [Sig -> SUBSET Table] /\ Unmounted \notin Sig /\ IsFiniteSet(Hook)
  /\ \A q \in Sig : ChainTables[q] \subseteq Table
  /\ MaxCommits \in Nat /\ MaxReads \in [Sig -> Nat \ {0}] /\ MaxLoops \in Nat /\ MaxAttempt \in Nat
BY PoolAssumption

LEMMA ReadIdFacts ==
  /\ \A q \in Sig : \A k \in 1 .. MaxReads[q] : <<q, k>> \in ReadId
  /\ \A f \in ReadId : f[1] \in Sig /\ f[2] \in 1 .. MaxReads[f[1]] /\ f = <<f[1], f[2]>>
                       /\ f[2] \in Nat /\ f[2] # 0
<1>1. \A q \in Sig : MaxReads[q] \in Nat
  BY PoolFacts
<1>2. \A f \in ReadId : \E q \in Sig : \E k \in 1 .. MaxReads[q] : f = <<q, k>>
  BY DEF ReadId
<1>3. \A q \in Sig : \A k \in 1 .. MaxReads[q] : <<q, k>> \in ReadId
  BY DEF ReadId
<1>4. ASSUME NEW f \in ReadId
      PROVE  f[1] \in Sig /\ f[2] \in 1 .. MaxReads[f[1]] /\ f = <<f[1], f[2]>>
             /\ f[2] \in Nat /\ f[2] # 0
  <2>1. PICK q \in Sig : \E k \in 1 .. MaxReads[q] : f = <<q, k>>
    BY <1>2
  <2>2. PICK k \in 1 .. MaxReads[q] : f = <<q, k>>
    BY <2>1
  <2>3. QED
    BY <1>1, <2>2
<1>5. QED
  BY <1>3, <1>4

LEMMA StartValues ==
  /\ NoEntry \in Entries /\ NoRead \in Reads /\ NoPoll \in TablePolls /\ NoLoop \in Loops
  /\ NoEntry.on = FALSE /\ NoEntry.has = FALSE /\ NoEntry.inFlight = 0 /\ NoEntry.parked = FALSE
  /\ NoEntry.status = "loading" /\ \A t \in Table : NoEntry.data[t] = 0
  /\ NoRead.pc = "free" /\ NoPoll.refcount = 0 /\ NoPoll.loop = 0 /\ NoPoll.cursor = 0
  /\ NoPoll.terminal = FALSE /\ NoPoll.silent = FALSE /\ NoLoop.pc = "free" /\ NoLoop.answer = "none"
<1>1. [t \in Table |-> 0] \in Versions
  BY DEF Versions
<1>2. NoEntry \in Entries
  BY <1>1 DEF NoEntry, Entries
<1>3. NoRead \in Reads
  BY <1>1 DEF NoRead, Reads
<1>4. NoPoll \in TablePolls /\ NoLoop \in Loops
  BY PoolFacts DEF NoPoll, NoLoop, TablePolls, Loops, EmptyCursor
<1>5. /\ NoEntry.on = FALSE /\ NoEntry.has = FALSE /\ NoEntry.inFlight = 0 /\ NoEntry.parked = FALSE
      /\ NoEntry.status = "loading" /\ \A t \in Table : NoEntry.data[t] = 0
  BY DEF NoEntry
<1>6. /\ NoRead.pc = "free" /\ NoPoll.refcount = 0 /\ NoPoll.loop = 0 /\ NoPoll.cursor = 0
      /\ NoPoll.terminal = FALSE /\ NoPoll.silent = FALSE /\ NoLoop.pc = "free" /\ NoLoop.answer = "none"
  BY DEF NoRead, NoPoll, NoLoop, EmptyCursor
<1>7. QED
  BY <1>2, <1>3, <1>4, <1>5, <1>6

-----------------------------------------------------------------------------
(* dispatchFetch.                                                          *)

LEMMA FreeReadFacts ==
  ASSUME NEW q \in Sig, FreeRead(q) # {}
  PROVE  /\ Min(FreeRead(q)) \in FreeRead(q) /\ Min(FreeRead(q)) \in Nat /\ Min(FreeRead(q)) # 0
         /\ Min(FreeRead(q)) \in 1 .. MaxReads[q]
<1>1. FreeRead(q) \in SUBSET Nat /\ FreeRead(q) \subseteq 1 .. MaxReads[q] /\ MaxReads[q] \in Nat
  BY PoolFacts DEF FreeRead
<1>2. Min(FreeRead(q)) \in FreeRead(q)
  BY <1>1, MinIsLeast
<1>3. QED
  BY <1>1, <1>2

(* A fetched entry is as it should be.                                     *)
LEMMA FetchedOk ==
  ASSUME NEW q \in Sig, NEW e \in Entries, NEW ps, NEW ver \in Versions, FreeRead(q) # {}, e.on,
         terminalErrorFor(q, ps) => e.inFlight = 0, \A t \in Table : e.data[t] <= ver[t]
  PROVE  LET d == FetchedEntry(q, e, ps) IN
         /\ d \in Entries /\ d.on /\ d.data = e.data /\ d.has = e.has /\ d.status # "ok"
         /\ EntryOk(q, d, ps, ver)
         /\ terminalErrorFor(q, ps) => d.inFlight = 0
         /\ ~terminalErrorFor(q, ps) => d.inFlight = Min(FreeRead(q))
<1> DEFINE d == FetchedEntry(q, e, ps)
<1>1. PICK n \in Nat : n = Min(FreeRead(q))
  BY FreeReadFacts
<1>2. CASE terminalErrorFor(q, ps)
  <2>1. d = [e EXCEPT !.status = "error", !.parked = TRUE]
    BY <1>2 DEF FetchedEntry
  <2> HIDE DEF d
  <2>2. /\ d \in Entries /\ d.on = e.on /\ d.data = e.data /\ d.has = e.has /\ d.status = "error"
        /\ d.inFlight = e.inFlight
    BY <2>1 DEF Entries
  <2>3. QED
    BY <1>2, <2>2 DEF d, EntryOk
<1>3. CASE ~terminalErrorFor(q, ps)
  <2>1. PICK s \in {"refreshing", "loading"} :
          d = [e EXCEPT !.inFlight = n, !.parked = FALSE, !.status = s]
    BY <1>1, <1>3 DEF FetchedEntry
  <2> HIDE DEF d
  <2>2. /\ d \in Entries /\ d.on = e.on /\ d.data = e.data /\ d.has = e.has /\ d.status = s
        /\ d.inFlight = n /\ d.parked = FALSE
    BY <2>1 DEF Entries
  <2>3. QED
    BY <1>1, <1>3, <2>1, <2>2 DEF d, EntryOk
<1>4. QED
  BY <1>2, <1>3

(* What a dispatch for the signatures qs leaves behind, from the entries   *)
(* cs and with the polls ps.                                               *)
LEMMA DispatchOk ==
  ASSUME reads \in [ReadId -> Reads], NEW ver \in Versions, NEW qs \in SUBSET Sig,
         NEW cs \in [Sig -> Entries], NEW ps, CanDispatch(qs),
         \A q \in Sig : /\ q \in qs /\ cs[q].on =>
                             /\ terminalErrorFor(q, ps) => cs[q].inFlight = 0
                             /\ \A t \in Table : cs[q].data[t] <= ver[t]
                        /\ ~(q \in qs /\ cs[q].on) => EntryOk(q, cs[q], ps, ver),
         \A f \in ReadId : ~(f[1] \in qs /\ cs[f[1]].on) =>
                             ReadOk(f[1], f[2], cs[f[1]], reads[f], ps, ver),
         \A f \in ReadId : reads[f].pc = "read" => \A t \in Table : reads[f].data[t] <= ver[t]
  PROVE  LET cs2 == DispatchCache(qs, cs, ps)
             rs2 == DispatchReads(qs, cs, ps)
         IN /\ cs2 \in [Sig -> Entries] /\ rs2 \in [ReadId -> Reads]
            /\ \A q \in Sig : /\ cs2[q].on <=> cs[q].on
                              /\ cs2[q].data = cs[q].data /\ cs2[q].has = cs[q].has
                              /\ EntryOk(q, cs2[q], ps, ver)
            /\ \A f \in ReadId : ReadOk(f[1], f[2], cs2[f[1]], rs2[f], ps, ver)
<1> DEFINE cs2 == DispatchCache(qs, cs, ps)
           rs2 == DispatchReads(qs, cs, ps)
<1>1. ASSUME NEW q \in Sig
      PROVE  /\ cs2[q] \in Entries /\ (cs2[q].on <=> cs[q].on) /\ cs2[q].data = cs[q].data
             /\ cs2[q].has = cs[q].has /\ EntryOk(q, cs2[q], ps, ver)
             /\ q \in qs /\ cs[q].on /\ terminalErrorFor(q, ps) => cs2[q].inFlight = 0
             /\ q \in qs /\ cs[q].on /\ ~terminalErrorFor(q, ps) => cs2[q].inFlight = Min(FreeRead(q))
             /\ ~(q \in qs /\ cs[q].on) => cs2[q] = cs[q]
  <2>1. CASE q \in qs /\ cs[q].on
    <3>1. cs2[q] = FetchedEntry(q, cs[q], ps)
      BY <2>1 DEF DispatchCache
    <3>2. FreeRead(q) # {} /\ cs[q] \in Entries
      BY <2>1 DEF CanDispatch
    <3>3. PICK e \in Entries : e = cs[q]
      BY <3>2
    <3>4. e.on /\ (terminalErrorFor(q, ps) => e.inFlight = 0) /\ \A t \in Table : e.data[t] <= ver[t]
      BY <2>1, <3>3
    <3> DEFINE d == FetchedEntry(q, e, ps)
    <3>5. /\ d \in Entries /\ d.on /\ d.data = e.data /\ d.has = e.has /\ EntryOk(q, d, ps, ver)
          /\ terminalErrorFor(q, ps) => d.inFlight = 0
          /\ ~terminalErrorFor(q, ps) => d.inFlight = Min(FreeRead(q))
      BY <3>2, <3>4, FetchedOk
    <3>6. cs2[q] = d
      BY <3>1, <3>3
    <3> HIDE DEF d, cs2
    <3>7. /\ cs2[q] \in Entries /\ cs2[q].on /\ cs2[q].data = e.data /\ cs2[q].has = e.has
          /\ EntryOk(q, cs2[q], ps, ver)
          /\ terminalErrorFor(q, ps) => cs2[q].inFlight = 0
          /\ ~terminalErrorFor(q, ps) => cs2[q].inFlight = Min(FreeRead(q))
      BY <3>5, <3>6
    <3>8. QED
      BY <2>1, <3>3, <3>4, <3>7
  <2>2. CASE ~(q \in qs /\ cs[q].on)
    <3>1. cs2[q] = cs[q]
      BY <2>2 DEF DispatchCache
    <3>2. QED
      BY <2>2, <3>1
  <2>3. QED
    BY <2>1, <2>2
<1>2. cs2 \in [Sig -> Entries]
  <2>1. \A q \in Sig : cs2[q] \in Entries
    BY <1>1
  <2>2. cs2 = [q \in Sig |-> cs2[q]]
    BY DEF DispatchCache
  <2>3. QED
    BY <2>1, <2>2
<1>3. ASSUME NEW f \in ReadId
      PROVE  rs2[f] \in Reads /\ ReadOk(f[1], f[2], cs2[f[1]], rs2[f], ps, ver)
  <2>1. PICK q \in Sig, k \in Nat : f[1] = q /\ f[2] = k /\ k # 0 /\ f = <<q, k>> /\ reads[f] \in Reads
    BY ReadIdFacts
  <2>2. CASE ~(q \in qs /\ cs[q].on)
    <3>1. rs2[f] = reads[f] /\ cs2[q] = cs[q]
      BY <1>1, <2>1, <2>2 DEF DispatchReads
    <3>2. QED
      BY <2>1, <2>2, <3>1
  <2>3. CASE q \in qs /\ cs[q].on /\ terminalErrorFor(q, ps)
    <3>1. rs2[f] = reads[f] /\ cs2[q].inFlight = 0
      BY <1>1, <2>1, <2>3 DEF DispatchReads
    <3>2. QED
      BY <2>1, <3>1 DEF ReadOk
  <2>4. CASE q \in qs /\ cs[q].on /\ ~terminalErrorFor(q, ps)
    <3>1. PICK n \in Nat : n = Min(FreeRead(q))
      BY <2>4, FreeReadFacts DEF CanDispatch
    <3>2. cs2[q].inFlight = n
      BY <1>1, <2>4, <3>1
    <3>3. rs2[f] = IF k = n THEN [NoRead EXCEPT !.pc = "out"]
                   ELSE IF k = cs[q].inFlight THEN [reads[f] EXCEPT !.aborted = TRUE]
                   ELSE reads[f]
      BY <2>1, <2>4, <3>1 DEF DispatchReads
    <3> HIDE DEF rs2, cs2
    <3>4. CASE k = n
      <4>1. rs2[f] = [NoRead EXCEPT !.pc = "out"]
        BY <3>3, <3>4
      <4>2. rs2[f] \in Reads /\ rs2[f].pc = "out"
        BY <4>1, StartValues DEF Reads
      <4>3. QED
        BY <4>2 DEF ReadOk
    <3>5. CASE k # n
      <4>1. rs2[f] \in {[reads[f] EXCEPT !.aborted = TRUE], reads[f]}
        BY <3>3, <3>5
      <4>2. rs2[f] \in Reads /\ rs2[f].pc = reads[f].pc /\ rs2[f].data = reads[f].data
        BY <2>1, <4>1 DEF Reads
      <4>3. QED
        BY <2>1, <3>2, <3>5, <4>2 DEF ReadOk
    <3>6. QED
      BY <3>4, <3>5
  <2>5. QED
    BY <2>2, <2>3, <2>4
<1>4. rs2 \in [ReadId -> Reads]
  <2>1. rs2 = [f \in ReadId |-> rs2[f]]
    BY DEF DispatchReads
  <2>2. QED
    BY <1>3, <2>1
<1>5. QED
  BY <1>1, <1>2, <1>3, <1>4

-----------------------------------------------------------------------------
(* The parts of the state an action leaves alone.                          *)

(* The server may move on under everything else.                           *)
LEMMA ServerStep ==
  ASSUME PoolInv, tableVer' \in Versions, tableFloor' \in Versions,
         \A t \in Table : tableVer[t] <= tableVer'[t],
         UNCHANGED <<mounted, cache, reads, tablePolls, loops, laps>>
  PROVE  PoolInv'
<1>1. PoolTypes'
  BY DEF PoolInv, PoolTypes
<1>2. \A t \in Table : tableVer[t] \in Nat /\ tableVer'[t] \in Nat
  BY DEF PoolInv, PoolTypes, Versions
<1>3. ASSUME NEW t \in Table PROVE PollOk(tablePolls[t], Watchers(t), LiveLoops(t), tableVer[t])'
  <2>1. PollOk(tablePolls[t], Watchers(t), LiveLoops(t), tableVer[t]) /\ tablePolls[t].cursor \in Nat
    BY DEF PoolInv, PoolTypes, TablePolls
  <2>2. Watchers(t)' = Watchers(t) /\ LiveLoops(t)' = LiveLoops(t) /\ tablePolls'[t] = tablePolls[t]
    BY DEF Watchers, LiveLoops
  <2>3. QED
    BY <1>2, <2>1, <2>2 DEF PollOk
<1>4. ASSUME NEW l \in LoopId
      PROVE  LoopOk(loops[l], tablePolls[l[1]], laps[l[1]], tableVer[l[1]])'
  <2>1. LoopOk(loops[l], tablePolls[l[1]], laps[l[1]], tableVer[l[1]]) /\ loops[l].next \in Nat
        /\ l[1] \in Table
    BY DEF PoolInv, PoolTypes, Loops, LoopId
  <2>2. QED
    BY <1>2, <2>1 DEF LoopOk
<1>5. ASSUME NEW q \in Sig
      PROVE  (cache'[q].on <=> Subs(q)' # {}) /\ EntryOk(q, cache[q], tablePolls, tableVer)'
  <2>1. /\ (cache[q].on <=> Subs(q) # {}) /\ EntryOk(q, cache[q], tablePolls, tableVer)
        /\ \A t \in Table : cache[q].data[t] \in Nat
    BY DEF PoolInv, PoolTypes, Entries, Versions
  <2>2. QED
    BY <1>2, <2>1 DEF EntryOk, Subs
<1>6. ASSUME NEW f \in ReadId
      PROVE  ReadOk(f[1], f[2], cache[f[1]], reads[f], tablePolls, tableVer)'
  <2>1. /\ ReadOk(f[1], f[2], cache[f[1]], reads[f], tablePolls, tableVer)
        /\ \A t \in Table : reads[f].data[t] \in Nat
    BY DEF PoolInv, PoolTypes, Reads, Versions
  <2>2. QED
    BY <1>2, <2>1 DEF ReadOk
<1>7. QED
  BY <1>1, <1>3, <1>4, <1>5, <1>6 DEF PoolInv

LEMMA ServerCommitInv == ASSUME PoolInv, NEW t \in Table, ServerCommit(t) PROVE PoolInv'
<1>1. tableVer \in Versions /\ tableFloor \in Versions
  BY DEF PoolInv, PoolTypes
<1>2. tableVer' \in Versions /\ \A u \in Table : tableVer[u] <= tableVer'[u]
  BY <1>1 DEF ServerCommit, Versions
<1>3. QED
  BY <1>1, <1>2, ServerStep DEF ServerCommit

LEMMA ServerFoldInv == ASSUME PoolInv, NEW t \in Table, ServerFold(t) PROVE PoolInv'
<1>1. tableVer \in Versions /\ tableFloor \in Versions
  BY DEF PoolInv, PoolTypes
<1>2. tableFloor' \in Versions /\ tableVer' = tableVer
  BY <1>1 DEF ServerFold, Versions
<1>3. tableVer' \in Versions /\ \A u \in Table : tableVer[u] <= tableVer'[u]
  BY <1>1, <1>2 DEF Versions
<1>4. QED
  BY <1>2, <1>3, ServerStep DEF ServerFold

(* One entry and one read of its query change.                             *)
LEMMA ReadStep ==
  ASSUME PoolInv, NEW q \in Sig, NEW k \in Nat, <<q, k>> \in ReadId, NEW e \in Entries, NEW r \in Reads,
         UNCHANGED <<tableVer, tableFloor, mounted, tablePolls, loops, laps>>,
         reads' = [reads EXCEPT ![<<q, k>>] = r], cache' = [cache EXCEPT ![q] = e],
         e.on <=> cache[q].on, EntryOk(q, e, tablePolls, tableVer),
         ReadOk(q, k, e, r, tablePolls, tableVer),
         e = cache[q] \/ e.inFlight = 0
  PROVE  PoolInv'
<1>1. /\ reads \in [ReadId -> Reads] /\ cache \in [Sig -> Entries] /\ cache'[q] = e
      /\ \A p \in Sig \ {q} : cache'[p] = cache[p]
  BY DEF PoolInv, PoolTypes
<1>2. PoolTypes'
  BY <1>1 DEF PoolInv, PoolTypes
<1>3. ASSUME NEW t \in Table PROVE PollOk(tablePolls[t], Watchers(t), LiveLoops(t), tableVer[t])'
  <2>1. Watchers(t)' = Watchers(t) /\ LiveLoops(t)' = LiveLoops(t)
    BY DEF Watchers, LiveLoops
  <2>2. QED
    BY <2>1 DEF PoolInv
<1>4. ASSUME NEW l \in LoopId
      PROVE  LoopOk(loops[l], tablePolls[l[1]], laps[l[1]], tableVer[l[1]])'
  BY DEF PoolInv
<1>5. ASSUME NEW p \in Sig
      PROVE  (cache'[p].on <=> Subs(p)' # {}) /\ EntryOk(p, cache[p], tablePolls, tableVer)'
  <2>1. (cache[p].on <=> Subs(p) # {}) /\ EntryOk(p, cache[p], tablePolls, tableVer)
        /\ Subs(p)' = Subs(p)
    BY DEF PoolInv, Subs
  <2>2. CASE p = q
    BY <1>1, <2>1, <2>2 DEF EntryOk
  <2>3. CASE p # q
    BY <1>1, <2>1, <2>3 DEF EntryOk
  <2>4. QED
    BY <2>2, <2>3
<1>6. ASSUME NEW f \in ReadId
      PROVE  ReadOk(f[1], f[2], cache[f[1]], reads[f], tablePolls, tableVer)'
  <2>1. f[1] \in Sig /\ f = <<f[1], f[2]>> /\ f[2] # 0
    BY ReadIdFacts
  <2>2. ReadOk(f[1], f[2], cache[f[1]], reads[f], tablePolls, tableVer)
    BY DEF PoolInv
  <2>3. CASE f = <<q, k>>
    <3>1. reads'[f] = r /\ f[1] = q /\ f[2] = k
      BY <1>1, <2>3
    <3>2. QED
      BY <1>1, <3>1
  <2>4. CASE f # <<q, k>>
    <3>1. reads'[f] = reads[f]
      BY <1>1, <2>4
    <3>2. cache'[f[1]] = cache[f[1]] \/ cache'[f[1]].inFlight = 0
      BY <1>1, <2>1
    <3>3. QED
      BY <2>1, <2>2, <3>1, <3>2 DEF ReadOk
  <2>5. QED
    BY <2>3, <2>4
<1>7. QED
  BY <1>2, <1>3, <1>4, <1>5, <1>6 DEF PoolInv

(* What is known of a read and its entry.                                  *)
LEMMA OwnRead ==
  ASSUME PoolInv, NEW f \in ReadId
  PROVE  /\ f[1] \in Sig /\ f[2] \in Nat /\ f[2] # 0 /\ f = <<f[1], f[2]>>
         /\ cache[f[1]] \in Entries /\ reads[f] \in Reads /\ tableVer \in Versions
         /\ ReadOk(f[1], f[2], cache[f[1]], reads[f], tablePolls, tableVer)
         /\ EntryOk(f[1], cache[f[1]], tablePolls, tableVer)
         /\ cache \in [Sig -> Entries] /\ reads \in [ReadId -> Reads]
         /\ \A t \in Table : tableVer[t] \in Nat /\ tablePolls[t].cursor \in Nat
                             /\ tablePolls[t].cursor <= tableVer[t]
<1>1. \A t \in Table : PollOk(tablePolls[t], Watchers(t), LiveLoops(t), tableVer[t])
  BY DEF PoolInv
<1>2. QED
  BY <1>1, ReadIdFacts DEF PoolInv, PoolTypes, PollOk, TablePolls, Versions

LEMMA ServerReadInv ==
  ASSUME PoolInv, NEW f \in ReadId, ServerRead(f[1], f[2]) PROVE PoolInv'
<1>1. PICK q \in Sig, k \in Nat : q = f[1] /\ k = f[2] /\ f = <<q, k>>
  BY OwnRead
<1> DEFINE e == cache[q]
           r == [reads[f] EXCEPT !.pc = "read", !.data = tableVer]
<1>2. /\ r \in Reads /\ r.pc = "read" /\ r.data = tableVer
      /\ reads' = [reads EXCEPT ![<<q, k>>] = r]
  BY <1>1, OwnRead DEF ServerRead, Reads
<1>3. e \in Entries /\ cache' = [cache EXCEPT ![q] = e] /\ EntryOk(q, e, tablePolls, tableVer)
  BY <1>1, OwnRead DEF ServerRead
<1> HIDE DEF r
<1>4. ReadOk(q, k, e, r, tablePolls, tableVer)
  <2>1. \A t \in Table : e.data[t] <= tableVer[t] /\ tablePolls[t].cursor <= tableVer[t]
                         /\ tableVer[t] <= tableVer[t]
    BY <1>1, <1>3, OwnRead DEF EntryOk
  <2>2. ChainTables[q] \subseteq Table
    BY PoolFacts
  <2>3. QED
    BY <1>2, <2>1, <2>2 DEF ReadOk
<1>5. UNCHANGED <<tableVer, tableFloor, mounted, tablePolls, loops, laps>>
  BY DEF ServerRead
<1>6. QED
  BY <1>1, <1>2, <1>3, <1>4, <1>5, ReadStep

LEMMA FetchArrivesInv ==
  ASSUME PoolInv, NEW f \in ReadId, FetchArrives(f[1], f[2]) PROVE PoolInv'
<1>1. PICK q \in Sig, k \in Nat : q = f[1] /\ k = f[2] /\ f = <<q, k>> /\ k # 0
  BY OwnRead
<1>2. PICK r \in Reads : r = reads[f] /\ r.pc = "read"
  BY <1>1, OwnRead DEF FetchArrives
<1>3. PICK c \in Entries : c = cache[q] /\ EntryOk(q, c, tablePolls, tableVer)
                           /\ ReadOk(q, k, c, r, tablePolls, tableVer)
  BY <1>1, <1>2, OwnRead
<1> DEFINE e == IF Current(q, k)
                THEN [c EXCEPT !.status = "ok", !.data = r.data, !.has = TRUE, !.inFlight = 0]
                ELSE c
<1>4. e \in Entries /\ e.on = c.on /\ EntryOk(q, e, tablePolls, tableVer)
      /\ (e = cache[q] \/ e.inFlight = 0)
  <2>1. CASE ~Current(q, k)
    BY <1>3, <2>1
  <2>2. CASE Current(q, k)
    <3>1. ~r.aborted /\ c.on /\ c.inFlight = k
      BY <1>1, <1>2, <1>3, <2>2 DEF Current
    <3>2. /\ e \in Entries /\ e.on = c.on /\ e.status = "ok" /\ e.data = r.data /\ e.inFlight = 0
          /\ e.parked = c.parked
      BY <2>2 DEF Entries, Reads
    <3> HIDE DEF e
    <3>3. /\ \A t \in Table : r.data[t] <= tableVer[t]
          /\ \A t \in ChainTables[q] : tablePolls[t].cursor <= r.data[t]
      BY <1>2, <1>3, <3>1 DEF ReadOk
    <3>4. ~terminalErrorFor(q, tablePolls)
      BY <1>1, <1>3, <3>1 DEF EntryOk
    <3>5. EntryOk(q, e, tablePolls, tableVer)
      BY <1>3, <3>1, <3>2, <3>3, <3>4 DEF EntryOk
    <3>6. QED
      BY <3>2, <3>5
  <2>3. QED
    BY <2>1, <2>2
<1>5. cache' = [cache EXCEPT ![q] = e] /\ reads' = [reads EXCEPT ![<<q, k>>] = NoRead]
  BY <1>1, <1>2, <1>3, OwnRead DEF FetchArrives
<1> HIDE DEF e
<1>6. NoRead \in Reads /\ ReadOk(q, k, e, NoRead, tablePolls, tableVer)
  BY StartValues DEF ReadOk
<1>7. UNCHANGED <<tableVer, tableFloor, mounted, tablePolls, loops, laps>>
  BY DEF FetchArrives
<1>8. QED
  BY <1>1, <1>3, <1>4, <1>5, <1>6, <1>7, ReadStep

LEMMA FetchFailsInv ==
  ASSUME PoolInv, NEW f \in ReadId, FetchFails(f[1], f[2]) PROVE PoolInv'
<1>1. PICK q \in Sig, k \in Nat : q = f[1] /\ k = f[2] /\ f = <<q, k>> /\ k # 0
  BY OwnRead
<1>2. PICK c \in Entries : c = cache[q] /\ EntryOk(q, c, tablePolls, tableVer)
  BY <1>1, OwnRead
<1> DEFINE e == IF Current(q, k) THEN [c EXCEPT !.status = "error", !.inFlight = 0] ELSE c
<1>3. e \in Entries /\ e.on = c.on /\ EntryOk(q, e, tablePolls, tableVer)
      /\ (e = cache[q] \/ e.inFlight = 0)
  <2>1. CASE ~Current(q, k)
    BY <1>2, <2>1
  <2>2. CASE Current(q, k)
    <3>1. /\ e \in Entries /\ e.on = c.on /\ e.status = "error" /\ e.data = c.data /\ e.inFlight = 0
          /\ e.parked = c.parked /\ e.has = c.has
      BY <2>2 DEF Entries
    <3> HIDE DEF e
    <3>2. QED
      BY <1>2, <3>1 DEF EntryOk
  <2>3. QED
    BY <2>1, <2>2
<1>4. cache' = [cache EXCEPT ![q] = e] /\ reads' = [reads EXCEPT ![<<q, k>>] = NoRead]
  BY <1>1, <1>2, OwnRead DEF FetchFails
<1> HIDE DEF e
<1>5. NoRead \in Reads /\ ReadOk(q, k, e, NoRead, tablePolls, tableVer)
  BY StartValues DEF ReadOk
<1>6. UNCHANGED <<tableVer, tableFloor, mounted, tablePolls, loops, laps>>
  BY DEF FetchFails
<1>7. QED
  BY <1>1, <1>2, <1>3, <1>4, <1>5, <1>6, ReadStep

-----------------------------------------------------------------------------
(* The poll loop.                                                          *)

(* What is known of a loop that is not aborted: it is its table's loop.    *)
LEMMA OwnLoop ==
  ASSUME PoolInv, NEW t \in Table, NEW k \in 1 .. MaxLoops, loops[<<t, k>>].pc # "free",
         ~loops[<<t, k>>].aborted
  PROVE  /\ tablePolls[t].loop = k /\ LiveLoops(t) = {k} /\ Watchers(t) # {}
         /\ ~tablePolls[t].terminal /\ ~tablePolls[t].silent
<1>1. PollOk(tablePolls[t], Watchers(t), LiveLoops(t), tableVer[t])
  BY DEF PoolInv
<1>2. k \in LiveLoops(t)
  BY DEF LiveLoops
<1>3. tablePolls[t].loop = k /\ LiveLoops(t) = {k}
  BY <1>1, <1>2 DEF PollOk
<1>4. k # 0
  BY PoolFacts
<1>5. tablePolls[t] # NoPoll
  BY <1>3, <1>4, StartValues
<1>6. QED
  BY <1>1, <1>3, <1>4, <1>5 DEF PollOk

LEMMA LoopTypes ==
  ASSUME PoolInv, NEW t \in Table, NEW k \in 1 .. MaxLoops
  PROVE  /\ <<t, k>> \in LoopId /\ loops[<<t, k>>] \in Loops /\ loops \in [LoopId -> Loops]
         /\ LoopOk(loops[<<t, k>>], tablePolls[t], laps[t], tableVer[t])
         /\ tablePolls[t] \in TablePolls /\ laps[t] \in 0 .. MaxAttempt /\ tableVer[t] \in Nat
         /\ tableFloor[t] \in Nat
<1>1. <<t, k>> \in LoopId /\ <<t, k>>[1] = t
  BY DEF LoopId
<1>2. QED
  BY <1>1 DEF PoolInv, PoolTypes, Versions

(* The loop takes the value l; the poll's cursor becomes c and the laps    *)
(* are counted up or reset; queries are read again if the cursor rises.    *)
LEMMA LoopStep ==
  ASSUME PoolInv, NEW t \in Table, NEW k \in 1 .. MaxLoops, NEW l \in Loops, NEW c \in Nat,
         NEW lap \in 0 .. MaxAttempt, NEW qs \in SUBSET Sig,
         UNCHANGED <<tableVer, tableFloor, mounted>>, CanDispatch(qs),
         loops' = [loops EXCEPT ![<<t, k>>] = l], laps' = [laps EXCEPT ![t] = lap],
         tablePolls' = [tablePolls EXCEPT ![t].cursor = c],
         cache' = DispatchCache(qs, cache, tablePolls'),
         reads' = DispatchReads(qs, cache, tablePolls'),
         (l.pc # "free" /\ ~l.aborted) <=> (loops[<<t, k>>].pc # "free" /\ ~loops[<<t, k>>].aborted),
         LoopOk(l, tablePolls'[t], lap, tableVer[t]),
         c <= tableVer[t], qs = Visible(t) \/ c = tablePolls[t].cursor \/ c = 0,
         \/ loops[<<t, k>>].pc # "free" /\ ~loops[<<t, k>>].aborted
         \/ c = tablePolls[t].cursor /\ lap = laps[t]
  PROVE  PoolInv' /\ \A q \in Sig : cache'[q].data = cache[q].data
<1>1. /\ <<t, k>> \in LoopId /\ loops \in [LoopId -> Loops] /\ tablePolls \in [Table -> TablePolls]
      /\ tableVer \in Versions /\ laps \in [Table -> 0 .. MaxAttempt] /\ cache \in [Sig -> Entries]
      /\ reads \in [ReadId -> Reads]
  BY LoopTypes DEF PoolInv, PoolTypes
<1>2. \A u \in Table : /\ tablePolls'[u] \in TablePolls
                       /\ tablePolls'[u].refcount = tablePolls[u].refcount
                       /\ tablePolls'[u].loop = tablePolls[u].loop
                       /\ tablePolls'[u].terminal = tablePolls[u].terminal
                       /\ tablePolls'[u].silent = tablePolls[u].silent
                       /\ u # t => tablePolls'[u] = tablePolls[u]
                       /\ tablePolls'[t].cursor = c
                       /\ tablePolls[u].cursor \in Nat /\ tableVer[u] \in Nat
  BY <1>1 DEF TablePolls, Versions
<1>3. tablePolls' \in [Table -> TablePolls]
  BY <1>1, <1>2
<1>4. \A q \in Sig : terminalErrorFor(q, tablePolls') <=> terminalErrorFor(q, tablePolls)
  BY <1>2, PoolFacts DEF terminalErrorFor
<1>5. \A q \in Sig : cache[q].on <=> Subs(q) # {}
  BY DEF PoolInv
<1>6. ASSUME NEW q \in Sig
      PROVE  /\ EntryOk(q, cache[q], tablePolls, tableVer)
             /\ q \in qs /\ cache[q].on =>
                  /\ terminalErrorFor(q, tablePolls') => cache[q].inFlight = 0
                  /\ \A u \in Table : cache[q].data[u] <= tableVer[u]
             /\ ~(q \in qs /\ cache[q].on) =>
                  /\ EntryOk(q, cache[q], tablePolls', tableVer)
                  /\ cache[q].on => \A u \in ChainTables[q] : tablePolls'[u].cursor <= tablePolls[u].cursor
  <2>1. EntryOk(q, cache[q], tablePolls, tableVer) /\ cache[q] \in Entries
    BY <1>1 DEF PoolInv
  <2>2. /\ terminalErrorFor(q, tablePolls') /\ cache[q].on => cache[q].inFlight = 0
        /\ \A u \in Table : cache[q].data[u] <= tableVer[u]
    BY <1>4, <2>1 DEF EntryOk
  <2>3. ASSUME ~(q \in qs /\ cache[q].on), cache[q].on, NEW u \in ChainTables[q]
        PROVE  tablePolls'[u].cursor <= tablePolls[u].cursor
    <3>1. u \in Table
      BY PoolFacts
    <3>2. CASE u # t
      BY <1>2, <3>1, <3>2
    <3>3. CASE u = t
      <4>1. q \in Visible(t)
        BY <1>5, <2>3, <3>3 DEF Visible
      <4>2. c = tablePolls[t].cursor \/ c = 0
        BY <2>3, <4>1
      <4>3. QED
        BY <1>2, <3>3, <4>2
    <3>4. QED
      BY <3>2, <3>3
  <2>4. ASSUME ~(q \in qs /\ cache[q].on) PROVE EntryOk(q, cache[q], tablePolls', tableVer)
    <3>1. ASSUME cache[q].on, cache[q].status = "ok", NEW u \in ChainTables[q]
          PROVE  tablePolls'[u].cursor <= cache[q].data[u]
      <4>1. u \in Table
        BY PoolFacts
      <4>2. tablePolls[u].cursor <= cache[q].data[u]
        BY <2>1, <3>1 DEF EntryOk
      <4>3. tablePolls'[u].cursor <= tablePolls[u].cursor
        BY <2>3, <2>4, <3>1
      <4>4. cache[q].data[u] \in Nat /\ tablePolls[u].cursor \in Nat /\ tablePolls'[u].cursor \in Nat
        BY <1>2, <2>1, <4>1 DEF Entries, Versions, TablePolls
      <4>5. QED
        BY <4>2, <4>3, <4>4
    <3>2. QED
      BY <1>4, <2>1, <3>1 DEF EntryOk
  <2>5. QED
    BY <2>1, <2>2, <2>3, <2>4
<1>7. ASSUME NEW f \in ReadId
      PROVE  /\ ~(f[1] \in qs /\ cache[f[1]].on) =>
                  ReadOk(f[1], f[2], cache[f[1]], reads[f], tablePolls', tableVer)
             /\ reads[f].pc = "read" => \A u \in Table : reads[f].data[u] <= tableVer[u]
  <2>1. /\ ReadOk(f[1], f[2], cache[f[1]], reads[f], tablePolls, tableVer) /\ f[1] \in Sig
        /\ reads[f] \in Reads
    BY OwnRead
  <2>2. ASSUME ~(f[1] \in qs /\ cache[f[1]].on), reads[f].pc = "read", cache[f[1]].on,
               cache[f[1]].inFlight = f[2], ~reads[f].aborted, NEW u \in ChainTables[f[1]]
        PROVE  tablePolls'[u].cursor <= reads[f].data[u]
    <3>1. tablePolls[u].cursor <= reads[f].data[u]
      BY <2>1, <2>2 DEF ReadOk
    <3>2. tablePolls'[u].cursor <= tablePolls[u].cursor
      BY <1>6, <2>1, <2>2
    <3>3. u \in Table
      BY <2>1, PoolFacts
    <3>4. reads[f].data[u] \in Nat /\ tablePolls[u].cursor \in Nat /\ tablePolls'[u].cursor \in Nat
      BY <1>2, <2>1, <3>3 DEF Reads, Versions, TablePolls
    <3>5. QED
      BY <3>1, <3>2, <3>4
  <2>3. QED
    BY <2>1, <2>2 DEF ReadOk
<1>8. /\ cache' \in [Sig -> Entries] /\ reads' \in [ReadId -> Reads]
      /\ \A q \in Sig : /\ cache'[q].on <=> cache[q].on
                        /\ cache'[q].data = cache[q].data /\ cache'[q].has = cache[q].has
                        /\ EntryOk(q, cache'[q], tablePolls', tableVer)
      /\ \A f \in ReadId : ReadOk(f[1], f[2], cache'[f[1]], reads'[f], tablePolls', tableVer)
  <2>1. PICK ps : ps = tablePolls'
    OBVIOUS
  <2>2. \A q \in Sig : /\ q \in qs /\ cache[q].on =>
                            /\ terminalErrorFor(q, ps) => cache[q].inFlight = 0
                            /\ \A u \in Table : cache[q].data[u] <= tableVer[u]
                       /\ ~(q \in qs /\ cache[q].on) => EntryOk(q, cache[q], ps, tableVer)
    BY <1>6, <2>1
  <2>3. /\ \A f \in ReadId : ~(f[1] \in qs /\ cache[f[1]].on) =>
                               ReadOk(f[1], f[2], cache[f[1]], reads[f], ps, tableVer)
        /\ \A f \in ReadId : reads[f].pc = "read" => \A u \in Table : reads[f].data[u] <= tableVer[u]
    BY <1>7, <2>1
  <2> DEFINE cs2 == DispatchCache(qs, cache, ps)
             rs2 == DispatchReads(qs, cache, ps)
  <2>4. /\ cs2 \in [Sig -> Entries] /\ rs2 \in [ReadId -> Reads]
        /\ \A q \in Sig : /\ cs2[q].on <=> cache[q].on
                          /\ cs2[q].data = cache[q].data /\ cs2[q].has = cache[q].has
                          /\ EntryOk(q, cs2[q], ps, tableVer)
        /\ \A f \in ReadId : ReadOk(f[1], f[2], cs2[f[1]], rs2[f], ps, tableVer)
    BY <1>1, <2>2, <2>3, DispatchOk
  <2>5. cache' = cs2 /\ reads' = rs2
    BY <2>1
  <2> HIDE DEF cs2, rs2
  <2>6. QED
    BY <2>1, <2>4, <2>5
<1>9. PoolTypes'
  <2>1. loops' \in [LoopId -> Loops] /\ laps' \in [Table -> 0 .. MaxAttempt]
    BY <1>1
  <2>2. QED
    BY <1>3, <1>8, <2>1 DEF PoolInv, PoolTypes
<1>10. ASSUME NEW u \in Table PROVE PollOk(tablePolls[u], Watchers(u), LiveLoops(u), tableVer[u])'
  <2>1. Watchers(u)' = Watchers(u)
    BY DEF Watchers
  <2>2. LiveLoops(u)' = LiveLoops(u)
    <3>1. \A j \in 1 .. MaxLoops : <<u, j>> \in LoopId /\ (<<u, j>> = <<t, k>> <=> u = t /\ j = k)
      BY DEF LoopId
    <3>2. \A j \in 1 .. MaxLoops : (loops'[<<u, j>>].pc # "free" /\ ~loops'[<<u, j>>].aborted) <=>
                                   (loops[<<u, j>>].pc # "free" /\ ~loops[<<u, j>>].aborted)
      BY <1>1, <3>1
    <3>3. QED
      BY <3>2 DEF LiveLoops
  <2>3. PollOk(tablePolls[u], Watchers(u), LiveLoops(u), tableVer[u])
    BY DEF PoolInv
  <2>4. CASE u # t
    BY <1>2, <2>1, <2>2, <2>3, <2>4
  <2>5. CASE u = t
    <3>1. CASE loops[<<t, k>>].pc # "free" /\ ~loops[<<t, k>>].aborted
      <4>1. Watchers(t) # {}
        BY <3>1, OwnLoop
      <4>2. QED
        BY <1>2, <2>1, <2>2, <2>3, <2>5, <4>1 DEF PollOk
    <3>2. CASE c = tablePolls[t].cursor
      <4>1. tablePolls'[t] = tablePolls[t]
        BY <1>1, <3>2 DEF TablePolls
      <4>2. QED
        BY <2>1, <2>2, <2>3, <2>5, <4>1
    <3>3. QED
      BY <3>1, <3>2
  <2>6. QED
    BY <2>4, <2>5
<1>11. ASSUME NEW i \in LoopId
       PROVE  LoopOk(loops[i], tablePolls[i[1]], laps[i[1]], tableVer[i[1]])'
  <2>1. PICK u \in Table, j \in 1 .. MaxLoops : i = <<u, j>> /\ i[1] = u
    BY DEF LoopId
  <2>2. LoopOk(loops[i], tablePolls[u], laps[u], tableVer[u])
    BY <2>1, LoopTypes
  <2>3. CASE u # t
    <3>1. loops'[i] = loops[i] /\ laps'[u] = laps[u] /\ tablePolls'[u] = tablePolls[u]
      BY <1>1, <1>2, <2>1, <2>3
    <3>2. QED
      BY <2>1, <2>2, <3>1
  <2>4. CASE u = t /\ j = k
    <3>1. loops'[i] = l /\ laps'[u] = lap
      BY <1>1, <2>1, <2>4
    <3>2. QED
      BY <2>1, <2>4, <3>1
  <2>5. CASE u = t /\ j # k
    <3>1. loops'[i] = loops[i] /\ <<t, j>> \in LoopId
      BY <1>1, <2>1, <2>5
    <3>2. CASE loops[<<t, k>>].pc # "free" /\ ~loops[<<t, k>>].aborted
      <4>1. j \notin LiveLoops(t)
        BY <2>5, <3>2, OwnLoop
      <4>2. ~(loops[i].pc # "free" /\ ~loops[i].aborted)
        BY <2>1, <2>5, <4>1 DEF LiveLoops
      <4>3. QED
        BY <2>2, <3>1, <4>2 DEF LoopOk
    <3>3. CASE c = tablePolls[t].cursor /\ lap = laps[t]
      <4>1. laps'[t] = laps[t] /\ tablePolls'[t].cursor = tablePolls[t].cursor
        BY <1>1, <1>2, <3>3
      <4>2. QED
        BY <2>1, <2>2, <2>5, <3>1, <4>1 DEF LoopOk
    <3>4. QED
      BY <3>2, <3>3
  <2>6. QED
    BY <2>3, <2>4, <2>5
<1>12. \A q \in Sig : cache'[q].on <=> Subs(q)' # {}
  BY <1>5, <1>8 DEF Subs
<1>13. QED
  BY <1>8, <1>9, <1>10, <1>11, <1>12 DEF PoolInv

LEMMA DispatchNothing ==
  ASSUME cache \in [Sig -> Entries], reads \in [ReadId -> Reads], NEW ps
  PROVE  DispatchCache({}, cache, ps) = cache /\ DispatchReads({}, cache, ps) = reads
         /\ CanDispatch({})
BY DEF DispatchCache, DispatchReads, CanDispatch

(* The loop takes the value l and nothing else changes.                    *)
LEMMA LoopLocal ==
  ASSUME PoolInv, NEW t \in Table, NEW k \in 1 .. MaxLoops, NEW l \in Loops,
         UNCHANGED <<tableVer, tableFloor, mounted, cache, reads, tablePolls, laps>>,
         loops' = [loops EXCEPT ![<<t, k>>] = l],
         (l.pc # "free" /\ ~l.aborted) <=> (loops[<<t, k>>].pc # "free" /\ ~loops[<<t, k>>].aborted),
         LoopOk(l, tablePolls[t], laps[t], tableVer[t])
  PROVE  PoolInv'
<1>1. /\ cache \in [Sig -> Entries] /\ reads \in [ReadId -> Reads] /\ laps[t] \in 0 .. MaxAttempt
      /\ tablePolls \in [Table -> TablePolls] /\ tablePolls[t] \in TablePolls
      /\ laps \in [Table -> 0 .. MaxAttempt]
      /\ PollOk(tablePolls[t], Watchers(t), LiveLoops(t), tableVer[t])
  BY DEF PoolInv, PoolTypes
<1>2. PICK c \in Nat : c = tablePolls[t].cursor /\ c <= tableVer[t]
  BY <1>1 DEF TablePolls, PollOk
<1>3. PICK lap \in 0 .. MaxAttempt : lap = laps[t]
  BY <1>1
<1>4. [tablePolls EXCEPT ![t].cursor = c] = tablePolls /\ [laps EXCEPT ![t] = lap] = laps
  BY <1>1, <1>2, <1>3 DEF TablePolls
<1>5. /\ tablePolls' = [tablePolls EXCEPT ![t].cursor = c] /\ laps' = [laps EXCEPT ![t] = lap]
      /\ cache' = DispatchCache({}, cache, tablePolls')
      /\ reads' = DispatchReads({}, cache, tablePolls') /\ CanDispatch({})
      /\ LoopOk(l, tablePolls'[t], lap, tableVer[t]) /\ {} \in SUBSET Sig
  BY <1>1, <1>3, <1>4, DispatchNothing
<1>6. QED
  BY <1>2, <1>3, <1>5, LoopStep

LEMMA PollAnsweredInv ==
  ASSUME PoolInv, NEW t \in Table, NEW k \in 1 .. MaxLoops, PollAnswered(t, k) PROVE PoolInv'
<1>1. PICK o \in Loops : o = loops[<<t, k>>] /\ o.pc = "out" /\ ~o.aborted
                         /\ LoopOk(o, tablePolls[t], laps[t], tableVer[t])
  BY LoopTypes DEF PollAnswered
<1>2. PICK a \in {"schema", "events", "empty"} : a = SinceAnswer(t, o.req)
  BY DEF SinceAnswer
<1>3. PICK n \in Nat : n = IF a = "events" THEN tableVer[t] ELSE o.req
  BY LoopTypes DEF Loops
<1> DEFINE l == [o EXCEPT !.pc = "answered", !.answer = a, !.next = n]
<1>4. /\ l \in Loops /\ l.pc = "answered" /\ l.aborted = o.aborted /\ l.req = o.req /\ l.answer = a
      /\ l.next = n /\ l.attempt = o.attempt /\ l.recovering = o.recovering
  BY DEF Loops
<1>5. /\ loops' = [loops EXCEPT ![<<t, k>>] = l]
      /\ UNCHANGED <<tableVer, tableFloor, mounted, cache, reads, tablePolls, laps>>
  BY <1>1, <1>2, <1>3 DEF PollAnswered
<1> HIDE DEF l
<1>6. n <= tableVer[t]
  <2>1. tablePolls[t].cursor <= tableVer[t] /\ tableVer[t] \in Nat
    BY LoopTypes DEF PoolInv, PollOk
  <2>2. o.req = tablePolls[t].cursor
    BY <1>1 DEF LoopOk
  <2>3. QED
    BY <1>3, <2>1, <2>2
<1>7. LoopOk(l, tablePolls[t], laps[t], tableVer[t])
  BY <1>1, <1>3, <1>4, <1>6 DEF LoopOk
<1>8. QED
  BY <1>1, <1>4, <1>5, <1>7, LoopLocal

LEMMA SaturateFacts ==
  ASSUME NEW n \in 0 .. MaxAttempt
  PROVE  /\ Saturate(n + 1) \in 0 .. MaxAttempt /\ n <= Saturate(n + 1)
         /\ \A m \in 0 .. n : Saturate(m + 1) <= Saturate(n + 1)
<1>1. MaxAttempt \in Nat
  BY PoolFacts
<1>2. \A m \in 0 .. MaxAttempt : Saturate(m + 1) = IF m + 1 < MaxAttempt THEN m + 1 ELSE MaxAttempt
  BY <1>1, MinOfTwo DEF Saturate
<1>3. QED
  BY <1>1, <1>2

LEMMA LoopRetriesInv ==
  ASSUME PoolInv, NEW t \in Table, NEW k \in 1 .. MaxLoops, LoopRetries(t, k) PROVE PoolInv'
<1>1. PICK o \in Loops : o = loops[<<t, k>>] /\ o.pc = "out" /\ ~o.aborted
                         /\ LoopOk(o, tablePolls[t], laps[t], tableVer[t])
  BY LoopTypes DEF LoopRetries
<1>2. PICK n \in 0 .. MaxAttempt : n = Saturate(o.attempt + 1) /\ o.attempt <= n
  BY SaturateFacts DEF Loops
<1> DEFINE l == [NoLoop EXCEPT !.pc = "backoff", !.attempt = n, !.recovering = o.recovering]
<1>3. /\ l \in Loops /\ l.pc = "backoff" /\ l.aborted = FALSE /\ l.answer = "none" /\ l.next = 0
      /\ l.attempt = n /\ l.recovering = o.recovering
  BY DEF NoLoop, Loops, EmptyCursor
<1>4. /\ loops' = [loops EXCEPT ![<<t, k>>] = l]
      /\ UNCHANGED <<tableVer, tableFloor, mounted, cache, reads, tablePolls, laps>>
  BY <1>1, <1>2 DEF LoopRetries
<1> HIDE DEF l
<1>5. /\ laps[t] \in Nat /\ o.attempt \in Nat /\ n \in Nat /\ tableVer[t] \in Nat
      /\ laps[t] <= o.attempt /\ (~o.recovering => laps[t] = 0)
  BY <1>1, LoopTypes, PoolFacts DEF Loops, LoopOk
<1>6. laps[t] <= n /\ 0 <= tableVer[t]
  BY <1>2, <1>5
<1>7. LoopOk(l, tablePolls[t], laps[t], tableVer[t])
  BY <1>3, <1>5, <1>6 DEF LoopOk
<1>8. QED
  BY <1>1, <1>3, <1>4, <1>7, LoopLocal

LEMMA BackoffEndsInv ==
  ASSUME PoolInv, NEW t \in Table, NEW k \in 1 .. MaxLoops, BackoffEnds(t, k) PROVE PoolInv'
<1>1. PICK o \in Loops : o = loops[<<t, k>>] /\ o.pc = "backoff" /\ ~o.aborted
                         /\ LoopOk(o, tablePolls[t], laps[t], tableVer[t])
  BY LoopTypes DEF BackoffEnds
<1>2. PICK c \in Nat : c = tablePolls[t].cursor
  BY LoopTypes DEF TablePolls
<1> DEFINE l == [o EXCEPT !.pc = "out", !.req = c]
<1>3. /\ l \in Loops /\ l.pc = "out" /\ l.aborted = o.aborted /\ l.answer = o.answer /\ l.next = o.next
      /\ l.attempt = o.attempt /\ l.recovering = o.recovering /\ l.req = c
  BY DEF Loops
<1>4. /\ loops' = [loops EXCEPT ![<<t, k>>] = l]
      /\ UNCHANGED <<tableVer, tableFloor, mounted, cache, reads, tablePolls, laps>>
  BY <1>1, <1>2, LoopTypes DEF BackoffEnds
<1> HIDE DEF l
<1>5. LoopOk(l, tablePolls[t], laps[t], tableVer[t])
  BY <1>1, <1>2, <1>3 DEF LoopOk
<1>6. QED
  BY <1>1, <1>3, <1>4, <1>5, LoopLocal

LEMMA LoopReturnsInv ==
  ASSUME PoolInv, NEW t \in Table, NEW k \in 1 .. MaxLoops, LoopReturns(t, k) PROVE PoolInv'
<1>1. /\ loops[<<t, k>>].aborted /\ loops' = [loops EXCEPT ![<<t, k>>] = NoLoop]
      /\ UNCHANGED <<tableVer, tableFloor, mounted, cache, reads, tablePolls, laps>>
  BY DEF LoopReturns
<1>2. NoLoop \in Loops /\ NoLoop.pc = "free" /\ LoopOk(NoLoop, tablePolls[t], laps[t], tableVer[t])
  BY StartValues DEF LoopOk
<1>3. QED
  BY <1>1, <1>2, LoopLocal

LEMMA LoopSucceedsInv ==
  ASSUME PoolInv, NEW t \in Table, NEW k \in 1 .. MaxLoops, LoopSucceeds(t, k)
  PROVE  PoolInv' /\ \A q \in Sig : cache'[q].data = cache[q].data
<1>1. PICK o \in Loops : o = loops[<<t, k>>] /\ o.pc = "answered" /\ ~o.aborted
                         /\ o.answer \in {"events", "empty"}
                         /\ LoopOk(o, tablePolls[t], laps[t], tableVer[t])
  BY LoopTypes DEF LoopSucceeds
<1>2. PICK qs \in SUBSET Sig : qs = IF o.answer = "events" THEN Visible(t) ELSE {}
  BY DEF Visible
<1>3. PICK c \in Nat : c = o.next
  BY DEF Loops
<1>4. PICK n \in 0 .. MaxAttempt : n = IF recoveryProven(o) THEN 0 ELSE o.attempt
  BY PoolFacts DEF Loops
<1>5. PICK b \in BOOLEAN : b = (o.recovering /\ ~recoveryProven(o))
  OBVIOUS
<1>6. PICK lap \in 0 .. MaxAttempt :
        lap = IF o.req # EmptyCursor \/ o.next = EmptyCursor THEN 0 ELSE laps[t]
  <2>1. laps[t] \in 0 .. MaxAttempt /\ 0 \in 0 .. MaxAttempt
    BY PoolFacts DEF PoolInv, PoolTypes
  <2>2. QED
    BY <2>1
<1> DEFINE l == [NoLoop EXCEPT !.pc = "out", !.req = c, !.attempt = n, !.recovering = b]
<1>7. /\ l \in Loops /\ l.pc = "out" /\ l.aborted = FALSE /\ l.req = c /\ l.answer = "none"
      /\ l.next = 0 /\ l.attempt = n /\ l.recovering = b
  BY DEF NoLoop, Loops, EmptyCursor
<1>8. /\ loops' = [loops EXCEPT ![<<t, k>>] = l] /\ laps' = [laps EXCEPT ![t] = lap]
      /\ tablePolls' = [tablePolls EXCEPT ![t].cursor = c]
      /\ UNCHANGED <<tableVer, tableFloor, mounted>> /\ CanDispatch(qs)
  <2>1. laps \in [Table -> 0 .. MaxAttempt]
    BY DEF PoolInv, PoolTypes
  <2>2. QED
    BY <1>1, <1>2, <1>3, <1>4, <1>5, <1>6, <2>1 DEF LoopSucceeds
<1>9. cache' = DispatchCache(qs, cache, tablePolls') /\ reads' = DispatchReads(qs, cache, tablePolls')
  BY <1>1, <1>2 DEF LoopSucceeds
<1> HIDE DEF l
<1>10. /\ c <= tableVer[t] /\ o.req = tablePolls[t].cursor /\ (o.answer = "empty" => c = o.req)
       /\ laps[t] <= o.attempt /\ (~o.recovering => laps[t] = 0)
  BY <1>1, <1>3 DEF LoopOk
<1>11. tablePolls'[t].cursor = c
  BY <1>3, <1>8, LoopTypes DEF PoolInv, PoolTypes, TablePolls
<1>12. lap <= n /\ (~b => lap = 0)
  <2>1. CASE o.req # EmptyCursor \/ o.next = EmptyCursor
    BY <1>4, <1>6, <2>1, PoolFacts
  <2>2. CASE ~(o.req # EmptyCursor \/ o.next = EmptyCursor) /\ ~o.recovering
    BY <1>4, <1>6, <1>10, <2>2, PoolFacts
  <2>3. CASE ~(o.req # EmptyCursor \/ o.next = EmptyCursor) /\ o.recovering
    <3>1. ~recoveryProven(o)
      BY <2>3 DEF recoveryProven
    <3>2. QED
      BY <1>4, <1>5, <1>6, <1>10, <2>3, <3>1
  <2>4. QED
    BY <2>1, <2>2, <2>3
<1>13. 0 <= tableVer[t]
  <2>1. tableVer[t] \in Nat
    BY DEF PoolInv, PoolTypes, Versions
  <2>2. QED
    BY <2>1
<1>14. LoopOk(l, tablePolls'[t], lap, tableVer[t])
  BY <1>7, <1>11, <1>12, <1>13 DEF LoopOk
<1>15. qs = Visible(t) \/ c = tablePolls[t].cursor
  BY <1>1, <1>2, <1>10
<1>16. QED
  BY <1>1, <1>7, <1>8, <1>9, <1>10, <1>14, <1>15, LoopStep

LEMMA LoopRecoversInv ==
  ASSUME PoolInv, NEW t \in Table, NEW k \in 1 .. MaxLoops, LoopRecovers(t, k)
  PROVE  PoolInv' /\ \A q \in Sig : cache'[q].data = cache[q].data
<1>1. PICK o \in Loops : o = loops[<<t, k>>] /\ ~o.aborted /\ (o.answer = "schema" \/ o.pc = "out")
                         /\ LoopOk(o, tablePolls[t], laps[t], tableVer[t])
  BY LoopTypes DEF LoopRecovers
<1>2. o.pc # "free"
  BY <1>1 DEF LoopOk
<1>3. PICK qs \in SUBSET Sig : qs = Visible(t)
  BY DEF Visible
<1>4. laps[t] <= o.attempt /\ laps[t] \in 0 .. MaxAttempt /\ o.attempt \in 0 .. MaxAttempt
  BY <1>1, <1>2, LoopTypes DEF LoopOk, Loops
<1>5. PICK n \in 0 .. MaxAttempt : n = Saturate(o.attempt + 1)
  BY <1>4, SaturateFacts
<1>6. PICK lap \in 0 .. MaxAttempt : lap = Saturate(laps[t] + 1)
  BY <1>4, SaturateFacts
<1>7. lap <= n
  <2>1. laps[t] \in 0 .. o.attempt
    BY <1>4, PoolFacts
  <2>2. QED
    BY <1>4, <1>5, <1>6, <2>1, SaturateFacts
<1> DEFINE l == [NoLoop EXCEPT !.pc = "backoff", !.attempt = n, !.recovering = TRUE]
<1>8. /\ l \in Loops /\ l.pc = "backoff" /\ l.aborted = FALSE /\ l.answer = "none"
      /\ l.next = 0 /\ l.attempt = n /\ l.recovering = TRUE
  BY DEF NoLoop, Loops, EmptyCursor
<1>9. /\ loops' = [loops EXCEPT ![<<t, k>>] = l] /\ laps' = [laps EXCEPT ![t] = lap]
      /\ tablePolls' = [tablePolls EXCEPT ![t].cursor = 0]
      /\ UNCHANGED <<tableVer, tableFloor, mounted>> /\ CanDispatch(qs)
  <2>1. laps \in [Table -> 0 .. MaxAttempt]
    BY DEF PoolInv, PoolTypes
  <2>2. QED
    BY <1>1, <1>3, <1>5, <1>6, <2>1 DEF LoopRecovers, EmptyCursor
<1>10. cache' = DispatchCache(qs, cache, tablePolls') /\ reads' = DispatchReads(qs, cache, tablePolls')
  BY <1>1, <1>3 DEF LoopRecovers
<1> HIDE DEF l
<1>11. 0 <= tableVer[t] /\ 0 \in Nat
  <2>1. tableVer[t] \in Nat
    BY DEF PoolInv, PoolTypes, Versions
  <2>2. QED
    BY <2>1
<1>12. LoopOk(l, tablePolls'[t], lap, tableVer[t])
  BY <1>7, <1>8, <1>11 DEF LoopOk
<1>13. QED
  BY <1>1, <1>2, <1>3, <1>8, <1>9, <1>10, <1>11, <1>12, LoopStep

-----------------------------------------------------------------------------
(* Polls that stop, start and die.                                         *)

(* Entries and reads depend on the polls of their own tables only.         *)
LEMMA SamePolls ==
  ASSUME NEW q \in Sig, NEW e, NEW ps, NEW ps2, NEW ver,
         e.on => \A t \in ChainTables[q] : /\ ps2[t].terminal = ps[t].terminal
                                           /\ ps2[t].cursor = ps[t].cursor
  PROVE  /\ EntryOk(q, e, ps, ver) => EntryOk(q, e, ps2, ver)
         /\ \A k, r : ReadOk(q, k, e, r, ps, ver) => ReadOk(q, k, e, r, ps2, ver)
BY DEF EntryOk, ReadOk, terminalErrorFor

LEMMA TablePollFacts ==
  ASSUME PoolInv, NEW t \in Table
  PROVE  /\ PollOk(tablePolls[t], Watchers(t), LiveLoops(t), tableVer[t])
         /\ tablePolls[t] \in TablePolls /\ tableVer[t] \in Nat
         /\ IsFiniteSet(Watchers(t)) /\ tablePolls[t].refcount \in Nat
         /\ tablePolls[t].refcount = 0 <=> Watchers(t) = {}
<1>1. /\ PollOk(tablePolls[t], Watchers(t), LiveLoops(t), tableVer[t])
      /\ tablePolls[t] \in TablePolls /\ tableVer[t] \in Nat
  BY DEF PoolInv, PoolTypes, Versions
<1>2. IsFiniteSet(Watchers(t))
  BY PoolFacts, FS_Subset DEF Watchers
<1>3. tablePolls[t].refcount = Cardinality(Watchers(t)) /\ tablePolls[t].refcount \in Nat
  BY <1>1 DEF PollOk, TablePolls
<1>4. Cardinality(Watchers(t)) = 0 <=> Watchers(t) = {}
  BY <1>2, FS_EmptySet
<1>5. QED
  BY <1>1, <1>2, <1>3, <1>4

LEMMA FreeLoopFacts ==
  ASSUME NEW t \in Table, FreeLoop(t) # {}
  PROVE  /\ Min(FreeLoop(t)) \in FreeLoop(t) /\ Min(FreeLoop(t)) \in 1 .. MaxLoops
         /\ Min(FreeLoop(t)) # 0
<1>1. FreeLoop(t) \in SUBSET Nat /\ FreeLoop(t) \subseteq 1 .. MaxLoops
  BY PoolFacts DEF FreeLoop
<1>2. Min(FreeLoop(t)) \in FreeLoop(t)
  BY <1>1, MinIsLeast
<1>3. QED
  BY <1>1, <1>2, PoolFacts

LEMMA StartedFacts ==
  ASSUME NEW t \in Table, FreeLoop(t) # {}, NEW n \in Nat
  PROVE  /\ Started(t, n) \in TablePolls /\ Started(t, n).refcount = n
         /\ Started(t, n).loop = Min(FreeLoop(t)) /\ Started(t, n).loop # 0
         /\ Started(t, n).cursor = 0 /\ Started(t, n).terminal = FALSE /\ Started(t, n).silent = FALSE
<1>1. PICK k \in 1 .. MaxLoops : k = Min(FreeLoop(t)) /\ k # 0 /\ k \in 0 .. MaxLoops
  BY FreeLoopFacts, PoolFacts
<1>2. Started(t, n) = [NoPoll EXCEPT !.refcount = n, !.loop = k]
  BY <1>1 DEF Started
<1>3. Started(t, n) \in TablePolls
  BY <1>1, <1>2, StartValues DEF TablePolls
<1>4. QED
  BY <1>1, <1>2, <1>3 DEF NoPoll, EmptyCursor

(* Loops are started for the tables ts, which had none.                    *)
LEMMA StartLoopsOk ==
  ASSUME PoolInv, NEW ts \in SUBSET Table, UNCHANGED tableVer,
         \A t \in ts : FreeLoop(t) # {} /\ LiveLoops(t) = {} /\ tablePolls'[t].cursor = 0,
         \A t \in Table \ ts : tablePolls'[t].cursor = tablePolls[t].cursor,
         loops' = StartLoops(ts, loops), laps' = [t \in Table |-> IF t \in ts THEN 0 ELSE laps[t]]
  PROVE  /\ loops' \in [LoopId -> Loops] /\ laps' \in [Table -> 0 .. MaxAttempt]
         /\ \A i \in LoopId : LoopOk(loops[i], tablePolls[i[1]], laps[i[1]], tableVer[i[1]])'
         /\ \A t \in ts : LiveLoops(t)' = {Min(FreeLoop(t))}
         /\ \A t \in Table \ ts : LiveLoops(t)' = LiveLoops(t)
<1>1. /\ loops \in [LoopId -> Loops] /\ laps \in [Table -> 0 .. MaxAttempt]
      /\ 0 \in 0 .. MaxAttempt
  BY PoolFacts DEF PoolInv, PoolTypes
<1>2. laps' \in [Table -> 0 .. MaxAttempt]
  BY <1>1
<1> DEFINE l == [NoLoop EXCEPT !.pc = "out"]
<1>3. /\ l \in Loops /\ l.pc = "out" /\ l.aborted = FALSE /\ l.req = 0 /\ l.answer = "none"
      /\ l.next = 0 /\ l.attempt = 0
  <2>1. l \in Loops
    BY StartValues DEF Loops
  <2>2. QED
    BY <2>1 DEF NoLoop, EmptyCursor
<1>4. \A i \in LoopId : loops'[i] = IF i[1] \in ts /\ i[2] = Min(FreeLoop(i[1])) THEN l ELSE loops[i]
  BY <1>1 DEF StartLoops, StartedLoop
<1>5. loops' = [i \in LoopId |-> loops'[i]]
  BY <1>1 DEF StartLoops
<1> HIDE DEF l
<1>6. loops' \in [LoopId -> Loops]
  <2>1. \A i \in LoopId : loops'[i] \in Loops
    BY <1>1, <1>3, <1>4
  <2>2. QED
    BY <1>5, <2>1
<1>7. ASSUME NEW t \in ts PROVE LiveLoops(t)' = {Min(FreeLoop(t))}
  <2>1. PICK m \in 1 .. MaxLoops : m = Min(FreeLoop(t))
    BY FreeLoopFacts
  <2>2. ASSUME NEW k \in 1 .. MaxLoops
        PROVE  loops'[<<t, k>>].pc # "free" /\ ~loops'[<<t, k>>].aborted <=> k = m
    <3>1. loops'[<<t, k>>] = IF k = m THEN l ELSE loops[<<t, k>>]
      BY <1>4, <2>1 DEF LoopId
    <3>2. k \notin LiveLoops(t)
      OBVIOUS
    <3>3. QED
      BY <1>3, <3>1, <3>2 DEF LiveLoops
  <2>3. LiveLoops(t)' = {m}
    BY <2>2 DEF LiveLoops
  <2>4. QED
    BY <2>1, <2>3
<1>8. ASSUME NEW t \in Table \ ts PROVE LiveLoops(t)' = LiveLoops(t)
  <2>1. \A k \in 1 .. MaxLoops : loops'[<<t, k>>] = loops[<<t, k>>]
    BY <1>4 DEF LoopId
  <2>2. QED
    BY <2>1 DEF LiveLoops
<1>9. ASSUME NEW i \in LoopId
      PROVE  LoopOk(loops[i], tablePolls[i[1]], laps[i[1]], tableVer[i[1]])'
  <2>1. PICK t \in Table, k \in 1 .. MaxLoops : i = <<t, k>> /\ i[1] = t /\ i[2] = k
    BY DEF LoopId
  <2>2. LoopOk(loops[i], tablePolls[t], laps[t], tableVer[t]) /\ tableVer[t] \in Nat
    BY <2>1, LoopTypes
  <2>3. CASE t \notin ts
    <3>1. /\ loops'[i] = loops[i] /\ laps'[t] = laps[t]
          /\ tablePolls'[t].cursor = tablePolls[t].cursor
      BY <1>4, <2>1, <2>3
    <3>2. QED
      BY <2>1, <2>2, <3>1 DEF LoopOk
  <2>4. CASE t \in ts /\ k = Min(FreeLoop(t))
    <3>1. loops'[i] = l /\ laps'[t] = 0 /\ tablePolls'[t].cursor = 0
      BY <1>4, <2>1, <2>4
    <3>2. 0 <= tableVer[t]
      BY <2>2
    <3>3. QED
      BY <1>3, <2>1, <3>1, <3>2 DEF LoopOk
  <2>5. CASE t \in ts /\ k # Min(FreeLoop(t))
    <3>1. loops'[i] = loops[i] /\ k \notin LiveLoops(t)
      BY <1>4, <2>1, <2>5
    <3>2. ~(loops[i].pc # "free" /\ ~loops[i].aborted)
      BY <2>1, <3>1 DEF LiveLoops
    <3>3. QED
      BY <2>2, <3>1, <3>2 DEF LoopOk
  <2>6. QED
    BY <2>3, <2>4, <2>5
<1>10. QED
  BY <1>2, <1>6, <1>7, <1>8, <1>9

LEMMA LoopDiesInv ==
  ASSUME PoolInv, NEW t \in Table, NEW k \in 1 .. MaxLoops, LoopDies(t, k)
  PROVE  PoolInv' /\ \A q \in Sig : cache'[q].data = cache[q].data
<1>1. /\ loops[<<t, k>>].pc = "out" /\ ~loops[<<t, k>>].aborted
      /\ tablePolls' = [tablePolls EXCEPT ![t].terminal = TRUE, ![t].loop = 0]
      /\ loops' = [loops EXCEPT ![<<t, k>>] = NoLoop]
      /\ cache' = [q \in Sig |-> IF q \in Visible(t)
                                 THEN [cache[q] EXCEPT !.status = "error", !.inFlight = 0, !.parked = TRUE]
                                 ELSE cache[q]]
      /\ reads' = [f \in DOMAIN reads |->
                     IF f[1] \in Visible(t) /\ f[2] = cache[f[1]].inFlight
                     THEN [reads[f] EXCEPT !.aborted = TRUE] ELSE reads[f]]
      /\ UNCHANGED <<tableVer, tableFloor, mounted, laps>>
  BY DEF LoopDies
<1>2. LiveLoops(t) = {k} /\ Watchers(t) # {} /\ ~tablePolls[t].silent
  BY <1>1, OwnLoop
<1>3. /\ cache \in [Sig -> Entries] /\ reads \in [ReadId -> Reads] /\ <<t, k>> \in LoopId
      /\ loops \in [LoopId -> Loops] /\ tablePolls \in [Table -> TablePolls]
  BY LoopTypes DEF PoolInv, PoolTypes
<1>4. 0 \in 0 .. MaxLoops
  BY PoolFacts
<1>5. \A u \in Table : /\ tablePolls'[u] \in TablePolls
                       /\ tablePolls'[u].refcount = tablePolls[u].refcount
                       /\ tablePolls'[u].cursor = tablePolls[u].cursor
                       /\ u # t => tablePolls'[u] = tablePolls[u]
                       /\ tablePolls'[t].loop = 0 /\ tablePolls'[t].terminal = TRUE
                       /\ tablePolls'[t].silent = tablePolls[t].silent
  BY <1>1, <1>3, <1>4 DEF TablePolls
<1>6. tablePolls' \in [Table -> TablePolls]
  BY <1>1, <1>3, <1>5
<1>7. \A q \in Sig : cache[q].on <=> Subs(q) # {}
  BY DEF PoolInv
<1>8. ASSUME NEW q \in Sig
      PROVE  /\ cache'[q] \in Entries /\ (cache'[q].on <=> cache[q].on) /\ cache'[q].data = cache[q].data
             /\ EntryOk(q, cache'[q], tablePolls', tableVer)
             /\ q \in Visible(t) => cache'[q].inFlight = 0
             /\ q \notin Visible(t) => /\ cache'[q] = cache[q]
                                       /\ cache[q].on => t \notin ChainTables[q]
  <2>1. cache[q] \in Entries /\ EntryOk(q, cache[q], tablePolls, tableVer)
    BY <1>3 DEF PoolInv
  <2>2. CASE q \in Visible(t)
    <3> DEFINE e == [cache[q] EXCEPT !.status = "error", !.inFlight = 0, !.parked = TRUE]
    <3>1. cache'[q] = e
      BY <1>1, <2>2
    <3>2. /\ e \in Entries /\ e.on = cache[q].on /\ e.data = cache[q].data
          /\ e.status = "error" /\ e.inFlight = 0 /\ e.has = cache[q].has
      <4>1. PICK c \in Entries : c = cache[q]
        BY <2>1
      <4>2. e = [c EXCEPT !.status = "error", !.inFlight = 0, !.parked = TRUE]
        BY <4>1
      <4> HIDE DEF e
      <4>3. QED
        BY <4>1, <4>2 DEF Entries
    <3> HIDE DEF e
    <3>3. terminalErrorFor(q, tablePolls')
      BY <1>5, <2>2 DEF terminalErrorFor, Visible
    <3>4. EntryOk(q, cache'[q], tablePolls', tableVer)
      BY <2>1, <3>1, <3>2, <3>3 DEF EntryOk
    <3>5. QED
      BY <2>2, <3>1, <3>2, <3>4
  <2>3. CASE q \notin Visible(t)
    <3>1. cache'[q] = cache[q]
      BY <1>1, <2>3
    <3>2. cache[q].on => t \notin ChainTables[q]
      BY <1>7, <2>3 DEF Visible
    <3>3. EntryOk(q, cache[q], tablePolls', tableVer)
      <4>1. PICK ps : ps = tablePolls'
        OBVIOUS
      <4>2. cache[q].on => \A u \in ChainTables[q] : /\ ps[u].terminal = tablePolls[u].terminal
                                                     /\ ps[u].cursor = tablePolls[u].cursor
        BY <1>5, <3>2, <4>1, PoolFacts
      <4>3. EntryOk(q, cache[q], ps, tableVer)
        BY <2>1, <4>2, SamePolls
      <4>4. QED
        BY <4>1, <4>3
    <3>4. QED
      BY <2>1, <2>3, <3>1, <3>2, <3>3
  <2>4. QED
    BY <2>2, <2>3
<1>9. cache' \in [Sig -> Entries]
  BY <1>1, <1>8
<1>10. ASSUME NEW f \in ReadId
       PROVE  reads'[f] \in Reads /\ ReadOk(f[1], f[2], cache'[f[1]], reads'[f], tablePolls', tableVer)
  <2>1. PICK q \in Sig, j \in Nat : q = f[1] /\ j = f[2] /\ f = <<q, j>> /\ j # 0
    BY OwnRead
  <2>2. reads[f] \in Reads /\ ReadOk(q, j, cache[q], reads[f], tablePolls, tableVer)
    BY <2>1, OwnRead
  <2>3. reads'[f] \in {reads[f], [reads[f] EXCEPT !.aborted = TRUE]}
    BY <1>1, <1>3
  <2>4. reads'[f] \in Reads /\ reads'[f].pc = reads[f].pc /\ reads'[f].data = reads[f].data
    BY <2>2, <2>3 DEF Reads
  <2>5. CASE q \in Visible(t)
    <3>1. cache'[q].inFlight # j
      BY <1>8, <2>1, <2>5
    <3>2. QED
      BY <2>1, <2>2, <2>4, <3>1 DEF ReadOk
  <2>6. CASE q \notin Visible(t)
    <3>1. reads'[f] = reads[f] /\ cache'[q] = cache[q]
      BY <1>1, <1>3, <1>8, <2>1, <2>6
    <3>2. PICK ps : ps = tablePolls'
      OBVIOUS
    <3>3. cache[q].on => \A u \in ChainTables[q] : /\ ps[u].terminal = tablePolls[u].terminal
                                                   /\ ps[u].cursor = tablePolls[u].cursor
      BY <1>5, <1>8, <2>6, <3>2, PoolFacts
    <3>4. ReadOk(q, j, cache[q], reads[f], ps, tableVer)
      BY <2>2, <3>3, SamePolls
    <3>5. QED
      BY <2>1, <2>4, <3>1, <3>2, <3>4
  <2>7. QED
    BY <2>5, <2>6
<1>11. reads' \in [ReadId -> Reads]
  <2>1. reads' = [f \in ReadId |-> reads'[f]]
    BY <1>1, <1>3
  <2>2. QED
    BY <1>10, <2>1
<1>12. PoolTypes'
  <2>1. loops' \in [LoopId -> Loops]
    BY <1>1, <1>3, StartValues
  <2>2. QED
    BY <1>1, <1>6, <1>9, <1>11, <2>1 DEF PoolInv, PoolTypes
<1>13. ASSUME NEW u \in Table PROVE PollOk(tablePolls[u], Watchers(u), LiveLoops(u), tableVer[u])'
  <2>1. Watchers(u)' = Watchers(u) /\ tableVer'[u] = tableVer[u]
    BY <1>1 DEF Watchers
  <2>2. PollOk(tablePolls[u], Watchers(u), LiveLoops(u), tableVer[u])
    BY DEF PoolInv
  <2>3. \A j \in 1 .. MaxLoops :
          loops'[<<u, j>>] = IF u = t /\ j = k THEN NoLoop ELSE loops[<<u, j>>]
    BY <1>1, <1>3 DEF LoopId
  <2>4. CASE u # t
    <3>1. LiveLoops(u)' = LiveLoops(u)
      BY <2>3, <2>4 DEF LiveLoops
    <3>2. QED
      BY <1>5, <2>1, <2>2, <2>4, <3>1
  <2>5. CASE u = t
    <3>1. LiveLoops(u)' = {}
      <4>1. \A j \in 1 .. MaxLoops : j # k => j \notin LiveLoops(t)
        BY <1>2
      <4>2. \A j \in 1 .. MaxLoops : ~(loops'[<<u, j>>].pc # "free" /\ ~loops'[<<u, j>>].aborted)
        BY <2>3, <2>5, <4>1, StartValues DEF LiveLoops
      <4>3. QED
        BY <4>2 DEF LiveLoops
    <3>2. QED
      BY <1>2, <1>5, <2>1, <2>2, <2>5, <3>1 DEF PollOk
  <2>6. QED
    BY <2>4, <2>5
<1>14. ASSUME NEW i \in LoopId
       PROVE  LoopOk(loops[i], tablePolls[i[1]], laps[i[1]], tableVer[i[1]])'
  <2>1. i[1] \in Table /\ LoopOk(loops[i], tablePolls[i[1]], laps[i[1]], tableVer[i[1]])
    BY DEF PoolInv, LoopId
  <2>2. tablePolls'[i[1]].cursor = tablePolls[i[1]].cursor
    BY <1>5, <2>1
  <2>3. loops'[i] = NoLoop \/ loops'[i] = loops[i]
    BY <1>1, <1>3
  <2>4. QED
    BY <1>1, <2>1, <2>2, <2>3, StartValues DEF LoopOk
<1>15. \A q \in Sig : Subs(q)' = Subs(q)
  BY <1>1 DEF Subs
<1>16. QED
  BY <1>1, <1>7, <1>8, <1>10, <1>12, <1>13, <1>14, <1>15 DEF PoolInv

LEMMA LoopGivesUpInv ==
  ASSUME PoolInv, NEW t \in Table, NEW k \in 1 .. MaxLoops, LoopGivesUp(t, k) PROVE PoolInv'
<1>1. /\ loops[<<t, k>>].pc = "out" /\ ~loops[<<t, k>>].aborted
      /\ tablePolls' = [tablePolls EXCEPT ![t].silent = TRUE, ![t].loop = 0]
      /\ loops' = [loops EXCEPT ![<<t, k>>] = NoLoop]
      /\ UNCHANGED <<tableVer, tableFloor, mounted, cache, reads, laps>>
  BY DEF LoopGivesUp
<1>2. LiveLoops(t) = {k} /\ Watchers(t) # {} /\ ~tablePolls[t].terminal
  BY <1>1, OwnLoop
<1>3. /\ loops \in [LoopId -> Loops] /\ tablePolls \in [Table -> TablePolls] /\ <<t, k>> \in LoopId
      /\ 0 \in 0 .. MaxLoops
  BY LoopTypes, PoolFacts DEF PoolInv, PoolTypes
<1>4. \A u \in Table : /\ tablePolls'[u] \in TablePolls
                       /\ tablePolls'[u].refcount = tablePolls[u].refcount
                       /\ tablePolls'[u].cursor = tablePolls[u].cursor
                       /\ tablePolls'[u].terminal = tablePolls[u].terminal
                       /\ u # t => tablePolls'[u] = tablePolls[u]
                       /\ tablePolls'[t].loop = 0 /\ tablePolls'[t].silent = TRUE
  BY <1>1, <1>3 DEF TablePolls
<1>5. PoolTypes'
  <2>1. tablePolls' \in [Table -> TablePolls]
    BY <1>1, <1>3, <1>4
  <2>2. loops' \in [LoopId -> Loops]
    BY <1>1, <1>3, StartValues
  <2>3. QED
    BY <1>1, <2>1, <2>2 DEF PoolInv, PoolTypes
<1>6. ASSUME NEW u \in Table PROVE PollOk(tablePolls[u], Watchers(u), LiveLoops(u), tableVer[u])'
  <2>1. Watchers(u)' = Watchers(u) /\ tableVer'[u] = tableVer[u]
    BY <1>1 DEF Watchers
  <2>2. PollOk(tablePolls[u], Watchers(u), LiveLoops(u), tableVer[u])
    BY DEF PoolInv
  <2>3. \A j \in 1 .. MaxLoops :
          loops'[<<u, j>>] = IF u = t /\ j = k THEN NoLoop ELSE loops[<<u, j>>]
    BY <1>1, <1>3 DEF LoopId
  <2>4. CASE u # t
    <3>1. LiveLoops(u)' = LiveLoops(u)
      BY <2>3, <2>4 DEF LiveLoops
    <3>2. QED
      BY <1>4, <2>1, <2>2, <2>4, <3>1
  <2>5. CASE u = t
    <3>1. LiveLoops(u)' = {}
      <4>1. \A j \in 1 .. MaxLoops : j # k => j \notin LiveLoops(t)
        BY <1>2
      <4>2. \A j \in 1 .. MaxLoops : ~(loops'[<<u, j>>].pc # "free" /\ ~loops'[<<u, j>>].aborted)
        BY <2>3, <2>5, <4>1, StartValues DEF LiveLoops
      <4>3. QED
        BY <4>2 DEF LiveLoops
    <3>2. QED
      BY <1>2, <1>4, <2>1, <2>2, <2>5, <3>1 DEF PollOk
  <2>6. QED
    BY <2>4, <2>5
<1>7. ASSUME NEW i \in LoopId
      PROVE  LoopOk(loops[i], tablePolls[i[1]], laps[i[1]], tableVer[i[1]])'
  <2>1. i[1] \in Table /\ LoopOk(loops[i], tablePolls[i[1]], laps[i[1]], tableVer[i[1]])
    BY DEF PoolInv, LoopId
  <2>2. tablePolls'[i[1]].cursor = tablePolls[i[1]].cursor
    BY <1>4, <2>1
  <2>3. loops'[i] = NoLoop \/ loops'[i] = loops[i]
    BY <1>1, <1>3
  <2>4. QED
    BY <1>1, <2>1, <2>2, <2>3, StartValues DEF LoopOk
<1>8. ASSUME NEW q \in Sig
      PROVE  /\ EntryOk(q, cache[q], tablePolls', tableVer)
             /\ \A j, r : ReadOk(q, j, cache[q], r, tablePolls, tableVer) =>
                          ReadOk(q, j, cache[q], r, tablePolls', tableVer)
  <2>1. PICK ps : ps = tablePolls'
    OBVIOUS
  <2>2. \A u \in ChainTables[q] : /\ ps[u].terminal = tablePolls[u].terminal
                                  /\ ps[u].cursor = tablePolls[u].cursor
    BY <1>4, <2>1, PoolFacts
  <2>3. EntryOk(q, cache[q], tablePolls, tableVer)
    BY DEF PoolInv
  <2>4. /\ EntryOk(q, cache[q], ps, tableVer)
        /\ \A j, r : ReadOk(q, j, cache[q], r, tablePolls, tableVer) =>
                     ReadOk(q, j, cache[q], r, ps, tableVer)
    BY <2>2, <2>3, SamePolls
  <2>5. QED
    BY <2>1, <2>4
<1>9. ASSUME NEW f \in ReadId
      PROVE  ReadOk(f[1], f[2], cache[f[1]], reads[f], tablePolls', tableVer)
  <2>1. f[1] \in Sig /\ ReadOk(f[1], f[2], cache[f[1]], reads[f], tablePolls, tableVer)
    BY OwnRead
  <2>2. QED
    BY <1>8, <2>1
<1>10. \A q \in Sig : Subs(q)' = Subs(q) /\ (cache[q].on <=> Subs(q) # {})
  BY <1>1 DEF Subs, PoolInv
<1>11. QED
  BY <1>1, <1>5, <1>6, <1>7, <1>8, <1>9, <1>10 DEF PoolInv

-----------------------------------------------------------------------------
(* Hooks mount, unmount and refetch.                                       *)

LEMMA AttachWatchers ==
  ASSUME PoolInv, NEW h \in Hook, NEW q \in Sig, mounted[h] = Unmounted,
         mounted' = [mounted EXCEPT ![h] = q]
  PROVE  /\ mounted' \in [Hook -> Sig \cup {Unmounted}]
         /\ \A p \in Sig : Subs(p)' # {} <=> p = q \/ Subs(p) # {}
         /\ \A t \in ChainTables[q] : /\ h \notin Watchers(t) /\ Watchers(t)' = Watchers(t) \cup {h}
                                      /\ Cardinality(Watchers(t)') = tablePolls[t].refcount + 1
         /\ \A t \in Table \ ChainTables[q] : Watchers(t)' = Watchers(t)
<1>1. mounted \in [Hook -> Sig \cup {Unmounted}] /\ Unmounted \notin Sig
  BY PoolFacts DEF PoolInv, PoolTypes
<1>2. mounted' \in [Hook -> Sig \cup {Unmounted}] /\ mounted'[h] = q
      /\ \A g \in Hook \ {h} : mounted'[g] = mounted[g]
  BY <1>1
<1>3. \A p \in Sig : Subs(p)' # {} <=> p = q \/ Subs(p) # {}
  BY <1>1, <1>2 DEF Subs
<1>4. ASSUME NEW t \in ChainTables[q]
      PROVE  /\ h \notin Watchers(t) /\ Watchers(t)' = Watchers(t) \cup {h}
             /\ Cardinality(Watchers(t)') = tablePolls[t].refcount + 1
  <2>1. h \notin Watchers(t) /\ Watchers(t)' = Watchers(t) \cup {h}
    BY <1>1, <1>2 DEF Watchers
  <2>2. t \in Table
    BY PoolFacts
  <2>3. IsFiniteSet(Watchers(t)) /\ tablePolls[t].refcount = Cardinality(Watchers(t))
    BY <2>2, TablePollFacts DEF PollOk
  <2>4. Cardinality(Watchers(t) \cup {h}) = Cardinality(Watchers(t)) + 1
    BY <2>1, <2>3, FS_AddElement
  <2>5. QED
    BY <2>1, <2>3, <2>4
<1>5. \A t \in Table \ ChainTables[q] : Watchers(t)' = Watchers(t)
  BY <1>1, <1>2 DEF Watchers
<1>6. QED
  BY <1>2, <1>3, <1>4, <1>5

LEMMA AttachInv ==
  ASSUME PoolInv, NEW h \in Hook, NEW q \in Sig, Attach(h, q)
  PROVE  PoolInv' /\ \A p \in Sig : cache[p].has => cache'[p].data = cache[p].data
<1> DEFINE ts == ChainTables[q]
           fresh == {t \in ts : tablePolls[t].refcount = 0}
           polls == [t \in Table |-> IF t \in fresh THEN Started(t, 1)
                                     ELSE IF t \in ts THEN [tablePolls[t] EXCEPT !.refcount = @ + 1]
                                     ELSE tablePolls[t]]
           entered == IF cache[q].on THEN cache
                      ELSE [cache EXCEPT ![q] = [NoEntry EXCEPT !.on = TRUE]]
           first == IF cache[q].on THEN {} ELSE {q}
<1>1. /\ mounted[h] = Unmounted /\ mounted' = [mounted EXCEPT ![h] = q]
      /\ \A t \in fresh : FreeLoop(t) # {}
      /\ CanDispatch(first) /\ tablePolls' = polls /\ loops' = StartLoops(fresh, loops)
      /\ cache' = DispatchCache(first, entered, polls)
      /\ reads' = DispatchReads(first, entered, polls)
      /\ laps' = [t \in Table |-> IF t \in fresh THEN 0 ELSE laps[t]]
      /\ UNCHANGED <<tableVer, tableFloor>>
  BY DEF Attach
<1>2. /\ cache \in [Sig -> Entries] /\ reads \in [ReadId -> Reads]
      /\ tablePolls \in [Table -> TablePolls] /\ tableVer \in Versions /\ ts \in SUBSET Table
      /\ fresh \in SUBSET Table
  BY PoolFacts DEF PoolInv, PoolTypes
<1>3. ASSUME NEW t \in Table
      PROVE  /\ polls[t] \in TablePolls
             /\ polls[t].terminal = tablePolls[t].terminal /\ polls[t].silent = tablePolls[t].silent
             /\ polls[t].cursor = tablePolls[t].cursor
             /\ polls[t].refcount = tablePolls[t].refcount + (IF t \in ts THEN 1 ELSE 0)
             /\ t \in fresh => /\ polls[t].loop = Min(FreeLoop(t)) /\ polls[t].loop # 0
                               /\ polls[t].cursor = 0 /\ LiveLoops(t) = {}
             /\ t \notin fresh => polls[t].loop = tablePolls[t].loop
             /\ t \notin ts => polls[t] = tablePolls[t]
  <2>1. tablePolls[t] \in TablePolls
    BY <1>2
  <2>2. CASE t \in fresh
    <3>1. Watchers(t) = {} /\ tablePolls[t].refcount = 0
      BY <2>2, TablePollFacts
    <3>2. tablePolls[t] = NoPoll /\ LiveLoops(t) = {}
      BY <3>1, TablePollFacts, StartValues DEF PollOk
    <3>3. polls[t] = Started(t, 1) /\ t \in ts
      BY <2>2
    <3> HIDE DEF polls
    <3>4. /\ polls[t] \in TablePolls /\ polls[t].refcount = 1 /\ polls[t].loop = Min(FreeLoop(t))
          /\ polls[t].loop # 0 /\ polls[t].cursor = 0 /\ polls[t].terminal = FALSE /\ polls[t].silent = FALSE
      <4>1. FreeLoop(t) # {}
        BY <1>1, <2>2
      <4>2. /\ Started(t, 1) \in TablePolls /\ Started(t, 1).refcount = 1
            /\ Started(t, 1).loop = Min(FreeLoop(t)) /\ Started(t, 1).loop # 0
            /\ Started(t, 1).cursor = 0 /\ Started(t, 1).terminal = FALSE /\ Started(t, 1).silent = FALSE
        BY <4>1, StartedFacts
      <4>3. QED
        BY <3>3, <4>2
    <3> HIDE DEF fresh, ts
    <3>5. polls[t].refcount = tablePolls[t].refcount + (IF t \in ts THEN 1 ELSE 0)
      BY <3>1, <3>3, <3>4
    <3>6. /\ polls[t].terminal = tablePolls[t].terminal /\ polls[t].silent = tablePolls[t].silent
          /\ polls[t].cursor = tablePolls[t].cursor
      BY <3>2, <3>4, StartValues
    <3>7. QED
      BY <2>2, <3>2, <3>3, <3>4, <3>5, <3>6
  <2>3. CASE t \in ts /\ t \notin fresh
    <3>1. polls[t] = [tablePolls[t] EXCEPT !.refcount = @ + 1]
      BY <2>3
    <3> HIDE DEF polls, fresh
    <3>2. QED
      BY <2>1, <2>3, <3>1 DEF TablePolls
  <2>4. CASE t \notin ts
    <3>1. polls[t] = tablePolls[t] /\ t \notin fresh /\ tablePolls[t].refcount \in Nat
      BY <2>1, <2>4 DEF TablePolls
    <3> HIDE DEF polls, fresh
    <3>2. QED
      BY <2>1, <2>4, <3>1
  <2>5. QED
    BY <2>2, <2>3, <2>4
<1>4. polls \in [Table -> TablePolls]
  BY <1>3
<1> HIDE DEF polls
<1>5. entered \in [Sig -> Entries] /\ first \in SUBSET Sig
      /\ \A p \in Sig : /\ p # q => entered[p] = cache[p]
                        /\ entered[p].on <=> (p = q \/ cache[p].on)
                        /\ p \notin first => entered[p] = cache[p]
                        /\ p \in first => /\ entered[p].inFlight = 0
                                          /\ \A t \in Table : entered[p].data[t] = 0
                        /\ cache[p].on => entered[p] = cache[p]
  <2>1. CASE cache[q].on
    BY <1>2, <2>1
  <2>2. CASE ~cache[q].on
    <3> DEFINE e == [NoEntry EXCEPT !.on = TRUE]
    <3>1. e \in Entries /\ e.on = TRUE /\ e.inFlight = 0 /\ \A t \in Table : e.data[t] = 0
      <4>1. e \in Entries
        BY StartValues DEF Entries
      <4>2. QED
        BY <4>1 DEF NoEntry
    <3>2. entered = [cache EXCEPT ![q] = e] /\ first = {q}
      BY <2>2
    <3> HIDE DEF e, entered, first
    <3>3. QED
      BY <1>2, <2>2, <3>1, <3>2
  <2>3. QED
    BY <2>1, <2>2
<1> HIDE DEF entered, first
<1>6. /\ cache' \in [Sig -> Entries] /\ reads' \in [ReadId -> Reads]
      /\ \A p \in Sig : /\ cache'[p].on <=> entered[p].on
                        /\ cache'[p].data = entered[p].data
                        /\ EntryOk(p, cache'[p], polls, tableVer)
      /\ \A f \in ReadId : ReadOk(f[1], f[2], cache'[f[1]], reads'[f], polls, tableVer)
  <2>1. ASSUME NEW p \in Sig
        PROVE  /\ EntryOk(p, cache[p], polls, tableVer)
               /\ \A k, r : ReadOk(p, k, cache[p], r, tablePolls, tableVer) =>
                            ReadOk(p, k, cache[p], r, polls, tableVer)
    <3>1. \A t \in ChainTables[p] : /\ polls[t].terminal = tablePolls[t].terminal
                                    /\ polls[t].cursor = tablePolls[t].cursor
      BY <1>3, PoolFacts
    <3>2. EntryOk(p, cache[p], tablePolls, tableVer)
      BY DEF PoolInv
    <3>3. QED
      BY <3>1, <3>2, SamePolls
  <2>2. \A t \in Table : tableVer[t] \in Nat /\ 0 <= tableVer[t]
    BY <1>2 DEF Versions
  <2>3. \A p \in Sig : /\ p \in first /\ entered[p].on =>
                            /\ terminalErrorFor(p, polls) => entered[p].inFlight = 0
                            /\ \A t \in Table : entered[p].data[t] <= tableVer[t]
                       /\ ~(p \in first /\ entered[p].on) => EntryOk(p, entered[p], polls, tableVer)
    <3>1. \A p \in first : entered[p].on
      <4>1. \A p \in first : p = q
        BY DEF first
      <4>2. QED
        BY <1>5, <4>1
    <3>2. QED
      BY <1>5, <2>1, <2>2, <3>1
  <2>4. /\ \A f \in ReadId : ~(f[1] \in first /\ entered[f[1]].on) =>
                               ReadOk(f[1], f[2], entered[f[1]], reads[f], polls, tableVer)
        /\ \A f \in ReadId : reads[f].pc = "read" => \A t \in Table : reads[f].data[t] <= tableVer[t]
    <3>1. ASSUME NEW f \in ReadId
          PROVE  /\ f[1] \in Sig /\ ReadOk(f[1], f[2], cache[f[1]], reads[f], tablePolls, tableVer)
                 /\ reads[f].pc = "read" => \A t \in Table : reads[f].data[t] <= tableVer[t]
                 /\ ReadOk(f[1], f[2], cache[f[1]], reads[f], polls, tableVer)
      <4>1. f[1] \in Sig /\ ReadOk(f[1], f[2], cache[f[1]], reads[f], tablePolls, tableVer)
        BY OwnRead
      <4>2. QED
        BY <2>1, <4>1 DEF ReadOk
    <3>2. \A p \in Sig : ~(p \in first /\ entered[p].on) => entered[p] = cache[p]
      <4>1. \A p \in first : p = q
        BY DEF first
      <4>2. QED
        BY <1>5, <4>1
    <3>3. QED
      BY <3>1, <3>2
  <2> DEFINE cs2 == DispatchCache(first, entered, polls)
             rs2 == DispatchReads(first, entered, polls)
  <2>5. /\ cs2 \in [Sig -> Entries] /\ rs2 \in [ReadId -> Reads]
        /\ \A p \in Sig : /\ cs2[p].on <=> entered[p].on
                          /\ cs2[p].data = entered[p].data /\ cs2[p].has = entered[p].has
                          /\ EntryOk(p, cs2[p], polls, tableVer)
        /\ \A f \in ReadId : ReadOk(f[1], f[2], cs2[f[1]], rs2[f], polls, tableVer)
    BY <1>1, <1>2, <1>5, <2>3, <2>4, DispatchOk
  <2>6. cache' = cs2 /\ reads' = rs2
    BY <1>1
  <2> HIDE DEF cs2, rs2
  <2>7. QED
    BY <2>5, <2>6
<1>7. /\ loops' \in [LoopId -> Loops] /\ laps' \in [Table -> 0 .. MaxAttempt]
      /\ \A i \in LoopId : LoopOk(loops[i], tablePolls[i[1]], laps[i[1]], tableVer[i[1]])'
      /\ \A t \in fresh : LiveLoops(t)' = {Min(FreeLoop(t))}
      /\ \A t \in Table \ fresh : LiveLoops(t)' = LiveLoops(t)
  <2>1. /\ \A t \in fresh : FreeLoop(t) # {} /\ LiveLoops(t) = {} /\ tablePolls'[t].cursor = 0
        /\ \A t \in Table \ fresh : tablePolls'[t].cursor = tablePolls[t].cursor
    BY <1>1, <1>2, <1>3
  <2> HIDE DEF fresh
  <2>2. QED
    BY <1>1, <1>2, <2>1, StartLoopsOk
<1>8. /\ mounted' \in [Hook -> Sig \cup {Unmounted}]
      /\ \A p \in Sig : Subs(p)' # {} <=> p = q \/ Subs(p) # {}
      /\ \A t \in ts : /\ Watchers(t)' = Watchers(t) \cup {h}
                       /\ Cardinality(Watchers(t)') = tablePolls[t].refcount + 1
      /\ \A t \in Table \ ts : Watchers(t)' = Watchers(t)
  BY <1>1, AttachWatchers
<1>9. PoolTypes'
  BY <1>1, <1>4, <1>6, <1>7, <1>8 DEF PoolInv, PoolTypes
<1>10. ASSUME NEW t \in Table PROVE PollOk(tablePolls[t], Watchers(t), LiveLoops(t), tableVer[t])'
  <2>1. /\ PollOk(tablePolls[t], Watchers(t), LiveLoops(t), tableVer[t])
        /\ tablePolls'[t] = polls[t] /\ tableVer'[t] = tableVer[t]
        /\ tablePolls[t].refcount \in Nat /\ (tablePolls[t].refcount = 0 <=> Watchers(t) = {})
    BY <1>1, TablePollFacts
  <2>2. CASE t \in fresh
    <3>1. /\ polls[t].refcount = tablePolls[t].refcount + 1 /\ polls[t].loop = Min(FreeLoop(t))
          /\ polls[t].loop # 0 /\ polls[t].cursor = tablePolls[t].cursor
          /\ polls[t].terminal = tablePolls[t].terminal /\ polls[t].silent = tablePolls[t].silent
      BY <1>3, <2>2
    <3>2. Watchers(t) = {} /\ ~tablePolls[t].terminal /\ ~tablePolls[t].silent
      BY <2>1, <2>2 DEF PollOk
    <3>3. /\ Watchers(t)' # {} /\ Cardinality(Watchers(t)') = tablePolls[t].refcount + 1
          /\ LiveLoops(t)' = {polls[t].loop}
      BY <1>7, <1>8, <2>2, <3>1
    <3>4. QED
      BY <2>1, <3>1, <3>2, <3>3 DEF PollOk
  <2>3. CASE t \in ts /\ t \notin fresh
    <3>1. /\ polls[t].refcount = tablePolls[t].refcount + 1 /\ polls[t].loop = tablePolls[t].loop
          /\ polls[t].cursor = tablePolls[t].cursor /\ polls[t].terminal = tablePolls[t].terminal
          /\ polls[t].silent = tablePolls[t].silent
      BY <1>3, <2>3
    <3>2. Watchers(t) # {}
      BY <2>1, <2>3
    <3>3. /\ Watchers(t)' # {} /\ Cardinality(Watchers(t)') = tablePolls[t].refcount + 1
          /\ LiveLoops(t)' = LiveLoops(t)
      BY <1>7, <1>8, <2>3
    <3>4. QED
      BY <2>1, <3>1, <3>2, <3>3 DEF PollOk
  <2>4. CASE t \notin ts
    <3>1. /\ polls[t] = tablePolls[t] /\ Watchers(t)' = Watchers(t) /\ LiveLoops(t)' = LiveLoops(t)
      BY <1>3, <1>7, <1>8, <2>4
    <3>2. QED
      BY <2>1, <3>1
  <2>5. QED
    BY <2>2, <2>3, <2>4
<1>11. ASSUME NEW p \in Sig PROVE cache'[p].on <=> Subs(p)' # {}
  <2>1. cache[p].on <=> Subs(p) # {}
    BY DEF PoolInv
  <2>2. QED
    BY <1>5, <1>6, <1>8, <2>1
<1>12. PoolInv'
  BY <1>1, <1>6, <1>7, <1>9, <1>10, <1>11 DEF PoolInv
<1>13. ASSUME NEW p \in Sig, cache[p].has PROVE cache'[p].data = cache[p].data
  <2>1. cache[p].on
    BY <1>13 DEF PoolInv, EntryOk
  <2>2. QED
    BY <1>5, <1>6, <2>1
<1>14. QED
  BY <1>12, <1>13

LEMMA RefetchInv ==
  ASSUME PoolInv, NEW h \in Hook, Refetch(h)
  PROVE  PoolInv' /\ \A p \in Sig : cache'[p].data = cache[p].data
<1> DEFINE q == mounted[h]
           revived == {t \in ChainTables[q] : tablePolls[t].terminal}
           polls == [t \in Table |-> IF t \in revived THEN Started(t, tablePolls[t].refcount)
                                     ELSE tablePolls[t]]
           qs == {q} \cup Siblings(revived, q)
<1>1. /\ q # Unmounted /\ \A t \in revived : FreeLoop(t) # {}
      /\ CanDispatch(qs) /\ tablePolls' = polls /\ loops' = StartLoops(revived, loops)
      /\ cache' = DispatchCache(qs, cache, polls)
      /\ reads' = DispatchReads(qs, cache, polls)
      /\ laps' = [t \in Table |-> IF t \in revived THEN 0 ELSE laps[t]]
      /\ UNCHANGED <<tableVer, tableFloor, mounted>>
  BY DEF Refetch
<1>2. /\ cache \in [Sig -> Entries] /\ reads \in [ReadId -> Reads] /\ q \in Sig
      /\ tablePolls \in [Table -> TablePolls] /\ tableVer \in Versions
  BY <1>1 DEF PoolInv, PoolTypes
<1>3. revived \in SUBSET Table
  BY <1>2, PoolFacts
<1>4. qs \in SUBSET Sig
  BY <1>2 DEF Siblings, Visible
<1>5. \A p \in Sig : cache[p].on <=> Subs(p) # {}
  BY DEF PoolInv
<1>6. ASSUME NEW p \in Sig, cache[p].on, p \notin qs, NEW t \in ChainTables[p] PROVE t \notin revived
  <2>1. p \in Visible(t)
    BY <1>5, <1>6 DEF Visible
  <2>2. ASSUME t \in revived PROVE FALSE
    <3> HIDE DEF revived
    <3>1. p \in UNION {Visible(u) : u \in revived}
      BY <2>1, <2>2
    <3> HIDE DEF q
    <3>2. p \in Siblings(revived, q) \/ p = q
      <4> DEFINE V == UNION {Visible(u) : u \in revived}
      <4>1. Siblings(revived, q) = V \ {q} /\ p \in V
        BY <3>1 DEF Siblings
      <4> HIDE DEF V
      <4>2. QED
        BY <4>1
    <3>3. p \in qs
      BY <3>2
    <3>4. QED
      BY <1>6, <3>3
  <2>3. QED
    BY <2>2
<1>7. ASSUME NEW t \in Table
      PROVE  /\ polls[t] \in TablePolls /\ polls[t].refcount = tablePolls[t].refcount
             /\ polls[t].terminal => tablePolls[t].terminal
             /\ t \in revived => /\ polls[t].loop = Min(FreeLoop(t)) /\ polls[t].loop # 0
                                 /\ polls[t].cursor = 0 /\ polls[t].terminal = FALSE /\ polls[t].silent = FALSE
                                 /\ LiveLoops(t) = {} /\ Watchers(t) # {}
             /\ t \notin revived => polls[t] = tablePolls[t]
  <2>1. tablePolls[t] \in TablePolls /\ tablePolls[t].refcount \in Nat
    BY <1>2, TablePollFacts
  <2>2. CASE t \in revived
    <3>1. tablePolls[t].terminal /\ polls[t] = Started(t, tablePolls[t].refcount)
      BY <2>2
    <3>2. tablePolls[t].loop = 0 /\ Watchers(t) # {} /\ LiveLoops(t) = {}
      BY <3>1, TablePollFacts DEF PollOk
    <3>3. FreeLoop(t) # {}
      BY <1>1, <2>2
    <3>4. PICK n \in Nat : n = tablePolls[t].refcount
      BY <2>1
    <3>5. /\ Started(t, n) \in TablePolls /\ Started(t, n).refcount = n
          /\ Started(t, n).loop = Min(FreeLoop(t)) /\ Started(t, n).loop # 0
          /\ Started(t, n).cursor = 0 /\ Started(t, n).terminal = FALSE /\ Started(t, n).silent = FALSE
      BY <3>3, StartedFacts
    <3>6. polls[t] = Started(t, n)
      BY <3>1, <3>4
    <3> HIDE DEF polls, revived
    <3>7. QED
      BY <2>2, <3>2, <3>4, <3>5, <3>6
  <2>3. CASE t \notin revived
    <3>1. polls[t] = tablePolls[t]
      BY <2>3
    <3> HIDE DEF polls, revived
    <3>2. QED
      BY <2>1, <2>3, <3>1
  <2>4. QED
    BY <2>2, <2>3
<1>8. polls \in [Table -> TablePolls]
  BY <1>7
<1> HIDE DEF polls, revived, qs, q
<1>9. /\ cache' \in [Sig -> Entries] /\ reads' \in [ReadId -> Reads]
      /\ \A p \in Sig : /\ cache'[p].on <=> cache[p].on
                        /\ cache'[p].data = cache[p].data
                        /\ EntryOk(p, cache'[p], polls, tableVer)
      /\ \A f \in ReadId : ReadOk(f[1], f[2], cache'[f[1]], reads'[f], polls, tableVer)
  <2>1. ASSUME NEW p \in Sig, ~(p \in qs /\ cache[p].on)
        PROVE  /\ EntryOk(p, cache[p], polls, tableVer)
               /\ \A k, r : ReadOk(p, k, cache[p], r, tablePolls, tableVer) =>
                            ReadOk(p, k, cache[p], r, polls, tableVer)
    <3>1. cache[p].on => \A t \in ChainTables[p] : /\ polls[t].terminal = tablePolls[t].terminal
                                                   /\ polls[t].cursor = tablePolls[t].cursor
      BY <1>6, <1>7, <2>1, PoolFacts
    <3>2. EntryOk(p, cache[p], tablePolls, tableVer)
      BY DEF PoolInv
    <3>3. QED
      BY <3>1, <3>2, SamePolls
  <2>2. ASSUME NEW p \in Sig, cache[p].on
        PROVE  /\ terminalErrorFor(p, polls) => cache[p].inFlight = 0
               /\ \A t \in Table : cache[p].data[t] <= tableVer[t]
    <3>1. EntryOk(p, cache[p], tablePolls, tableVer)
      BY DEF PoolInv
    <3>2. terminalErrorFor(p, polls) => terminalErrorFor(p, tablePolls)
      BY <1>7, PoolFacts DEF terminalErrorFor
    <3>3. QED
      BY <2>2, <3>1, <3>2 DEF EntryOk
  <2>3. \A p \in Sig : /\ p \in qs /\ cache[p].on =>
                            /\ terminalErrorFor(p, polls) => cache[p].inFlight = 0
                            /\ \A t \in Table : cache[p].data[t] <= tableVer[t]
                       /\ ~(p \in qs /\ cache[p].on) => EntryOk(p, cache[p], polls, tableVer)
    BY <2>1, <2>2
  <2>4. /\ \A f \in ReadId : ~(f[1] \in qs /\ cache[f[1]].on) =>
                               ReadOk(f[1], f[2], cache[f[1]], reads[f], polls, tableVer)
        /\ \A f \in ReadId : reads[f].pc = "read" => \A t \in Table : reads[f].data[t] <= tableVer[t]
    <3>1. ASSUME NEW f \in ReadId
          PROVE  f[1] \in Sig /\ ReadOk(f[1], f[2], cache[f[1]], reads[f], tablePolls, tableVer)
      BY OwnRead
    <3>2. QED
      BY <2>1, <3>1 DEF ReadOk
  <2> DEFINE cs2 == DispatchCache(qs, cache, polls)
             rs2 == DispatchReads(qs, cache, polls)
  <2>5. /\ cs2 \in [Sig -> Entries] /\ rs2 \in [ReadId -> Reads]
        /\ \A p \in Sig : /\ cs2[p].on <=> cache[p].on
                          /\ cs2[p].data = cache[p].data /\ cs2[p].has = cache[p].has
                          /\ EntryOk(p, cs2[p], polls, tableVer)
        /\ \A f \in ReadId : ReadOk(f[1], f[2], cs2[f[1]], rs2[f], polls, tableVer)
    BY <1>1, <1>2, <1>4, <2>3, <2>4, DispatchOk
  <2>6. cache' = cs2 /\ reads' = rs2
    BY <1>1
  <2> HIDE DEF cs2, rs2
  <2>7. QED
    BY <2>5, <2>6
<1>10. /\ loops' \in [LoopId -> Loops] /\ laps' \in [Table -> 0 .. MaxAttempt]
       /\ \A i \in LoopId : LoopOk(loops[i], tablePolls[i[1]], laps[i[1]], tableVer[i[1]])'
       /\ \A t \in revived : LiveLoops(t)' = {Min(FreeLoop(t))}
       /\ \A t \in Table \ revived : LiveLoops(t)' = LiveLoops(t)
  <2>1. /\ \A t \in revived : FreeLoop(t) # {} /\ LiveLoops(t) = {} /\ tablePolls'[t].cursor = 0
        /\ \A t \in Table \ revived : tablePolls'[t].cursor = tablePolls[t].cursor
    BY <1>1, <1>3, <1>7
  <2>2. QED
    BY <1>1, <1>3, <2>1, StartLoopsOk
<1>11. PoolTypes'
  BY <1>1, <1>8, <1>9, <1>10 DEF PoolInv, PoolTypes
<1>12. ASSUME NEW t \in Table PROVE PollOk(tablePolls[t], Watchers(t), LiveLoops(t), tableVer[t])'
  <2>1. /\ PollOk(tablePolls[t], Watchers(t), LiveLoops(t), tableVer[t]) /\ tableVer[t] \in Nat
        /\ tablePolls'[t] = polls[t] /\ tableVer'[t] = tableVer[t]
    BY <1>1, TablePollFacts
  <2>2. Watchers(t)' = Watchers(t)
    BY <1>1 DEF Watchers
  <2>3. CASE t \in revived
    <3>1. LiveLoops(t)' = {polls[t].loop}
      <4>1. LiveLoops(t)' = {Min(FreeLoop(t))}
        BY <1>10, <2>3
      <4>2. polls[t].loop = Min(FreeLoop(t))
        BY <1>7, <2>3
      <4>3. QED
        BY <4>1, <4>2
    <3>0. 0 <= tableVer[t]
      BY <2>1
    <3>2. QED
      BY <1>7, <2>1, <2>2, <2>3, <3>0, <3>1 DEF PollOk
  <2>4. CASE t \notin revived
    <3>1. LiveLoops(t)' = LiveLoops(t) /\ polls[t] = tablePolls[t]
      BY <1>7, <1>10, <2>4
    <3>2. QED
      BY <2>1, <2>2, <3>1
  <2>5. QED
    BY <2>3, <2>4
<1>13. \A p \in Sig : cache'[p].on <=> Subs(p)' # {}
  BY <1>1, <1>5, <1>9 DEF Subs
<1>14. QED
  BY <1>1, <1>9, <1>10, <1>11, <1>12, <1>13 DEF PoolInv

LEMMA DetachWatchers ==
  ASSUME PoolInv, NEW h \in Hook, NEW q \in Sig, mounted[h] = q,
         mounted' = [mounted EXCEPT ![h] = Unmounted]
  PROVE  /\ mounted' \in [Hook -> Sig \cup {Unmounted}]
         /\ Subs(q)' = Subs(q) \ {h} /\ h \in Subs(q)
         /\ \A p \in Sig \ {q} : Subs(p)' = Subs(p)
         /\ \A t \in ChainTables[q] :
              /\ h \in Watchers(t) /\ Watchers(t)' = Watchers(t) \ {h}
              /\ Cardinality(Watchers(t)') = tablePolls[t].refcount - 1
              /\ tablePolls[t].refcount = 1 <=> Watchers(t)' = {}
              /\ tablePolls[t].refcount \in Nat /\ tablePolls[t].refcount # 0
         /\ \A t \in Table \ ChainTables[q] : Watchers(t)' = Watchers(t)
         /\ \A p \in Sig : \A g \in Subs(p)' : \A t \in ChainTables[p] : g \in Watchers(t)'
<1>1. mounted \in [Hook -> Sig \cup {Unmounted}] /\ Unmounted \notin Sig
  BY PoolFacts DEF PoolInv, PoolTypes
<1>2. mounted' \in [Hook -> Sig \cup {Unmounted}] /\ mounted'[h] = Unmounted
      /\ \A g \in Hook \ {h} : mounted'[g] = mounted[g]
  BY <1>1
<1>3. /\ Subs(q)' = Subs(q) \ {h} /\ h \in Subs(q)
      /\ \A p \in Sig \ {q} : Subs(p)' = Subs(p)
  BY <1>1, <1>2 DEF Subs
<1>4. ASSUME NEW t \in ChainTables[q]
      PROVE  /\ h \in Watchers(t) /\ Watchers(t)' = Watchers(t) \ {h}
             /\ Cardinality(Watchers(t)') = tablePolls[t].refcount - 1
             /\ tablePolls[t].refcount = 1 <=> Watchers(t)' = {}
             /\ tablePolls[t].refcount \in Nat /\ tablePolls[t].refcount # 0
  <2>1. h \in Watchers(t) /\ Watchers(t)' = Watchers(t) \ {h}
    BY <1>1, <1>2 DEF Watchers
  <2>2. t \in Table
    BY PoolFacts
  <2>3. /\ IsFiniteSet(Watchers(t)) /\ tablePolls[t].refcount = Cardinality(Watchers(t))
        /\ tablePolls[t].refcount \in Nat /\ (tablePolls[t].refcount = 0 <=> Watchers(t) = {})
    BY <2>2, TablePollFacts DEF PollOk
  <2>4. /\ Cardinality(Watchers(t) \ {h}) = Cardinality(Watchers(t)) - 1
        /\ IsFiniteSet(Watchers(t) \ {h})
    BY <2>1, <2>3, FS_RemoveElement
  <2>5. Cardinality(Watchers(t) \ {h}) = 0 <=> Watchers(t) \ {h} = {}
    BY <2>4, FS_EmptySet
  <2>6. Watchers(t) # {}
    BY <2>1
  <2>7. Cardinality(Watchers(t)') = tablePolls[t].refcount - 1
    BY <2>1, <2>3, <2>4
  <2>8. tablePolls[t].refcount # 0
    BY <2>3, <2>6
  <2>9. tablePolls[t].refcount = 1 <=> Watchers(t)' = {}
    <3>1. PICK n \in Nat : n = tablePolls[t].refcount
      BY <2>3
    <3>2. n - 1 = 0 <=> Watchers(t) \ {h} = {}
      BY <2>3, <2>4, <2>5, <3>1
    <3>3. n - 1 = 0 <=> n = 1
      OBVIOUS
    <3>4. QED
      BY <2>1, <3>1, <3>2, <3>3
  <2>10. QED
    BY <2>1, <2>3, <2>7, <2>8, <2>9
<1>5. \A t \in Table \ ChainTables[q] : Watchers(t)' = Watchers(t)
  BY <1>1, <1>2 DEF Watchers
<1>6. \A p \in Sig : \A g \in Subs(p)' : \A t \in ChainTables[p] : g \in Watchers(t)'
  BY <1>1 DEF Subs, Watchers
<1>7. QED
  BY <1>2, <1>3, <1>4, <1>5, <1>6

LEMMA DetachInv ==
  ASSUME PoolInv, NEW h \in Hook, Detach(h)
  PROVE  PoolInv' /\ \A p \in Sig : cache'[p].has => cache'[p].data = cache[p].data
<1>1. PICK q \in Sig : q = mounted[h]
  BY DEF Detach, PoolInv, PoolTypes
<1>2. PICK last \in BOOLEAN : last = (Subs(q) = {h})
  OBVIOUS
<1> DEFINE stopped == {t \in ChainTables[q] : tablePolls[t].refcount = 1}
           o == [NoLoop EXCEPT !.pc = "out", !.aborted = TRUE]
<1>3. /\ mounted' = [mounted EXCEPT ![h] = Unmounted]
      /\ cache' = IF last THEN [cache EXCEPT ![q] = NoEntry] ELSE cache
      /\ reads' = [f \in DOMAIN reads |->
                     IF last /\ f = <<q, cache[q].inFlight>>
                     THEN [reads[f] EXCEPT !.aborted = TRUE] ELSE reads[f]]
      /\ tablePolls' = [t \in Table |-> IF t \in ChainTables[q] THEN stopTablePoll(t)
                                        ELSE tablePolls[t]]
      /\ loops' = [l \in DOMAIN loops |->
                     IF l[1] \in stopped /\ l[2] = tablePolls[l[1]].loop THEN o ELSE loops[l]]
      /\ UNCHANGED <<tableVer, tableFloor, laps>>
  BY <1>1, <1>2 DEF Detach
<1>4. /\ cache \in [Sig -> Entries] /\ reads \in [ReadId -> Reads] /\ loops \in [LoopId -> Loops]
      /\ tablePolls \in [Table -> TablePolls] /\ ChainTables[q] \subseteq Table
  BY PoolFacts DEF PoolInv, PoolTypes
<1>5. /\ mounted' \in [Hook -> Sig \cup {Unmounted}]
      /\ Subs(q)' = Subs(q) \ {h} /\ h \in Subs(q)
      /\ \A p \in Sig \ {q} : Subs(p)' = Subs(p)
      /\ \A t \in ChainTables[q] :
           /\ h \in Watchers(t) /\ Watchers(t)' = Watchers(t) \ {h}
           /\ Cardinality(Watchers(t)') = tablePolls[t].refcount - 1
           /\ tablePolls[t].refcount = 1 <=> Watchers(t)' = {}
           /\ tablePolls[t].refcount \in Nat /\ tablePolls[t].refcount # 0
      /\ \A t \in Table \ ChainTables[q] : Watchers(t)' = Watchers(t)
      /\ \A p \in Sig : \A g \in Subs(p)' : \A t \in ChainTables[p] : g \in Watchers(t)'
  BY <1>1, <1>3, DetachWatchers
<1>6. ASSUME NEW t \in Table
      PROVE  /\ tablePolls'[t] \in TablePolls
             /\ t \in stopped => tablePolls'[t] = NoPoll /\ Watchers(t)' = {}
             /\ t \in ChainTables[q] \ stopped =>
                  /\ tablePolls'[t].refcount = tablePolls[t].refcount - 1
                  /\ Watchers(t)' # {}
             /\ t \notin stopped =>
                  /\ tablePolls'[t].loop = tablePolls[t].loop
                  /\ tablePolls'[t].cursor = tablePolls[t].cursor
                  /\ tablePolls'[t].terminal = tablePolls[t].terminal
                  /\ tablePolls'[t].silent = tablePolls[t].silent
             /\ t \notin ChainTables[q] => tablePolls'[t] = tablePolls[t]
  <2>1. tablePolls[t] \in TablePolls
    BY <1>4
  <2>2. CASE t \in stopped
    BY <1>3, <1>5, <2>2, StartValues DEF stopTablePoll
  <2>3. CASE t \in ChainTables[q] /\ t \notin stopped
    <3>1. PICK n \in Nat : n = tablePolls[t].refcount - 1
      BY <1>5, <2>3
    <3>2. tablePolls'[t] = [tablePolls[t] EXCEPT !.refcount = n]
      BY <1>3, <2>3, <3>1 DEF stopTablePoll
    <3>3. Watchers(t)' # {}
      BY <1>5, <2>3
    <3> HIDE DEF stopped
    <3>4. QED
      BY <2>1, <2>3, <3>1, <3>2, <3>3 DEF TablePolls
  <2>4. CASE t \notin ChainTables[q]
    <3>1. tablePolls'[t] = tablePolls[t] /\ t \notin stopped
      BY <1>3, <2>4
    <3> HIDE DEF stopped
    <3>2. QED
      BY <2>1, <2>4, <3>1
  <2>5. QED
    BY <2>2, <2>3, <2>4
<1>7. tablePolls' \in [Table -> TablePolls]
  BY <1>3, <1>6
<1>8. stopped \in SUBSET ChainTables[q] /\ stopped \in SUBSET Table
  BY <1>4
<1> HIDE DEF stopped
<1>9. ASSUME NEW p \in Sig
      PROVE  /\ cache'[p].on <=> Subs(p)' # {}
             /\ cache'[p] = cache[p] \/ cache'[p] = NoEntry
             /\ cache'[p] \in Entries
             /\ last /\ p = q => cache'[p] = NoEntry
             /\ ~(last /\ p = q) => cache'[p] = cache[p]
  <2>1. cache[p].on <=> Subs(p) # {}
    BY DEF PoolInv
  <2>2. CASE p # q
    BY <1>3, <1>4, <1>5, <2>1, <2>2
  <2>3. CASE p = q /\ last
    <3>1. cache'[p] = NoEntry /\ Subs(p)' = {}
      BY <1>2, <1>3, <1>4, <1>5, <2>3
    <3>2. QED
      BY <2>3, <3>1, StartValues
  <2>4. CASE p = q /\ ~last
    <3>1. Subs(q)' # {}
      <4>1. Subs(q) # {h} /\ h \in Subs(q) /\ Subs(q)' = Subs(q) \ {h}
        BY <1>2, <1>5, <2>4
      <4>2. QED
        BY <4>1
    <3>2. QED
      BY <1>3, <1>4, <1>5, <2>1, <2>4, <3>1
  <2>5. QED
    BY <2>2, <2>3, <2>4
<1>10. cache' \in [Sig -> Entries]
  BY <1>3, <1>4, StartValues
<1>11. ASSUME NEW p \in Sig, cache'[p].on, NEW t \in ChainTables[p] PROVE t \notin stopped
  <2>1. PICK g \in Subs(p)' : TRUE
    BY <1>9, <1>11
  <2>2. g \in Watchers(t)'
    BY <1>5, <2>1
  <2>3. QED
    BY <1>6, <1>8, <2>2
<1>12. ASSUME NEW p \in Sig
       PROVE  /\ EntryOk(p, cache'[p], tablePolls', tableVer)
              /\ \A k, r : ReadOk(p, k, cache[p], r, tablePolls, tableVer) =>
                           ReadOk(p, k, cache'[p], r, tablePolls', tableVer)
  <2>1. PICK ps, e : ps = tablePolls' /\ e = cache'[p]
    OBVIOUS
  <2>2. e.on => \A t \in ChainTables[p] : /\ ps[t].terminal = tablePolls[t].terminal
                                          /\ ps[t].cursor = tablePolls[t].cursor
    BY <1>6, <1>11, <2>1, PoolFacts
  <2>3. EntryOk(p, e, tablePolls, tableVer)
    <3>1. CASE e = cache[p]
      BY <3>1 DEF PoolInv
    <3>2. CASE e = NoEntry
      <4>1. \A t \in Table : 0 <= tableVer[t]
        BY DEF PoolInv, PoolTypes, Versions
      <4>2. QED
        BY <3>2, <4>1, StartValues DEF EntryOk
    <3>3. QED
      BY <1>9, <2>1, <3>1, <3>2
  <2>4. \A k, r : ReadOk(p, k, cache[p], r, tablePolls, tableVer) => ReadOk(p, k, e, r, tablePolls, tableVer)
    <3>1. CASE e = cache[p]
      BY <3>1
    <3>2. CASE e = NoEntry
      BY <3>2, StartValues DEF ReadOk
    <3>3. QED
      BY <1>9, <2>1, <3>1, <3>2
  <2>5. EntryOk(p, e, ps, tableVer)
    BY <2>2, <2>3, SamePolls
  <2>6. \A k, r : ReadOk(p, k, e, r, tablePolls, tableVer) => ReadOk(p, k, e, r, ps, tableVer)
    BY <2>2, SamePolls
  <2>7. QED
    BY <2>1, <2>4, <2>5, <2>6
<1>13. ASSUME NEW f \in ReadId
       PROVE  reads'[f] \in Reads /\ ReadOk(f[1], f[2], cache'[f[1]], reads'[f], tablePolls', tableVer)
  <2>1. PICK p \in Sig, j \in Nat : p = f[1] /\ j = f[2] /\ f = <<p, j>> /\ j # 0
    BY OwnRead
  <2>2. reads[f] \in Reads /\ ReadOk(p, j, cache[p], reads[f], tablePolls, tableVer)
    BY <2>1, OwnRead
  <2>3. ReadOk(p, j, cache'[p], reads[f], tablePolls', tableVer)
    BY <1>12, <2>2
  <2>4. reads'[f] \in {reads[f], [reads[f] EXCEPT !.aborted = TRUE]}
    BY <1>3, <1>4
  <2>5. CASE reads'[f] = reads[f]
    BY <2>1, <2>2, <2>3, <2>5
  <2>6. CASE reads'[f] = [reads[f] EXCEPT !.aborted = TRUE]
    <3>1. /\ reads'[f] \in Reads /\ reads'[f].pc = reads[f].pc /\ reads'[f].data = reads[f].data
          /\ reads'[f].aborted
      BY <2>2, <2>6 DEF Reads
    <3>2. QED
      BY <2>1, <2>3, <3>1 DEF ReadOk
  <2>7. QED
    BY <2>4, <2>5, <2>6
<1>14. reads' \in [ReadId -> Reads]
  <2>1. reads' = [f \in ReadId |-> reads'[f]]
    BY <1>3, <1>4
  <2>2. QED
    BY <1>13, <2>1
<1>15. o \in Loops /\ o.pc = "out" /\ o.aborted = TRUE /\ o.answer = "none"
  <2>1. o \in Loops
    BY StartValues DEF Loops
  <2>2. QED
    BY <2>1 DEF NoLoop
<1> HIDE DEF o
<1>16. \A i \in LoopId : loops'[i] = IF i[1] \in stopped /\ i[2] = tablePolls[i[1]].loop THEN o ELSE loops[i]
  BY <1>3, <1>4
<1>17. PoolTypes'
  <2>1. loops' = [i \in LoopId |-> loops'[i]]
    BY <1>3, <1>4
  <2>2. \A i \in LoopId : loops'[i] \in Loops
    BY <1>4, <1>15, <1>16
  <2>3. loops' \in [LoopId -> Loops]
    BY <2>1, <2>2
  <2>4. QED
    BY <1>3, <1>5, <1>7, <1>10, <1>14, <2>3 DEF PoolInv, PoolTypes
<1>18. \A t \in stopped : LiveLoops(t)' = {} /\ \A k \in 1 .. MaxLoops :
                            ~(loops'[<<t, k>>].pc # "free" /\ ~loops'[<<t, k>>].aborted)
  <2>1. SUFFICES ASSUME NEW t \in stopped, NEW k \in 1 .. MaxLoops
                 PROVE  ~(loops'[<<t, k>>].pc # "free" /\ ~loops'[<<t, k>>].aborted)
    BY DEF LiveLoops
  <2>2. loops'[<<t, k>>] = IF k = tablePolls[t].loop THEN o ELSE loops[<<t, k>>]
    BY <1>8, <1>16 DEF LoopId
  <2>3. CASE k = tablePolls[t].loop
    BY <1>15, <2>2, <2>3
  <2>4. CASE k # tablePolls[t].loop
    <3>1. k \notin LiveLoops(t)
      BY <1>8, <2>4, TablePollFacts DEF PollOk
    <3>2. QED
      BY <2>2, <2>4, <3>1 DEF LiveLoops
  <2>5. QED
    BY <2>3, <2>4
<1>19. \A t \in Table \ stopped : LiveLoops(t)' = LiveLoops(t)
  <2>1. SUFFICES ASSUME NEW t \in Table \ stopped PROVE LiveLoops(t)' = LiveLoops(t)
    OBVIOUS
  <2>2. \A k \in 1 .. MaxLoops : loops'[<<t, k>>] = loops[<<t, k>>]
    BY <1>16 DEF LoopId
  <2>3. QED
    BY <2>2 DEF LiveLoops
<1>20. ASSUME NEW t \in Table PROVE PollOk(tablePolls[t], Watchers(t), LiveLoops(t), tableVer[t])'
  <2>1. PollOk(tablePolls[t], Watchers(t), LiveLoops(t), tableVer[t]) /\ tableVer'[t] = tableVer[t]
        /\ tableVer[t] \in Nat
    BY <1>3, TablePollFacts
  <2>2. CASE t \in stopped
    <3>1. tablePolls'[t] = NoPoll /\ Watchers(t)' = {} /\ LiveLoops(t)' = {} /\ 0 <= tableVer[t]
      BY <1>6, <1>18, <2>1, <2>2
    <3>2. Cardinality({}) = 0
      BY FS_EmptySet
    <3>3. QED
      BY <2>1, <3>1, <3>2, StartValues DEF PollOk
  <2>3. CASE t \in ChainTables[q] /\ t \notin stopped
    <3>1. /\ Cardinality(Watchers(t)') = tablePolls[t].refcount - 1 /\ LiveLoops(t)' = LiveLoops(t)
          /\ Watchers(t) # {}
      BY <1>5, <1>19, <2>3
    <3>2. /\ tablePolls'[t].refcount = tablePolls[t].refcount - 1 /\ Watchers(t)' # {}
          /\ tablePolls'[t].loop = tablePolls[t].loop
          /\ tablePolls'[t].cursor = tablePolls[t].cursor
          /\ tablePolls'[t].terminal = tablePolls[t].terminal
          /\ tablePolls'[t].silent = tablePolls[t].silent
      BY <1>6, <2>3
    <3>3. QED
      BY <2>1, <3>1, <3>2 DEF PollOk
  <2>4. CASE t \notin ChainTables[q]
    <3>1. /\ t \notin stopped /\ tablePolls'[t] = tablePolls[t] /\ Watchers(t)' = Watchers(t)
          /\ LiveLoops(t)' = LiveLoops(t)
      BY <1>5, <1>6, <1>8, <1>19, <2>4
    <3>2. QED
      BY <2>1, <3>1
  <2>5. QED
    BY <2>2, <2>3, <2>4
<1>21. ASSUME NEW i \in LoopId
       PROVE  LoopOk(loops[i], tablePolls[i[1]], laps[i[1]], tableVer[i[1]])'
  <2>1. PICK t \in Table, k \in 1 .. MaxLoops : i = <<t, k>> /\ i[1] = t /\ i[2] = k
    BY DEF LoopId
  <2>2. LoopOk(loops[i], tablePolls[t], laps[t], tableVer[t])
    BY <2>1, LoopTypes
  <2>3. CASE t \notin stopped
    <3>1. loops'[i] = loops[i] /\ tablePolls'[t].cursor = tablePolls[t].cursor
      BY <1>6, <1>16, <2>1, <2>3
    <3>2. QED
      BY <1>3, <2>1, <2>2, <3>1 DEF LoopOk
  <2>4. CASE t \in stopped
    <3>1. ~(loops'[i].pc # "free" /\ ~loops'[i].aborted)
      BY <1>18, <2>1, <2>4
    <3>2. loops'[i] = o \/ loops'[i] = loops[i]
      BY <1>16
    <3>3. loops'[i].pc # "answered" => loops'[i].answer = "none"
      BY <1>15, <2>2, <3>2 DEF LoopOk
    <3>4. QED
      BY <3>1, <3>3 DEF LoopOk
  <2>5. QED
    BY <2>3, <2>4
<1>22. PoolInv'
  BY <1>3, <1>9, <1>12, <1>13, <1>17, <1>20, <1>21 DEF PoolInv
<1>23. \A p \in Sig : cache'[p].has => cache'[p].data = cache[p].data
  BY <1>9, StartValues
<1>24. QED
  BY <1>22, <1>23

-----------------------------------------------------------------------------
(* The pool's theorems.                                                    *)

LEMMA PoolInvInit == PoolInit => PoolInv
<1> SUFFICES ASSUME PoolInit PROVE PoolInv
  OBVIOUS
<1>1. /\ tableVer = [t \in Table |-> 0] /\ tableFloor = [t \in Table |-> 0]
      /\ mounted = [h \in Hook |-> Unmounted] /\ cache = [q \in Sig |-> NoEntry]
      /\ reads = [f \in ReadId |-> NoRead] /\ tablePolls = [t \in Table |-> NoPoll]
      /\ loops = [l \in LoopId |-> NoLoop] /\ laps = [t \in Table |-> 0]
  BY DEF PoolInit, LoopId
<1>2. PoolTypes
  <2>1. [t \in Table |-> 0] \in Versions /\ [t \in Table |-> 0] \in [Table -> 0 .. MaxAttempt]
    BY PoolFacts DEF Versions
  <2>2. QED
    BY <1>1, <2>1, StartValues DEF PoolTypes
<1>3. ASSUME NEW t \in Table PROVE PollOk(tablePolls[t], Watchers(t), LiveLoops(t), tableVer[t])
  <2>1. Watchers(t) = {} /\ tablePolls[t] = NoPoll /\ tableVer[t] = 0
    BY <1>1 DEF Watchers
  <2>2. \A k \in 1 .. MaxLoops : loops[<<t, k>>] = NoLoop
    BY <1>1 DEF LoopId
  <2>3. LiveLoops(t) = {}
    BY <2>2, StartValues DEF LiveLoops
  <2>4. Cardinality({}) = 0
    BY FS_EmptySet
  <2>5. QED
    BY <2>1, <2>3, <2>4, StartValues DEF PollOk
<1>4. \A l \in LoopId : LoopOk(loops[l], tablePolls[l[1]], laps[l[1]], tableVer[l[1]])
  BY <1>1, StartValues DEF LoopOk
<1>5. ASSUME NEW q \in Sig
      PROVE  (cache[q].on <=> Subs(q) # {}) /\ EntryOk(q, cache[q], tablePolls, tableVer)
  <2>1. Subs(q) = {} /\ cache[q] = NoEntry
    BY <1>1, PoolFacts DEF Subs
  <2>2. \A t \in Table : 0 <= tableVer[t]
    BY <1>1
  <2>3. QED
    BY <2>1, <2>2, StartValues DEF EntryOk
<1>6. \A f \in ReadId : ReadOk(f[1], f[2], cache[f[1]], reads[f], tablePolls, tableVer)
  BY <1>1, StartValues DEF ReadOk
<1>7. QED
  BY <1>2, <1>3, <1>4, <1>5, <1>6 DEF PoolInv

LEMMA PoolInvNext == PoolInv /\ [PoolNext]_poolVars => PoolInv'
<1> SUFFICES ASSUME PoolInv, [PoolNext]_poolVars PROVE PoolInv'
  OBVIOUS
<1>1. CASE UNCHANGED poolVars
  <2>1. UNCHANGED <<tableVer, tableFloor, mounted, cache, reads, tablePolls, loops, laps>>
    BY <1>1 DEF poolVars
  <2>2. tableVer \in Versions /\ tableFloor \in Versions
    BY DEF PoolInv, PoolTypes
  <2>3. tableVer' \in Versions /\ tableFloor' \in Versions /\ \A t \in Table : tableVer[t] <= tableVer'[t]
    BY <2>1, <2>2 DEF Versions
  <2>4. QED
    BY <2>1, <2>3, ServerStep
<1>2. ASSUME NEW h \in Hook, NEW q \in Sig, Attach(h, q) PROVE PoolInv'
  BY <1>2, AttachInv
<1>3. ASSUME NEW h \in Hook, Detach(h) \/ Refetch(h) PROVE PoolInv'
  BY <1>3, DetachInv, RefetchInv
<1>4. ASSUME NEW f \in ReadId,
             ServerRead(f[1], f[2]) \/ FetchArrives(f[1], f[2]) \/ FetchFails(f[1], f[2])
      PROVE  PoolInv'
  BY <1>4, ServerReadInv, FetchArrivesInv, FetchFailsInv
<1>5. ASSUME NEW t \in Table, NEW k \in 1 .. MaxLoops,
             \/ PollAnswered(t, k) \/ LoopSucceeds(t, k) \/ LoopRecovers(t, k)
             \/ LoopRetries(t, k) \/ BackoffEnds(t, k) \/ LoopDies(t, k) \/ LoopReturns(t, k)
             \/ LoopGivesUp(t, k)
      PROVE  PoolInv'
  BY <1>5, PollAnsweredInv, LoopSucceedsInv, LoopRecoversInv, LoopRetriesInv, BackoffEndsInv,
     LoopDiesInv, LoopReturnsInv, LoopGivesUpInv
<1>6. ASSUME NEW t \in Table, ServerCommit(t) \/ ServerFold(t) PROVE PoolInv'
  BY <1>6, ServerCommitInv, ServerFoldInv
<1>7. QED
  BY <1>1, <1>2, <1>3, <1>4, <1>5, <1>6 DEF PoolNext

(* The pool's inductive invariant: what each poll, loop, entry and read    *)
(* knows of the others, whichever hooks mount and unmount and whichever    *)
(* requests finish late.                                                   *)
THEOREM PoolInvHolds == PoolSpec => []PoolInv
<1>1. PoolInit => PoolInv
  BY PoolInvInit
<1>2. PoolInv /\ [PoolNext]_poolVars => PoolInv'
  BY PoolInvNext
<1>3. QED
  BY <1>1, <1>2, PTL DEF PoolSpec

(* A table is polled by exactly one loop while somebody watches it, unless *)
(* that loop ended on a permanent error or on an AbortError of the fetch,  *)
(* and by none otherwise, however the hooks come and go (attach,           *)
(* stopTablePoll, restartTerminalPoll).                                    *)
THEOREM WatchedTablesHaveOnePoll == PoolSpec => []OnePollPerTable
<1>1. PoolInv => OnePollPerTable
  <2> SUFFICES ASSUME PoolInv, NEW t \in Table
               PROVE  /\ tablePolls[t].refcount = Cardinality(Watchers(t))
                      /\ LiveLoops(t) = IF tablePolls[t].loop = 0 THEN {} ELSE {tablePolls[t].loop}
                      /\ (tablePolls[t].terminal \/ tablePolls[t].silent)
                           = (Watchers(t) # {} /\ tablePolls[t].loop = 0)
                      /\ ~(tablePolls[t].terminal /\ tablePolls[t].silent)
    BY DEF OnePollPerTable, Watchers, LiveLoops
  <2>1. /\ PollOk(tablePolls[t], Watchers(t), LiveLoops(t), tableVer[t])
        /\ tablePolls[t].terminal \in BOOLEAN /\ tablePolls[t].silent \in BOOLEAN
    BY DEF PoolInv, PoolTypes, TablePolls
  <2>2. QED
    BY <2>1 DEF PollOk
<1>2. QED
  BY <1>1, PoolInvHolds, PTL

(* What a table's loop reported is on the screen of every query that says  *)
(* "ok": no read that was under way when the events came is shown as       *)
(* current (invalidateForTable, dispatchFetch).                            *)
THEOREM ReportedDataIsShown == PoolSpec => []ReportedIsShown
<1>1. PoolInv => ReportedIsShown
  <2> SUFFICES ASSUME PoolInv, NEW q \in Sig, cache[q].on, cache[q].status = "ok", NEW t \in ChainTables[q]
               PROVE  tablePolls[t].cursor <= cache[q].data[t]
    BY DEF ReportedIsShown
  <2>1. EntryOk(q, cache[q], tablePolls, tableVer)
    BY DEF PoolInv
  <2>2. QED
    BY <2>1 DEF EntryOk
<1>2. QED
  BY <1>1, PoolInvHolds, PTL

(* No query stays parked on an error whose poll has been revived (refetch, *)
(* restartTerminalPoll).                                                   *)
THEOREM ParkedQueriesHaveADeadPoll == PoolSpec => []ParkedOnlyOnDeadPoll
<1>1. PoolInv => ParkedOnlyOnDeadPoll
  BY DEF PoolInv, EntryOk, ParkedOnlyOnDeadPoll
<1>2. QED
  BY <1>1, PoolInvHolds, PTL

(* However often a cursor dies in a row, the loop has backed off as often: *)
(* recovery never becomes a tight loop (runTablePoll, recoveryProven).     *)
THEOREM RecoveriesBackOff == PoolSpec => []RecoveryBacksOff
<1>1. PoolInv => RecoveryBacksOff
  <2> SUFFICES ASSUME PoolInv, NEW t \in Table, tablePolls[t].loop # 0
               PROVE  laps[t] <= loops[<<t, tablePolls[t].loop>>].attempt
    BY DEF RecoveryBacksOff
  <2>1. LiveLoops(t) = {tablePolls[t].loop}
    BY DEF PoolInv, PollOk
  <2>2. PICK k \in 1 .. MaxLoops : k = tablePolls[t].loop /\ loops[<<t, k>>].pc # "free"
                                   /\ ~loops[<<t, k>>].aborted
    BY <2>1 DEF LiveLoops
  <2>3. LoopOk(loops[<<t, k>>], tablePolls[t], laps[t], tableVer[t])
    BY LoopTypes
  <2>4. QED
    BY <2>2, <2>3 DEF LoopOk
<1>2. QED
  BY <1>1, PoolInvHolds, PTL

(* A read that arrives is at least as new as what it replaces.             *)
LEMMA ArrivalIsNewer ==
  ASSUME PoolInv, NEW f \in ReadId, FetchArrives(f[1], f[2]), NEW q \in Sig, cache[q].has,
         NEW t \in ChainTables[q]
  PROVE  cache[q].data[t] <= cache'[q].data[t]
<1>1. /\ cache[q] \in Entries /\ t \in Table /\ cache \in [Sig -> Entries]
      /\ cache[q].data[t] \in Nat
  BY PoolFacts DEF PoolInv, PoolTypes, Entries, Versions
<1>2. CASE q = f[1] /\ Current(f[1], f[2])
  <2>1. /\ cache'[q].data = reads[f].data /\ reads[f].pc = "read" /\ ~reads[f].aborted /\ cache[q].on
        /\ cache[q].inFlight = f[2] /\ ReadOk(q, f[2], cache[q], reads[f], tablePolls, tableVer)
    BY <1>1, <1>2, OwnRead DEF FetchArrives, Current, Entries
  <2>2. QED
    BY <2>1 DEF ReadOk
<1>3. CASE ~(q = f[1] /\ Current(f[1], f[2]))
  <2>1. cache'[q] = cache[q]
    BY <1>1, <1>3 DEF FetchArrives
  <2>2. QED
    BY <1>1, <2>1
<1>4. QED
  BY <1>2, <1>3

(* No step replaces what a query shows by older data: a superseded read    *)
(* that finishes late is dropped (dispatchFetch).                          *)
THEOREM ShownDataNeverRegresses == PoolSpec => DataNeverRegresses
<1>1. ASSUME PoolInv, [PoolNext]_poolVars
      PROVE  [\A q \in Sig : cache[q].has /\ cache'[q].has =>
                \A t \in ChainTables[q] : cache[q].data[t] <= cache'[q].data[t]]_poolVars
  <2> SUFFICES ASSUME PoolNext, NEW q \in Sig, cache[q].has, cache'[q].has, NEW t \in ChainTables[q]
               PROVE  cache[q].data[t] <= cache'[q].data[t]
    BY <1>1
  <2> USE <1>1
  <2>1. cache[q].data[t] \in Nat /\ cache \in [Sig -> Entries]
    BY PoolFacts DEF PoolInv, PoolTypes, Entries, Versions
  <2>2. ASSUME cache'[q].data = cache[q].data PROVE cache[q].data[t] <= cache'[q].data[t]
    BY <2>1, <2>2
  <2>3. ASSUME NEW h \in Hook, NEW p \in Sig, Attach(h, p) PROVE cache[q].data[t] <= cache'[q].data[t]
    BY <2>2, <2>3, AttachInv
  <2>4. ASSUME NEW h \in Hook, Detach(h) \/ Refetch(h) PROVE cache[q].data[t] <= cache'[q].data[t]
    BY <2>2, <2>4, DetachInv, RefetchInv
  <2>5. ASSUME NEW f \in ReadId, FetchArrives(f[1], f[2]) PROVE cache[q].data[t] <= cache'[q].data[t]
    BY <2>5, ArrivalIsNewer
  <2>6. ASSUME NEW f \in ReadId, ServerRead(f[1], f[2]) \/ FetchFails(f[1], f[2])
        PROVE  cache[q].data[t] <= cache'[q].data[t]
    <3>1. cache'[q].data = cache[q].data
      BY <2>1, <2>6 DEF ServerRead, FetchFails, Entries
    <3>2. QED
      BY <2>2, <3>1
  <2>7. ASSUME NEW u \in Table, NEW k \in 1 .. MaxLoops,
               \/ PollAnswered(u, k) \/ LoopRetries(u, k) \/ BackoffEnds(u, k) \/ LoopReturns(u, k)
               \/ LoopGivesUp(u, k) \/ ServerCommit(u) \/ ServerFold(u)
        PROVE  cache[q].data[t] <= cache'[q].data[t]
    BY <2>1, <2>7 DEF PollAnswered, LoopRetries, BackoffEnds, LoopReturns, LoopGivesUp, ServerCommit,
       ServerFold
  <2>8. ASSUME NEW u \in Table, NEW k \in 1 .. MaxLoops,
               LoopSucceeds(u, k) \/ LoopRecovers(u, k) \/ LoopDies(u, k)
        PROVE  cache[q].data[t] <= cache'[q].data[t]
    BY <2>2, <2>8, LoopSucceedsInv, LoopRecoversInv, LoopDiesInv
  <2>9. ASSUME NEW u \in Table, ServerCommit(u) \/ ServerFold(u)
        PROVE  cache[q].data[t] <= cache'[q].data[t]
    BY <2>1, <2>9 DEF ServerCommit, ServerFold
  <2>10. QED
    BY <2>3, <2>4, <2>5, <2>6, <2>7, <2>8, <2>9 DEF PoolNext
<1>2. QED
  BY <1>1, PoolInvHolds, PTL DEF PoolSpec, DataNeverRegresses

=============================================================================
