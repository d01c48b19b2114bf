--------------------------- MODULE MaintenanceTick ---------------------------
(***************************************************************************)
(* The write-tick maintenance a commit dispatches: runBoundedMaintenance    *)
(* decides between a fold, a garbage-collection pass and a tail_hint        *)
(* refresh, from a manifest that other ticks change under it.               *)
(*                                                                         *)
(* A fold, a GC pass and a retirement are one step each (CommitLog,         *)
(* SnapshotGc); sizes are abstracted: whether the tail-to-snapshot ratio    *)
(* trips and whether the snapshot is under the ceilings is a choice.        *)
(***************************************************************************)
EXTENDS Integers, FiniteSets, FiniteSetsExt

CONSTANTS
  Isolate,      \* processes that commit and run ticks
  MaxTail,      \* bound: commits
  GcInterval,   \* profile.gcInterval
  StarveGuard,  \* GC_STARVATION_GUARD
  RefreshGap,   \* MAINTENANCE_TAIL_HINT_REFRESH_WRITES
  WarnGap,      \* MAINTENANCE_WARN_INTERVAL_WRITES
  FoldFloor,    \* minEntriesToCompact
  FoldMax,      \* profile.maxFoldEntriesPerPass
  MaxTickFaults, \* bound: ticks that fail or die
  MaxScheduled  \* bound: scheduled passes

VARIABLES
  phases,   \* "single" or "both" phases per tick, or "disabled"
  logTail,  \* the true tail
  cur,      \* current.json: [start, hint, floor, warned]
  tick,     \* local state of every isolate's tick
  sched,    \* the scheduled pass: [pc, runs]
  gcAt,     \* history: the true tail when the last GC pass began
  tickFaults \* history: ticks that failed or died, and refreshes lost to a peer

tickVars == <<phases, logTail, cur, tick, sched, gcAt, tickFaults>>

ASSUME TickAssumption ==
  /\ {MaxTail, GcInterval, StarveGuard, RefreshGap, WarnGap, FoldFloor, FoldMax} \subseteq Nat \ {0}
  /\ {MaxTickFaults, MaxScheduled} \subseteq Nat
  /\ IsFiniteSet(Isolate)

NeverWarned == -1
NewCurrent == [start |-> 0, hint |-> 0, floor |-> 0, warned |-> NeverWarned]

(* lagging, warnDue and gcDue are decided once, from the manifest the tick *)
(* read; unchanged says whether the ETag a CAS holds is still current.     *)
Idle == [pc |-> "idle", prev |-> 0, next |-> 0, lagging |-> FALSE, warnDue |-> FALSE,
         gcDue |-> FALSE, published |-> FALSE, stamp |-> FALSE,
         unchanged |-> FALSE, then |-> "idle"]

TickInit ==
  /\ phases \in {"single", "both", "disabled"}
  /\ logTail = 0
  /\ cur = NewCurrent
  /\ tick = [w \in Isolate |-> Idle]
  /\ sched = [pc |-> "idle", runs |-> 0]
  /\ gcAt = 0 /\ tickFaults = 0

crossesGcBoundary(prev, next, interval) == prev \div interval # next \div interval

HardInterval == GcInterval * StarveGuard

-----------------------------------------------------------------------------
(* A commit wins the slot at the tail; preCommitTail may be one behind it. *)
(* Whether a tick is due is decided from the observed tail, without a      *)
(* storage call; hot: the ratio trips.                                     *)
MaintenanceDue(prev, observed, hot) ==
  IF phases = "disabled" THEN observed - cur.hint >= RefreshGap
  ELSE hot \/ crossesGcBoundary(prev, observed, GcInterval)

CommitAndDispatch(w) ==
  /\ tick[w].pc = "idle" /\ logTail < MaxTail
  /\ logTail' = logTail + 1
  /\ \E prev \in {logTail, Max({logTail - 1, 0})}, hot \in BOOLEAN :
       tick' = [tick EXCEPT ![w] =
         IF MaintenanceDue(prev, logTail + 1, hot)
         THEN [Idle EXCEPT !.pc = "read", !.prev = prev, !.next = logTail + 1] ELSE Idle]
  /\ UNCHANGED <<phases, cur, gcAt, tickFaults, sched>>

(* Step 1 and the choice of the tick's phase: disabled, the hard GC        *)
(* boundary a fold may not preempt, a fold, a deferral, or GC.             *)
FirstPhase_FoldFirst(next, prev, man, hot, viable) ==
  IF phases = "disabled" THEN "finally"
  ELSE IF hot /\ next - man.start >= FoldFloor
       THEN IF viable THEN "fold" ELSE "signal"
  ELSE IF crossesGcBoundary(prev, next, GcInterval) THEN "gc" ELSE "retire"
FirstPhase(next, prev, man, hot, viable) ==
  IF phases = "disabled" THEN "finally"
  ELSE IF phases = "single" /\ crossesGcBoundary(prev, next, HardInterval) THEN "gc"
  ELSE IF hot /\ next - man.start >= FoldFloor
       THEN IF viable THEN "fold" ELSE "signal"
  ELSE IF crossesGcBoundary(prev, next, GcInterval) THEN "gc" ELSE "retire"

TickRead(w) ==
  LET t == tick[w]
      next == Max({t.next, cur.start, cur.hint})
  IN /\ t.pc = "read"
     /\ \E hot, viable \in BOOLEAN :
          tick' = [tick EXCEPT ![w] =
            [Idle EXCEPT
               !.next = next,
               !.lagging = next - cur.hint >= RefreshGap,
               !.warnDue = cur.warned = NeverWarned \/ next - cur.warned >= WarnGap,
               !.gcDue = crossesGcBoundary(t.prev, next, GcInterval),
               !.pc = FirstPhase(next, t.prev, cur, hot, viable)]]
     /\ UNCHANGED <<phases, logTail, cur, sched, gcAt, tickFaults>>

(* A PUT of current.json gives it a new ETag: the CAS of a peer will lose. *)
Overwrite(new, locals) ==
  /\ cur' = new
  /\ tick' = IF new = cur THEN locals
             ELSE [w \in Isolate |-> [locals[w] EXCEPT !.unchanged = FALSE]]

(* After the fold phase: "single" has had its phase, "both" goes on to GC  *)
(* when it is due.                                                         *)
AfterDefer(t) == IF t.gcDue THEN "gc" ELSE "retire"
AfterFold(t) == IF phases = "single" THEN "finally" ELSE AfterDefer(t)

Folded(c, tail) ==
  {[c EXCEPT !.start = to, !.hint = Max({@, tail})] :
     to \in (c.start + 1) .. Min({c.start + FoldMax, tail})}

(* compact(): a written fold advances the floor and stamps the discovered  *)
(* tail; otherwise nothing is published; a rebuilt snapshot over the       *)
(* ceilings is deferred and signalled.                                     *)
TickFold(w) ==
  LET t == tick[w] IN
  /\ t.pc = "fold"
  /\ \/ \E new \in Folded(cur, logTail) :
          Overwrite(new, [tick EXCEPT ![w] = [t EXCEPT !.published = TRUE, !.pc = AfterFold(t)]])
     \/ /\ tick' = [tick EXCEPT ![w].pc = AfterFold(t)]
        /\ UNCHANGED cur
     \/ /\ tick' = [tick EXCEPT ![w] = [t EXCEPT !.pc = "signal", !.then = AfterFold(t)]]
        /\ UNCHANGED cur
  /\ UNCHANGED <<phases, logTail, sched, gcAt, tickFaults>>

(* refreshTailHintIfNeeded: at most one publication a tick, once the hint  *)
(* of the manifest the tick read lags by the interval; a deferral's        *)
(* warning stamp goes out in any case.                                     *)
RefreshDue(t, stamp) == stamp \/ (~t.published /\ t.lagging)

(* The CAS reads current.json afresh (here) and PUTs under its ETag.       *)
Refreshing(t, stamp, then) ==
  IF RefreshDue(t, stamp)
  THEN [t EXCEPT !.pc = "put", !.published = TRUE, !.unchanged = TRUE, !.stamp = stamp,
                 !.then = then]
  ELSE [t EXCEPT !.pc = then]

(* signalFoldDeferred: a pre-fold deferral still goes on to GC.            *)
TickSignal(w) ==
  LET t == tick[w]
      then == IF t.then = "idle" THEN AfterDefer(t) ELSE t.then
  IN /\ t.pc = "signal"
     /\ tick' = [tick EXCEPT ![w] = Refreshing(t, t.warnDue, then)]
     /\ UNCHANGED <<phases, logTail, cur, sched, gcAt, tickFaults>>

Resumed(t) == IF t.then = "idle" THEN Idle
              ELSE [t EXCEPT !.pc = t.then, !.stamp = FALSE, !.unchanged = FALSE, !.then = "idle"]

TickPut(w) ==
  LET t == tick[w] IN
  /\ t.pc = "put"
  /\ \/ /\ t.unchanged
        /\ Overwrite([cur EXCEPT !.hint = Max({@, t.next}),
                                 !.warned = IF t.stamp THEN t.next ELSE @],
                     [tick EXCEPT ![w] = Resumed(t)])
        /\ UNCHANGED tickFaults
     \/ /\ ~t.unchanged
        /\ tick' = [tick EXCEPT ![w] = Resumed(t)]
        /\ tickFaults < MaxTickFaults /\ tickFaults' = tickFaults + 1
        /\ UNCHANGED cur
  /\ UNCHANGED <<phases, logTail, sched, gcAt>>

(* runGc, then the refresh, then retirement.                               *)
TickGc(w) ==
  /\ tick[w].pc = "gc"
  /\ gcAt' = logTail
  /\ tick' = [tick EXCEPT ![w] = Refreshing(tick[w], FALSE, "retire")]
  /\ UNCHANGED <<phases, logTail, cur, sched, tickFaults>>

(* retireLogRange moves the delete floor, and so the ETag; it has nothing  *)
(* to do when the fold floor has not moved (the window is 0 here).         *)
TickRetire(w) ==
  /\ tick[w].pc = "retire"
  /\ Overwrite([cur EXCEPT !.floor = cur.start], [tick EXCEPT ![w].pc = "finally"])
  /\ UNCHANGED <<phases, logTail, sched, gcAt, tickFaults>>

(* The closing refresh of every exit.                                      *)
Closing_None(t) == Idle
Closing(t) == IF RefreshDue(t, FALSE) THEN Refreshing(t, FALSE, "idle") ELSE Idle

TickFinally(w) ==
  /\ tick[w].pc = "finally"
  /\ tick' = [tick EXCEPT ![w] = Closing(tick[w])]
  /\ UNCHANGED <<phases, logTail, cur, sched, gcAt, tickFaults>>

(* A phase throws: the rest of the tick is skipped up to the finally.      *)
TickThrows(w) ==
  /\ tick[w].pc \in {"fold", "gc", "retire"} /\ tickFaults < MaxTickFaults
  /\ tickFaults' = tickFaults + 1
  /\ tick' = [tick EXCEPT ![w].pc = "finally"]
  /\ UNCHANGED <<phases, logTail, cur, sched, gcAt>>

(* The isolate dies, or the dispatched task never runs.                    *)
TickDies(w) ==
  /\ tick[w].pc # "idle" /\ tickFaults < MaxTickFaults
  /\ tickFaults' = tickFaults + 1
  /\ tick' = [tick EXCEPT ![w] = Idle]
  /\ UNCHANGED <<phases, logTail, cur, sched, gcAt>>

(* runScheduledMaintenance: a fold, a GC pass and a retirement in turn,    *)
(* with no gate and no refresh; an error propagates and ends the pass.     *)
ScheduledFold ==
  /\ sched.pc = "idle" /\ sched.runs < MaxScheduled
  /\ sched' = [pc |-> "gc", runs |-> sched.runs + 1]
  /\ \E new \in {cur} \cup Folded(cur, logTail) : Overwrite(new, tick)
  /\ UNCHANGED <<phases, logTail, gcAt, tickFaults>>

ScheduledGc ==
  /\ sched.pc = "gc"
  /\ sched' = [sched EXCEPT !.pc = "retire"]
  /\ gcAt' = logTail
  /\ UNCHANGED <<phases, logTail, cur, tick, tickFaults>>

ScheduledRetire ==
  /\ sched.pc = "retire"
  /\ sched' = [sched EXCEPT !.pc = "idle"]
  /\ Overwrite([cur EXCEPT !.floor = cur.start], tick)
  /\ UNCHANGED <<phases, logTail, gcAt, tickFaults>>

ScheduledThrows ==
  /\ sched.pc # "idle"
  /\ sched' = [sched EXCEPT !.pc = "idle"]
  /\ UNCHANGED <<phases, logTail, cur, tick, gcAt, tickFaults>>

TickNext ==
  \/ ScheduledFold \/ ScheduledGc \/ ScheduledRetire \/ ScheduledThrows
  \/ \E w \in Isolate :
     \/ CommitAndDispatch(w) \/ TickRead(w) \/ TickFold(w) \/ TickSignal(w) \/ TickPut(w)
     \/ TickGc(w) \/ TickRetire(w) \/ TickFinally(w) \/ TickThrows(w) \/ TickDies(w)

TickSpec == TickInit /\ [][TickNext]_tickVars

-----------------------------------------------------------------------------
Quiet == \A w \in Isolate : tick[w].pc = "idle"

(* Whatever way ticks exit (a fold that published nothing, a deferral, GC, *)
(* disabled phases, an error), tail_hint stays close to the tail: within   *)
(* the refresh gap and one GC interval, plus one interval for each tick or *)
(* CAS that failed.  Readers and writers probe from the hint, and throw    *)
(* past LOG_FORWARD_PROBE_CAP (maintenance.ts, log-tail.ts).               *)
HintLagBounded ==
  Quiet => logTail - cur.hint < RefreshGap + GcInterval * (1 + tickFaults)

(* A long run of ratio-tripping commits does not starve GC: between two GC *)
(* passes lie fewer commits than the hard interval, plus one such interval *)
(* for each tick that failed.                                              *)
GcNotStarved ==
  Quiet /\ phases # "disabled" => logTail - gcAt < HardInterval * (1 + tickFaults)
=============================================================================
