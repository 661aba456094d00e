----------------------------- MODULE FileWatcher ----------------------------
(***************************************************************************)
(* watch.FileWatcher (watch/watcher.go): accepted filesystem events, their *)
(* generations, the debounce timer, the reconciliation it starts, and the  *)
(* asynchronous stop that joins every goroutine.                           *)
(*                                                                         *)
(* Goroutines: the event reader (readEvents), the debounce timers          *)
(* (time.AfterFunc), the flush one of them turns into, the goroutine       *)
(* finishStop, one caller of Drain, and any caller of Start and Stop.      *)
(* fw.mu is held for one action, except that the reader keeps it while it  *)
(* walks a new directory (watchTreeLocked): every action that takes it     *)
(* carries the guard MuFree.                                               *)
(*                                                                         *)
(* Left out: the clock, the counters that only feed observations           *)
(* (ignoredEventSeq, operationSeq, queue times), the test-only inert mode, *)
(* and the directories themselves, which module WatchTree models.          *)
(***************************************************************************)
EXTENDS Naturals

CONSTANTS
  Paths,           \* admitted project-relative paths
  MaxBatchEvents,  \* Options.MaxBatchEvents, the event-storm threshold
  MaxEvents,       \* bound: events accepted between a start and its stop
  MaxSessions,     \* bound: successful starts of one FileWatcher
  MaxStaleTimers,  \* bound: fired timers that a newer timer has replaced
  MaxObservers     \* bound: flushes that still deliver their result

ASSUME BoundsAreNatural ==
  /\ MaxBatchEvents \in Nat
  /\ MaxEvents \in Nat
  /\ MaxSessions \in Nat
  /\ MaxStaleTimers \in Nat
  /\ MaxObservers \in Nat

VARIABLES
  eventSeq,               \* generation of the latest accepted event
  completedEventSeq,      \* generation a successful flush has reached
  fullReconcileEventSeq,  \* generation of the whole-tree marker, 0 if none
  pending,                \* lastEventSeq of each dirty path, 0 if it has no entry
  timer,                  \* fw.timer: "none", "armed", or "fired" (its flush waits for mu)
  staleTimers,            \* fired timers whose sequence is not timerSeq any more
  flush,                  \* the flush that has set fw.syncing, and what it captured
  observing,              \* flushes past syncWG.Done, by the result they still report
  reader,                 \* where readEvents is; "none" when there is no such goroutine
  ready, stopped,         \* fw.ready, fw.stopped
  stopping,               \* fw.stopDone # nil: finishStop has not returned
  fatalErr,               \* fw.fatalErr # nil
  fatalCh,                \* the current fatalCh holds an error
  drain,                  \* the caller of Drain: where it is, and its target
  session,                \* number of successful starts
  unabsorbed              \* history: accepted events no successful flush has covered

dirtyVars == <<eventSeq, completedEventSeq, fullReconcileEventSeq, pending, unabsorbed>>
timerVars == <<timer, staleTimers>>
flushVars == <<flush, observing>>
lifeVars  == <<ready, stopped, stopping, session>>
fatalVars == <<fatalErr, fatalCh>>
vars == <<dirtyVars, timerVars, flushVars, reader, lifeVars, fatalVars, drain>>

Outcome == {"completed", "retry", "failed"}
NoPending == [p \in Paths |-> 0]
NoObservers == [o \in Outcome |-> 0]
NoFlush == [phase |-> "idle", batchEndSeq |-> 0, paths |-> {}, full |-> FALSE]

Event == [path : Paths, seq : Nat]

MuFree    == reader # "walking"
Syncing   == flush.phase # "idle"
WholeTree == fullReconcileEventSeq > completedEventSeq
DirtyPaths == {p \in Paths : pending[p] # 0}
Dirty     == WholeTree \/ DirtyPaths # {}
IsActive  == ready /\ ~stopped
Observers == observing["completed"] + observing["retry"] + observing["failed"]

Init ==
  /\ eventSeq = 0
  /\ completedEventSeq = 0
  /\ fullReconcileEventSeq = 0
  /\ pending = NoPending
  /\ timer = "none"
  /\ staleTimers = 0
  /\ flush = NoFlush
  /\ observing = NoObservers
  /\ reader = "none"
  /\ ready = FALSE
  /\ stopped = FALSE
  /\ stopping = FALSE
  /\ fatalErr = FALSE
  /\ fatalCh = FALSE
  /\ drain = [pc |-> "idle", target |-> 0]
  /\ session = 0
  /\ unabsorbed = {}

-----------------------------------------------------------------------------
(* The pieces of a handler that run under fw.mu. *)

(* Mutant of SignalProgress: the waiters are not woken. *)
SignalNobody == UNCHANGED drain

(* signalProgressLocked: close progressCh, so that a waiting Drain looks again. *)
SignalProgress ==
  drain' = IF drain.pc = "wait" THEN [drain EXCEPT !.pc = "check"] ELSE drain

(* scheduleSyncLocked: stop the timer, or leave its flush behind with an old
   sequence when it has fired already, and arm a new one. *)
ScheduleSync ==
  /\ timer' = "armed"
  /\ staleTimers' = IF timer = "fired" THEN staleTimers + 1 ELSE staleTimers

(* Mutant of RecordUnderMarker: a storm goes on collecting paths. *)
RecordPathUnderMarker(p, seq) ==
  /\ WholeTree
  /\ fullReconcileEventSeq' = seq
  /\ pending' = [pending EXCEPT ![p] = seq]

(* recordPendingLocked while the whole tree is dirty: the marker moves on. *)
RecordUnderMarker(p, seq) ==
  /\ WholeTree
  /\ fullReconcileEventSeq' = seq
  /\ UNCHANGED pending

(* recordPendingLocked, with markWholeTreeDirtyLocked: the event is remembered
   by its path or, when the batch is ambiguous or too large, by the marker. *)
RecordPending(p, forceFull) ==
  LET seq == eventSeq + 1
      storm == seq > completedEventSeq + MaxBatchEvents
  IN /\ eventSeq < MaxEvents
     /\ eventSeq' = seq
     /\ \/ RecordUnderMarker(p, seq)
        \/ /\ ~WholeTree
           /\ forceFull \/ storm
           /\ fullReconcileEventSeq' = seq
           /\ pending' = NoPending
        \/ /\ ~WholeTree
           /\ ~(forceFull \/ storm)
           /\ pending' = [pending EXCEPT ![p] = seq]
           /\ UNCHANGED fullReconcileEventSeq
     /\ unabsorbed' = unabsorbed \cup {[path |-> p, seq |-> seq]}
     /\ UNCHANGED completedEventSeq

-----------------------------------------------------------------------------
(* The event reader. *)

(* handleChange: one admitted event, recorded and scheduled in one critical
   section.  There is a reader only while fw.ready holds (ReaderWhileReady). *)
HandleChange(p, forceFull) ==
  /\ reader = "loop"
  /\ ~stopped
  /\ RecordPending(p, forceFull)
  /\ ScheduleSync
  /\ UNCHANGED <<flushVars, reader, lifeVars, fatalVars, drain>>

(* handleFSNotifyEvent on a new directory, or on .gitignore: watchTreeLocked
   records the files it finds, one after the other, without giving up mu. *)
WalkRecord(p) ==
  /\ reader \in {"loop", "walking"}
  /\ IsActive
  /\ RecordPending(p, FALSE)
  /\ reader' = "walking"
  /\ UNCHANGED <<timerVars, flushVars, lifeVars, fatalVars, drain>>

(* The walk ends, with an error or without: what it recorded is scheduled. *)
WalkEnd(watchErr) ==
  /\ reader = "walking"
  /\ ScheduleSync
  /\ reader' = IF watchErr THEN "error" ELSE "loop"
  /\ UNCHANGED <<dirtyVars, flushVars, lifeVars, fatalVars, drain>>

(* fsw.Errors delivers an error, or a walk that recorded nothing fails. *)
NativeError ==
  /\ reader = "loop"
  /\ reader' = "error"
  /\ UNCHANGED <<dirtyVars, timerVars, flushVars, lifeVars, fatalVars, drain>>

(* observe(ObservationWatcherError), outside mu. *)
ObserveWatcherError ==
  /\ reader = "error"
  /\ reader' = "fatal"
  /\ UNCHANGED <<dirtyVars, timerVars, flushVars, lifeVars, fatalVars, drain>>

(* reportFatal, its critical section, ... *)
ReportFatal ==
  /\ reader = "fatal"
  /\ fatalErr' = TRUE
  /\ SignalProgress
  /\ reader' = "send"
  /\ UNCHANGED <<dirtyVars, timerVars, flushVars, lifeVars, fatalCh>>

(* ... the send, which a full channel drops, ... *)
SendFatal ==
  /\ reader = "send"
  /\ fatalCh' = TRUE
  /\ reader' = "stop"
  /\ UNCHANGED <<dirtyVars, timerVars, flushVars, lifeVars, fatalErr, drain>>

(* Stop and its critical section.  fsw.Close follows it, and go finishStop. *)
StopLocked ==
  /\ stopped' = TRUE
  /\ timer' = "none"
  /\ staleTimers' = IF timer = "fired" THEN staleTimers + 1 ELSE staleTimers
  /\ SignalProgress
  /\ stopping' = TRUE
  /\ UNCHANGED <<ready, session>>

(* Mutant of StopAfterFatal: the failed watcher is left running. *)
FailureWithoutStop ==
  /\ reader = "stop"
  /\ reader' = "none"
  /\ UNCHANGED <<dirtyVars, timerVars, flushVars, lifeVars, fatalVars, drain>>

(* ... and the Stop that ends reportFatal.  What the reader may still receive
   finds fw.stopped set and changes nothing. *)
StopAfterFatal ==
  /\ reader = "stop"
  /\ \/ ~stopped /\ StopLocked
     \/ stopped /\ UNCHANGED <<timerVars, lifeVars, drain>>
  /\ reader' = "none"
  /\ UNCHANGED <<dirtyVars, flushVars, fatalVars>>

(* The channels of a closed fsnotify watcher end the loop of readEvents. *)
ReaderExit ==
  /\ reader = "loop"
  /\ stopped
  /\ reader' = "none"
  /\ UNCHANGED <<dirtyVars, timerVars, flushVars, lifeVars, fatalVars, drain>>
-----------------------------------------------------------------------------
(* The debounce timer and flush. *)

(* The debounce window closes: the timer's goroutine starts and wants mu. *)
TimerFires ==
  /\ timer = "armed"
  /\ staleTimers < MaxStaleTimers
  /\ timer' = "fired"
  /\ UNCHANGED <<dirtyVars, staleTimers, flushVars, reader, lifeVars, fatalVars, drain>>

(* flush of a timer that was replaced: its sequence is not timerSeq. *)
FlushStale ==
  /\ staleTimers > 0 /\ MuFree
  /\ staleTimers' = staleTimers - 1
  /\ UNCHANGED <<dirtyVars, timer, flushVars, reader, lifeVars, fatalVars, drain>>

(* flush while another flush runs: the timer is spent, the running flush will
   schedule a new one for what it leaves dirty. *)
FlushWhileSyncing ==
  /\ timer = "fired" /\ MuFree
  /\ Syncing
  /\ timer' = "none"
  /\ UNCHANGED <<dirtyVars, staleTimers, flushVars, reader, lifeVars, fatalVars, drain>>

(* Mutant of Batch: the marker is not captured. *)
BatchOfPaths == [phase |-> "announce", batchEndSeq |-> eventSeq,
                 paths |-> DirtyPaths, full |-> FALSE]

(* What a flush captures: the generation, the paths, and whether the marker is up. *)
Batch == [phase |-> "announce", batchEndSeq |-> eventSeq,
          paths |-> DirtyPaths, full |-> WholeTree]

(* flush, first critical section: the batch is everything accepted so far. *)
FlushBegin ==
  /\ timer = "fired" /\ MuFree
  /\ ~Syncing /\ ~stopped
  /\ Observers < MaxObservers
  /\ timer' = "none"
  /\ flush' = Batch
  /\ UNCHANGED <<dirtyVars, staleTimers, observing, reader, lifeVars, fatalVars, drain>>

(* observe(ObservationOperationStarted), outside mu. *)
ObserveStarted ==
  /\ flush.phase = "announce"
  /\ flush' = [flush EXCEPT !.phase = "recheck"]
  /\ UNCHANGED <<dirtyVars, timerVars, observing, reader, lifeVars, fatalVars, drain>>

(* Mutant of FlushRecheck: the early return leaves fw.syncing set. *)
FlushRecheckLeavesSyncing ==
  /\ flush.phase = "recheck" /\ MuFree
  /\ ~stopped
  /\ flush' = [flush EXCEPT !.phase = "sync"]
  /\ UNCHANGED <<dirtyVars, timerVars, observing, reader, lifeVars, fatalVars, drain>>

(* The watcher may have been stopped in between: then nothing is synced. *)
FlushRecheck ==
  /\ flush.phase = "recheck" /\ MuFree
  /\ flush' = IF stopped THEN NoFlush ELSE [flush EXCEPT !.phase = "sync"]
  /\ UNCHANGED <<dirtyVars, timerVars, observing, reader, lifeVars, fatalVars, drain>>

(* Mutants of Reschedule: the marker is overlooked; a timer without need; none. *)
ReschedulePaths  == IF DirtyPaths' # {} /\ ~stopped THEN ScheduleSync ELSE UNCHANGED timerVars
RescheduleAlways == IF ~stopped THEN ScheduleSync ELSE UNCHANGED timerVars
RescheduleNever  == UNCHANGED timerVars

(* After a sync: a timer for what is still dirty, unless the watcher was stopped. *)
Reschedule == IF Dirty' /\ ~stopped THEN ScheduleSync ELSE UNCHANGED timerVars

(* What a successful sync of the batch covers: only events it could have seen,
   on the paths it was given (all of them for a full reconcile). *)
Covers(batch, e) == e.seq <= batch.batchEndSeq /\ (batch.full \/ e.path \in batch.paths)

(* Mutant of MarkerAfter: the marker is dropped whatever arrived since. *)
NoMarkerAfter(batchEndSeq) == 0

(* A successful flush clears the marker generation it captured, no later one. *)
MarkerAfter(batchEndSeq) ==
  IF fullReconcileEventSeq <= batchEndSeq THEN 0 ELSE fullReconcileEventSeq

(* syncFn returned without an error. *)
SyncSucceeds ==
  /\ flush.phase = "sync" /\ MuFree
  /\ pending' = [p \in Paths |-> IF pending[p] <= flush.batchEndSeq THEN 0 ELSE pending[p]]
  /\ completedEventSeq' = flush.batchEndSeq
  /\ fullReconcileEventSeq' = MarkerAfter(flush.batchEndSeq)
  /\ unabsorbed' = {e \in unabsorbed : ~Covers(flush, e)}
  /\ UNCHANGED eventSeq
  /\ SignalProgress
  /\ Reschedule
  /\ flush' = NoFlush
  /\ observing' = [observing EXCEPT !["completed"] = @ + 1]
  /\ UNCHANGED <<reader, lifeVars, fatalVars>>

(* syncFn returned an error: "retry" when it could not get the write lock. *)
SyncFails(outcome) ==
  /\ flush.phase = "sync" /\ MuFree
  /\ UNCHANGED dirtyVars
  /\ Reschedule
  /\ flush' = NoFlush
  /\ observing' = [observing EXCEPT ![outcome] = @ + 1]
  /\ UNCHANGED <<reader, lifeVars, fatalVars, drain>>

(* The result is reported outside mu, after a later flush may have begun. *)
ObserveResult(outcome) ==
  /\ observing[outcome] > 0
  /\ observing' = [observing EXCEPT ![outcome] = @ - 1]
  /\ UNCHANGED <<dirtyVars, timerVars, flush, reader, lifeVars, fatalVars, drain>>

-----------------------------------------------------------------------------
(* Start, Stop, and Drain. *)

(* StartWithError, when every watch could be established, ...
   It locks mu twice, to look at stopDone and to start, and is one step here: between the
   two nothing of the watcher runs (finishStop has joined all of it), and nobody calls
   Stop, because the owner that has the watcher is not returned before it has started. *)
Start ==
  /\ ~stopping /\ ~ready
  /\ drain.pc \notin {"check", "wait"}  \* no caller restarts a watcher under its Drain
  /\ session < MaxSessions
  /\ stopped' = FALSE
  /\ fatalErr' = FALSE
  /\ pending' = NoPending
  /\ ready' = TRUE
  /\ reader' = "loop"
  /\ session' = session + 1
  /\ UNCHANGED <<eventSeq, completedEventSeq, fullReconcileEventSeq, unabsorbed,
                 timerVars, flushVars, stopping, fatalCh, drain>>

(* ... and when the policy, fsnotify or a directory refused. *)
StartFails ==
  /\ ~stopping /\ ~ready
  /\ drain.pc \notin {"check", "wait"}
  /\ session < MaxSessions
  /\ stopped' = FALSE
  /\ fatalErr' = FALSE
  /\ UNCHANGED <<dirtyVars, timerVars, flushVars, reader, ready, stopping, session,
                 fatalCh, drain>>

(* Stop, called by the owner or by a callback. *)
Stop ==
  /\ ~stopped /\ MuFree
  /\ StopLocked
  /\ UNCHANGED <<dirtyVars, flushVars, reader, fatalVars>>

(* Mutant of AllJoined: the timer goroutines are not joined. *)
JoinedButTimers == ~Syncing /\ reader = "none" /\ Observers = 0

(* The four wait groups of finishStop: timerWG, syncWG, eventWG, observationWG. *)
AllJoined ==
  /\ timer = "none" /\ staleTimers = 0
  /\ ~Syncing
  /\ reader = "none"
  /\ Observers = 0

(* Mutant of ResetGenerations: the completed generation survives. *)
ResetButCompleted ==
  /\ eventSeq' = 0
  /\ fullReconcileEventSeq' = 0
  /\ pending' = NoPending
  /\ unabsorbed' = {}
  /\ UNCHANGED completedEventSeq

(* The generations start again from nothing, and what was dirty is dropped. *)
ResetGenerations ==
  /\ eventSeq' = 0
  /\ completedEventSeq' = 0
  /\ fullReconcileEventSeq' = 0
  /\ pending' = NoPending
  /\ unabsorbed' = {}

(* finishStop: everything has been joined, and is reset for another start. *)
FinishStop ==
  /\ stopping /\ AllJoined
  /\ ResetGenerations
  /\ ready' = FALSE
  /\ fatalCh' = FALSE
  /\ stopping' = FALSE
  /\ UNCHANGED <<timerVars, flushVars, reader, stopped, session, fatalErr, drain>>

(* Drain captures the generation it waits for. *)
DrainCall ==
  /\ drain.pc \notin {"check", "wait"} /\ MuFree
  /\ drain' = [pc |-> "check", target |-> eventSeq]
  /\ UNCHANGED <<dirtyVars, timerVars, flushVars, reader, lifeVars, fatalVars>>

(* Mutant of Reached: off by one. *)
AlmostReached(target) == completedEventSeq + 1 >= target

(* A successful flush has reached the generation. *)
Reached(target) == completedEventSeq >= target

(* One round of its loop; the order of the tests is the code's. *)
DrainCheck ==
  /\ drain.pc = "check" /\ MuFree
  /\ \/ /\ Reached(drain.target)
        /\ drain' = [pc |-> "ok", target |-> 0]
     \/ /\ ~Reached(drain.target)
        /\ drain' = IF fatalErr \/ stopped THEN [pc |-> "error", target |-> 0]
                                           ELSE [drain EXCEPT !.pc = "wait"]
  /\ UNCHANGED <<dirtyVars, timerVars, flushVars, reader, lifeVars, fatalVars>>

(* Its context ends while it waits. *)
DrainCancelled ==
  /\ drain.pc = "wait"
  /\ drain' = [pc |-> "error", target |-> 0]
  /\ UNCHANGED <<dirtyVars, timerVars, flushVars, reader, lifeVars, fatalVars>>

-----------------------------------------------------------------------------
ReaderNext ==
  \/ \E p \in Paths, forceFull \in BOOLEAN : HandleChange(p, forceFull)
  \/ \E p \in Paths : WalkRecord(p)
  \/ \E watchErr \in BOOLEAN : WalkEnd(watchErr)
  \/ NativeError \/ ObserveWatcherError
  \/ ReportFatal \/ SendFatal \/ StopAfterFatal
  \/ ReaderExit

FlushNext ==
  \/ TimerFires \/ FlushStale \/ FlushWhileSyncing
  \/ FlushBegin \/ ObserveStarted \/ FlushRecheck
  \/ SyncSucceeds
  \/ \E outcome \in {"retry", "failed"} : SyncFails(outcome)
  \/ \E outcome \in Outcome : ObserveResult(outcome)

ControlNext ==
  \/ Start \/ StartFails \/ Stop \/ FinishStop
  \/ DrainCall \/ DrainCheck \/ DrainCancelled

Next == ReaderNext \/ FlushNext \/ ControlNext

Spec == Init /\ [][Next]_vars

-----------------------------------------------------------------------------
(* Properties. *)

(* Types, with the order of the generations: nothing is completed or marked
   that was not accepted. *)
TypeOK ==
  /\ eventSeq \in Nat
  /\ completedEventSeq \in 0..eventSeq
  /\ fullReconcileEventSeq \in 0..eventSeq
  /\ pending \in [Paths -> 0..eventSeq]
  /\ timer \in {"none", "armed", "fired"}
  /\ staleTimers \in Nat
  /\ flush \in [phase : {"idle", "announce", "recheck", "sync"},
                batchEndSeq : 0..eventSeq, paths : SUBSET Paths, full : BOOLEAN]
  /\ observing \in [Outcome -> Nat]
  /\ reader \in {"none", "loop", "walking", "error", "fatal", "send", "stop"}
  /\ ready \in BOOLEAN /\ stopped \in BOOLEAN /\ stopping \in BOOLEAN
  /\ fatalErr \in BOOLEAN /\ fatalCh \in BOOLEAN
  /\ drain \in [pc : {"idle", "check", "wait", "ok", "error"}, target : Nat]
  /\ session \in Nat
  /\ unabsorbed \subseteq Event

(* flush and recordPendingLocked: an accepted event is absorbed by a flush that
   began after it, or DirtyState still shows it, by its path or by the marker.
   A flush that runs may not clear what arrived while it ran. *)
NoEventForgotten ==
  \A e \in unabsorbed :
    /\ completedEventSeq < e.seq
    /\ fullReconcileEventSeq >= e.seq \/ pending[e.path] >= e.seq

(* DirtyState: "WholeTree is mutually exclusive with Paths", so a storm keeps
   the dirty state bounded. *)
MarkerReplacesPaths == WholeTree => DirtyPaths = {}

(* scheduleSyncLocked, flush: an active watcher that is dirty has a timer, or a
   flush that will arm one; no order of events and flushes loses the wakeup. *)
NoLostWakeup ==
  IsActive /\ Dirty => timer # "none" \/ Syncing \/ reader = "walking"

(* flush: a reconciliation always has a dirty path or the marker to work on, so
   an idle watcher never runs one. *)
EveryFlushHasWork ==
  Syncing => flush.full \/ flush.paths # {}

(* StopAndWait: when the stop is complete no timer, flush, callback or reader is
   left, so the owner may close the index and start again. *)
StoppedIsQuiet ==
  stopped /\ ~stopping =>
    /\ timer = "none" /\ staleTimers = 0
    /\ ~Syncing /\ Observers = 0
    /\ reader = "none"

(* Drain returns nil only when every event up to its target, accepted before
   the call, has been absorbed. *)
DrainSound ==
  [][ drain.pc = "check" /\ drain'.pc = "ok"
        => \A e \in unabsorbed : e.seq > drain.target ]_vars

(* The watcher implements the generation ledger. *)
Ledger == INSTANCE GenerationLedger WITH
  accepted <- eventSeq, completed <- completedEventSeq,
  owed <- {e.seq : e \in unabsorbed}
ImplementsLedger == Ledger!Spec

(* The last two hold under the fairness of module Freshness.

   Retry and follow-up flushes: what is dirty is absorbed at last, unless the
   watcher is stopped (the events of a session are bounded: a burst that never
   pauses would push the debounce back for ever). *)
EventuallyAbsorbed == unabsorbed # {} ~> (unabsorbed = {} \/ stopped)

(* Stop, also from a callback or the reader itself: the join never deadlocks. *)
StopCompletes == stopping ~> ~stopping
=============================================================================
