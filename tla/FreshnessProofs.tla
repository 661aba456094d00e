--------------------------- MODULE FreshnessProofs --------------------------
(***************************************************************************)
(* Proofs about watch.FileWatcher and about the freshness.Owner that owns  *)
(* one, for every set of paths, every storm threshold and every value of   *)
(* the bounds.                                                             *)
(*                                                                         *)
(* First the watcher on its own.  Typing says that the generations are     *)
(* ordered and that nothing is left of a session once it is joined,        *)
(* Coverage that pending, the marker and the running batch account for     *)
(* every unabsorbed event, and Wakeup that a timer or a flush stands       *)
(* behind everything dirty.                                                *)
(*                                                                         *)
(* Then the owner.  Every step of it is a step of its watcher, or leaves   *)
(* it alone, or receives from its fatal channel, which no invariant of the *)
(* watcher reads: what has been shown of the watcher holds here as well.   *)
(* On top of that, Life says that a stop is final once the owner is        *)
(* covered, and Reporting what a call of Status has read so far.           *)
(***************************************************************************)
EXTENDS Freshness, TLAPS

-----------------------------------------------------------------------------
(* The watcher. *)

(* A flush that has not begun, or has ended, holds no batch. *)
IdleHoldsNothing == ~Syncing => flush = NoFlush

(* readEvents runs only between a successful start and its join. *)
ReaderWhileReady == reader # "none" => ready

(* Outside a session there are no generations. *)
NotReadyIsEmpty == ~ready => eventSeq = 0

Typing == TypeOK /\ IdleHoldsNothing /\ ReaderWhileReady /\ NotReadyIsEmpty

(* A new FileWatcher is well typed and outside a session. *)
LEMMA InitTyping == Init => Typing
<1> SUFFICES ASSUME Init PROVE Typing
  OBVIOUS
<1>1. pending \in [Paths -> 0..eventSeq]
  BY DEF Init, NoPending
<1>2. flush \in [phase : {"idle", "announce", "recheck", "sync"},
                 batchEndSeq : 0..eventSeq, paths : SUBSET Paths, full : BOOLEAN]
  BY DEF Init, NoFlush
<1>3. observing \in [Outcome -> Nat]
  BY DEF Init, NoObservers
<1>4. drain \in [pc : {"idle", "check", "wait", "ok", "error"}, target : Nat]
  BY DEF Init
<1>5. /\ eventSeq \in Nat /\ completedEventSeq \in 0..eventSeq
      /\ fullReconcileEventSeq \in 0..eventSeq
      /\ staleTimers \in Nat /\ session \in Nat
  BY DEF Init
<1>6. /\ timer \in {"none", "armed", "fired"}
      /\ reader \in {"none", "loop", "walking", "error", "fatal", "send", "stop"}
      /\ ready \in BOOLEAN /\ stopped \in BOOLEAN /\ stopping \in BOOLEAN
      /\ fatalErr \in BOOLEAN /\ fatalCh \in BOOLEAN
      /\ unabsorbed \subseteq Event
  BY DEF Init
<1>7. TypeOK
  BY <1>1, <1>2, <1>3, <1>4, <1>5, <1>6 DEF TypeOK
<1>8. QED
  BY <1>7 DEF Init, Typing, IdleHoldsNothing, ReaderWhileReady, NotReadyIsEmpty

(* What RecordPending does to the types, once for its three callers. *)
LEMMA RecordTyping ==
  ASSUME TypeOK, NEW p \in Paths, NEW forceFull \in BOOLEAN, RecordPending(p, forceFull)
  PROVE  /\ eventSeq' = eventSeq + 1
         /\ eventSeq' \in Nat
         /\ completedEventSeq' = completedEventSeq
         /\ completedEventSeq' \in 0..eventSeq'
         /\ fullReconcileEventSeq' \in 0..eventSeq'
         /\ pending' \in [Paths -> 0..eventSeq']
         /\ unabsorbed' \subseteq Event
         /\ unabsorbed' = unabsorbed \cup {[path |-> p, seq |-> eventSeq + 1]}
         /\ flush.batchEndSeq \in 0..eventSeq'
<1>1. eventSeq' = eventSeq + 1 /\ completedEventSeq' = completedEventSeq
  BY DEF RecordPending
<1>2. fullReconcileEventSeq' \in 0..eventSeq'
  BY DEF RecordPending, RecordUnderMarker, TypeOK
<1>3. pending' \in [Paths -> 0..eventSeq']
  <2>1. CASE UNCHANGED pending
    BY <2>1, <1>1 DEF TypeOK
  <2>2. CASE pending' = NoPending
    BY <2>2, <1>1 DEF TypeOK, NoPending
  <2>3. CASE pending' = [pending EXCEPT ![p] = eventSeq + 1]
    BY <2>3, <1>1 DEF TypeOK
  <2>4. QED
    BY <2>1, <2>2, <2>3 DEF RecordPending, RecordUnderMarker
<1>4. unabsorbed' = unabsorbed \cup {[path |-> p, seq |-> eventSeq + 1]}
  BY DEF RecordPending
<1>5. unabsorbed' \subseteq Event
  BY <1>4 DEF TypeOK, Event
<1>6. flush.batchEndSeq \in 0..eventSeq'
  BY <1>1 DEF TypeOK
<1>7. QED
  BY <1>1, <1>2, <1>3, <1>4, <1>5, <1>6 DEF TypeOK

(* scheduleSyncLocked keeps the timer's types. *)
LEMMA ScheduleTyping ==
  ASSUME TypeOK, ScheduleSync
  PROVE  timer' \in {"none", "armed", "fired"} /\ staleTimers' \in Nat
  BY DEF TypeOK, ScheduleSync

(* The rescheduling after a sync does, too. *)
LEMMA RescheduleTyping ==
  ASSUME TypeOK, Reschedule
  PROVE  timer' \in {"none", "armed", "fired"} /\ staleTimers' \in Nat
  BY ScheduleTyping DEF TypeOK, Reschedule, timerVars

(* Every step keeps the types, and what they say of joined sessions. *)
LEMMA StepTyping == Typing /\ [Next]_vars => Typing'
<1> SUFFICES ASSUME Typing, [Next]_vars PROVE Typing'
  OBVIOUS
<1>1. ASSUME NEW p \in Paths, NEW forceFull \in BOOLEAN, HandleChange(p, forceFull) PROVE Typing'
  <2>1. RecordPending(p, forceFull)
    BY <1>1 DEF HandleChange
  <2>2. timer' \in {"none", "armed", "fired"} /\ staleTimers' \in Nat
    BY <1>1, ScheduleTyping DEF HandleChange, Typing
  <2>3. QED
    BY <1>1, <2>1, <2>2, RecordTyping
    DEF HandleChange, Typing, TypeOK, IdleHoldsNothing, ReaderWhileReady, NotReadyIsEmpty,
         Syncing, timerVars, flushVars, lifeVars, fatalVars
<1>2. ASSUME NEW p \in Paths, WalkRecord(p) PROVE Typing'
  <2>1. RecordPending(p, FALSE)
    BY <1>2 DEF WalkRecord
  <2>2. QED
    BY <1>2, <2>1, RecordTyping
    DEF WalkRecord, Typing, TypeOK, IdleHoldsNothing, ReaderWhileReady, NotReadyIsEmpty,
         Syncing, timerVars, flushVars, lifeVars, fatalVars, IsActive
<1>3. ASSUME NEW watchErr \in BOOLEAN, WalkEnd(watchErr) PROVE Typing'
  BY <1>3 DEF WalkEnd, Typing, TypeOK, IdleHoldsNothing, ReaderWhileReady, NotReadyIsEmpty,
       Syncing, dirtyVars, timerVars, flushVars, lifeVars, fatalVars, NoFlush, StopLocked, ScheduleSync, SignalProgress
<1>4. CASE NativeError
  BY <1>4 DEF NativeError, Typing, TypeOK, IdleHoldsNothing, ReaderWhileReady, NotReadyIsEmpty,
       Syncing, dirtyVars, timerVars, flushVars, lifeVars, fatalVars, NoFlush, StopLocked, ScheduleSync, SignalProgress
<1>5. CASE ObserveWatcherError
  BY <1>5 DEF ObserveWatcherError, Typing, TypeOK, IdleHoldsNothing, ReaderWhileReady, NotReadyIsEmpty,
       Syncing, dirtyVars, timerVars, flushVars, lifeVars, fatalVars, NoFlush, StopLocked, ScheduleSync, SignalProgress
<1>6. CASE ReportFatal
  BY <1>6 DEF ReportFatal, Typing, TypeOK, IdleHoldsNothing, ReaderWhileReady, NotReadyIsEmpty,
       Syncing, dirtyVars, timerVars, flushVars, lifeVars, fatalVars, NoFlush, StopLocked, ScheduleSync, SignalProgress
<1>7. CASE SendFatal
  BY <1>7 DEF SendFatal, Typing, TypeOK, IdleHoldsNothing, ReaderWhileReady, NotReadyIsEmpty,
       Syncing, dirtyVars, timerVars, flushVars, lifeVars, fatalVars, NoFlush, StopLocked, ScheduleSync, SignalProgress
<1>8. CASE StopAfterFatal
  <2>1. CASE ~stopped /\ StopLocked
    BY <1>8, <2>1 DEF StopAfterFatal, Typing, TypeOK, IdleHoldsNothing, ReaderWhileReady, NotReadyIsEmpty,
         Syncing, timerVars, flushVars, lifeVars, fatalVars, StopLocked, SignalProgress, dirtyVars
  <2>2. CASE stopped /\ UNCHANGED <<timerVars, lifeVars, drain>>
    BY <1>8, <2>2 DEF StopAfterFatal, Typing, TypeOK, IdleHoldsNothing, ReaderWhileReady, NotReadyIsEmpty,
         Syncing, timerVars, flushVars, lifeVars, fatalVars, dirtyVars
  <2>3. QED
    BY <1>8, <2>1, <2>2 DEF StopAfterFatal
<1>9. CASE ReaderExit
  BY <1>9 DEF ReaderExit, Typing, TypeOK, IdleHoldsNothing, ReaderWhileReady, NotReadyIsEmpty,
       Syncing, dirtyVars, timerVars, flushVars, lifeVars, fatalVars, NoFlush, StopLocked, ScheduleSync, SignalProgress
<1>10. CASE TimerFires
  BY <1>10 DEF TimerFires, Typing, TypeOK, IdleHoldsNothing, ReaderWhileReady, NotReadyIsEmpty,
       Syncing, dirtyVars, timerVars, flushVars, lifeVars, fatalVars, NoFlush, StopLocked, ScheduleSync, SignalProgress
<1>11. CASE FlushStale
  BY <1>11 DEF FlushStale, Typing, TypeOK, IdleHoldsNothing, ReaderWhileReady, NotReadyIsEmpty,
       Syncing, dirtyVars, timerVars, flushVars, lifeVars, fatalVars, NoFlush, StopLocked, ScheduleSync, SignalProgress
<1>12. CASE FlushWhileSyncing
  BY <1>12 DEF FlushWhileSyncing, Typing, TypeOK, IdleHoldsNothing, ReaderWhileReady, NotReadyIsEmpty,
       Syncing, dirtyVars, timerVars, flushVars, lifeVars, fatalVars, NoFlush, StopLocked, ScheduleSync, SignalProgress
<1>13. CASE FlushBegin
  <2>1. flush' = Batch
    BY <1>13 DEF FlushBegin
  <2>2. Batch \in [phase : {"idle", "announce", "recheck", "sync"},
                   batchEndSeq : 0..eventSeq, paths : SUBSET Paths, full : BOOLEAN]
    BY DEF Batch, Typing, TypeOK, DirtyPaths, WholeTree
  <2>3. flush'.phase # "idle"
    BY <2>1 DEF Batch
  <2>4. QED
    BY <1>13, <2>1, <2>2, <2>3 DEF FlushBegin, Typing, TypeOK, IdleHoldsNothing, ReaderWhileReady, NotReadyIsEmpty,
         Syncing, timerVars, flushVars, lifeVars, fatalVars, dirtyVars
<1>14. CASE ObserveStarted
  BY <1>14 DEF ObserveStarted, Typing, TypeOK, IdleHoldsNothing, ReaderWhileReady, NotReadyIsEmpty,
       Syncing, dirtyVars, timerVars, flushVars, lifeVars, fatalVars, NoFlush, StopLocked, ScheduleSync, SignalProgress
<1>15. CASE FlushRecheck
  BY <1>15 DEF FlushRecheck, Typing, TypeOK, IdleHoldsNothing, ReaderWhileReady, NotReadyIsEmpty,
       Syncing, dirtyVars, timerVars, flushVars, lifeVars, fatalVars, NoFlush, StopLocked, ScheduleSync, SignalProgress
<1>16. CASE SyncSucceeds
  <2>1. flush.batchEndSeq \in 0..eventSeq /\ flush' = NoFlush /\ eventSeq' = eventSeq
    BY <1>16 DEF SyncSucceeds, Typing, TypeOK
  <2>2. pending' \in [Paths -> 0..eventSeq']
    BY <1>16, <2>1 DEF SyncSucceeds, Typing, TypeOK
  <2>3. completedEventSeq' \in 0..eventSeq' /\ fullReconcileEventSeq' \in 0..eventSeq'
    BY <1>16, <2>1 DEF SyncSucceeds, MarkerAfter, Typing, TypeOK
  <2>4. unabsorbed' \subseteq Event
    BY <1>16 DEF SyncSucceeds, Typing, TypeOK
  <2>5. timer' \in {"none", "armed", "fired"} /\ staleTimers' \in Nat
    BY <1>16, RescheduleTyping DEF SyncSucceeds, Typing
  <2>6. observing' \in [Outcome -> Nat]
    BY <1>16 DEF SyncSucceeds, Typing, TypeOK, Outcome
  <2>7. drain' \in [pc : {"idle", "check", "wait", "ok", "error"}, target : Nat]
    BY <1>16 DEF SyncSucceeds, SignalProgress, Typing, TypeOK
  <2>8. flush' \in [phase : {"idle", "announce", "recheck", "sync"},
                    batchEndSeq : 0..eventSeq', paths : SUBSET Paths, full : BOOLEAN]
    BY <2>1 DEF NoFlush, Typing, TypeOK
  <2>9. TypeOK'
    BY <1>16, <2>1, <2>2, <2>3, <2>4, <2>5, <2>6, <2>7, <2>8
    DEF SyncSucceeds, Typing, TypeOK, lifeVars, fatalVars
  <2>10. QED
    BY <1>16, <2>1, <2>9 DEF SyncSucceeds, Typing, IdleHoldsNothing, ReaderWhileReady,
       NotReadyIsEmpty, lifeVars
<1>17. ASSUME NEW outcome \in {"retry", "failed"}, SyncFails(outcome) PROVE Typing'
  <2>1. timer' \in {"none", "armed", "fired"} /\ staleTimers' \in Nat
    BY <1>17, RescheduleTyping DEF SyncFails, Typing
  <2>2. observing' \in [Outcome -> Nat]
    BY <1>17 DEF SyncFails, Typing, TypeOK, Outcome
  <2>3. flush' \in [phase : {"idle", "announce", "recheck", "sync"},
                    batchEndSeq : 0..eventSeq, paths : SUBSET Paths, full : BOOLEAN]
    BY <1>17 DEF SyncFails, NoFlush, Typing, TypeOK
  <2>4. QED
    BY <1>17, <2>1, <2>2, <2>3 DEF SyncFails, Typing, TypeOK, IdleHoldsNothing, ReaderWhileReady, NotReadyIsEmpty,
         Syncing, timerVars, flushVars, lifeVars, fatalVars, dirtyVars
<1>18. ASSUME NEW outcome \in Outcome, ObserveResult(outcome) PROVE Typing'
  BY <1>18 DEF ObserveResult, Typing, TypeOK, IdleHoldsNothing, ReaderWhileReady, NotReadyIsEmpty,
       Syncing, dirtyVars, timerVars, flushVars, lifeVars, fatalVars, NoFlush, StopLocked, ScheduleSync, SignalProgress
<1>19. CASE Start
  <2>1. eventSeq = 0 /\ eventSeq' = 0
    BY <1>19 DEF Start, Typing, NotReadyIsEmpty
  <2>2. pending' \in [Paths -> 0..eventSeq']
    BY <1>19, <2>1 DEF Start, NoPending
  <2>3. /\ completedEventSeq' \in 0..eventSeq' /\ fullReconcileEventSeq' \in 0..eventSeq'
        /\ eventSeq' \in Nat /\ session' \in Nat /\ unabsorbed' \subseteq Event
    BY <1>19, <2>1 DEF Start, Typing, TypeOK
  <2>4. /\ ready' \in BOOLEAN /\ stopped' \in BOOLEAN /\ stopping' \in BOOLEAN
        /\ fatalErr' \in BOOLEAN /\ fatalCh' \in BOOLEAN
        /\ reader' \in {"none", "loop", "walking", "error", "fatal", "send", "stop"}
    BY <1>19 DEF Start, Typing, TypeOK
  <2>5. /\ timer' = timer /\ staleTimers' = staleTimers /\ flush' = flush
        /\ observing' = observing /\ drain' = drain /\ eventSeq' = eventSeq
    BY <1>19 DEF Start, timerVars, flushVars
  <2>6. TypeOK'
    BY <2>2, <2>3, <2>4, <2>5 DEF Typing, TypeOK
  <2>7. QED
    BY <1>19, <2>1, <2>5, <2>6 DEF Start, Typing, IdleHoldsNothing, ReaderWhileReady,
       NotReadyIsEmpty, Syncing
<1>20. CASE StartFails
  BY <1>20 DEF StartFails, Typing, TypeOK, IdleHoldsNothing, ReaderWhileReady, NotReadyIsEmpty,
       Syncing, dirtyVars, timerVars, flushVars, lifeVars, fatalVars, NoFlush, StopLocked, ScheduleSync, SignalProgress
<1>21. CASE Stop
  BY <1>21 DEF Stop, Typing, TypeOK, IdleHoldsNothing, ReaderWhileReady, NotReadyIsEmpty,
       Syncing, dirtyVars, timerVars, flushVars, lifeVars, fatalVars, NoFlush, StopLocked, ScheduleSync, SignalProgress
<1>22. CASE FinishStop
  <2>1. ~Syncing /\ reader = "none" /\ eventSeq' = 0
    BY <1>22 DEF FinishStop, AllJoined, ResetGenerations
  <2>2. pending' \in [Paths -> 0..eventSeq']
    BY <1>22, <2>1 DEF FinishStop, ResetGenerations, NoPending
  <2>3. flush' = NoFlush
    BY <1>22, <2>1 DEF FinishStop, Typing, IdleHoldsNothing, flushVars
  <2>4. flush' \in [phase : {"idle", "announce", "recheck", "sync"},
                    batchEndSeq : 0..eventSeq', paths : SUBSET Paths, full : BOOLEAN]
    BY <2>1, <2>3 DEF NoFlush
  <2>5. /\ completedEventSeq' \in 0..eventSeq' /\ fullReconcileEventSeq' \in 0..eventSeq'
        /\ eventSeq' \in Nat /\ session' \in Nat /\ unabsorbed' \subseteq Event
    BY <1>22 DEF FinishStop, ResetGenerations, Typing, TypeOK
  <2>6. /\ ready' \in BOOLEAN /\ stopped' \in BOOLEAN /\ stopping' \in BOOLEAN
        /\ fatalErr' \in BOOLEAN /\ fatalCh' \in BOOLEAN
        /\ reader' \in {"none", "loop", "walking", "error", "fatal", "send", "stop"}
    BY <1>22 DEF FinishStop, Typing, TypeOK
  <2>7. /\ timer' = timer /\ staleTimers' = staleTimers
        /\ observing' = observing /\ drain' = drain /\ reader' = reader
    BY <1>22 DEF FinishStop, timerVars, flushVars
  <2>8. TypeOK'
    BY <2>2, <2>4, <2>5, <2>6, <2>7 DEF Typing, TypeOK
  <2>9. QED
    BY <2>1, <2>3, <2>7, <2>8 DEF Typing, IdleHoldsNothing, ReaderWhileReady, NotReadyIsEmpty
<1>23. CASE DrainCall
  BY <1>23 DEF DrainCall, Typing, TypeOK, IdleHoldsNothing, ReaderWhileReady, NotReadyIsEmpty,
       Syncing, dirtyVars, timerVars, flushVars, lifeVars, fatalVars, NoFlush, StopLocked, ScheduleSync, SignalProgress
<1>24. CASE DrainCheck
  BY <1>24 DEF DrainCheck, Typing, TypeOK, IdleHoldsNothing, ReaderWhileReady, NotReadyIsEmpty,
       Syncing, dirtyVars, timerVars, flushVars, lifeVars, fatalVars, NoFlush, StopLocked, ScheduleSync, SignalProgress
<1>25. CASE DrainCancelled
  BY <1>25 DEF DrainCancelled, Typing, TypeOK, IdleHoldsNothing, ReaderWhileReady, NotReadyIsEmpty,
       Syncing, dirtyVars, timerVars, flushVars, lifeVars, fatalVars, NoFlush, StopLocked, ScheduleSync, SignalProgress
<1>26. CASE UNCHANGED vars
  BY <1>26 DEF vars, Typing, TypeOK, IdleHoldsNothing, ReaderWhileReady, NotReadyIsEmpty,
       Syncing, dirtyVars, timerVars, flushVars, lifeVars, fatalVars, NoFlush, StopLocked, ScheduleSync, SignalProgress
<1>27. QED
  BY <1>1, <1>2, <1>3, <1>4, <1>5, <1>6, <1>7, <1>8, <1>9, <1>10, <1>11, <1>12, <1>13, <1>14, <1>15, <1>16, <1>17, <1>18, <1>19, <1>20, <1>21, <1>22, <1>23, <1>24, <1>25, <1>26
     DEF Next, ReaderNext, FlushNext, ControlNext

(* The type invariant, with what a joined watcher is left with. *)
THEOREM TypingHolds == Spec => []Typing
<1>1. Init => Typing
  BY InitTyping
<1>2. Typing /\ [Next]_vars => Typing'
  BY StepTyping
<1>3. QED
  BY <1>1, <1>2, PTL DEF Spec

(* TypeOK: no generation is completed or marked before it is accepted
   (recordPendingLocked, flush, finishStop). *)
THEOREM TypeCorrect == Spec => []TypeOK
<1>1. Typing => TypeOK
  BY DEF Typing
<1>2. QED
  BY <1>1, TypingHolds, PTL

-----------------------------------------------------------------------------
UnabsorbedWasAccepted == \A e \in unabsorbed : e.seq <= eventSeq

(* A running flush was handed everything up to its generation. *)
BatchCovers ==
  Syncing =>
    /\ completedEventSeq <= flush.batchEndSeq
    /\ \A e \in unabsorbed : e.seq <= flush.batchEndSeq => Covers(flush, e)

Coverage ==
  /\ NoEventForgotten
  /\ MarkerReplacesPaths
  /\ UnabsorbedWasAccepted
  /\ BatchCovers

(* A new watcher owes nothing. *)
LEMMA InitCoverage == Init => Coverage
  BY DEF Init, Coverage, NoEventForgotten, MarkerReplacesPaths, UnabsorbedWasAccepted,
     BatchCovers, Syncing, NoFlush, WholeTree

(* One recorded event, whichever way it is remembered. *)
LEMMA RecordCoverage ==
  ASSUME Typing, Coverage, NEW p \in Paths, NEW forceFull \in BOOLEAN,
         RecordPending(p, forceFull), UNCHANGED flush
  PROVE  Coverage'
<1> DEFINE new == [path |-> p, seq |-> eventSeq + 1]
<1>1. /\ eventSeq' = eventSeq + 1 /\ completedEventSeq' = completedEventSeq
      /\ unabsorbed' = unabsorbed \cup {new}
      /\ eventSeq \in Nat /\ completedEventSeq \in 0..eventSeq
      /\ pending \in [Paths -> 0..eventSeq] /\ unabsorbed \subseteq Event
      /\ fullReconcileEventSeq \in 0..eventSeq
  BY RecordTyping DEF Typing, TypeOK
<1>2. flush.batchEndSeq \in 0..eventSeq
  BY DEF Typing, TypeOK
<1>3. /\ fullReconcileEventSeq' = eventSeq + 1
      /\ pending' = NoPending \/ (WholeTree /\ UNCHANGED pending)
      \/ /\ UNCHANGED fullReconcileEventSeq /\ ~WholeTree
         /\ pending' = [pending EXCEPT ![p] = eventSeq + 1]
  BY DEF RecordPending, RecordUnderMarker
<1>4. NoEventForgotten'
  <2> SUFFICES ASSUME NEW e \in unabsorbed'
               PROVE  /\ completedEventSeq < e.seq
                      /\ fullReconcileEventSeq' >= e.seq \/ pending'[e.path] >= e.seq
    BY <1>1 DEF NoEventForgotten
  <2>1. CASE e = new
    BY <2>1, <1>1, <1>3
  <2>2. CASE e \in unabsorbed
    <3>1. /\ completedEventSeq < e.seq /\ e.seq <= eventSeq
          /\ fullReconcileEventSeq >= e.seq \/ pending[e.path] >= e.seq
          /\ e.path \in Paths /\ e.seq \in Nat
      BY <2>2, <1>1 DEF Coverage, NoEventForgotten, UnabsorbedWasAccepted, Event
    <3>2. QED
      BY <3>1, <1>1, <1>3
  <2>3. QED
    BY <2>1, <2>2, <1>1
<1>5. MarkerReplacesPaths'
  BY <1>1, <1>3 DEF Coverage, MarkerReplacesPaths, WholeTree, DirtyPaths, NoPending
<1>6. UnabsorbedWasAccepted'
  BY <1>1 DEF Coverage, UnabsorbedWasAccepted, Event
<1>7. BatchCovers'
  BY <1>1, <1>2 DEF Coverage, BatchCovers, Covers, Syncing
<1>8. QED
  BY <1>4, <1>5, <1>6, <1>7 DEF Coverage

(* A successful flush takes away exactly what it covered. *)
LEMMA SyncCoverage == Typing /\ Coverage /\ SyncSucceeds => Coverage'
<1> SUFFICES ASSUME Typing, Coverage, SyncSucceeds PROVE Coverage'
  OBVIOUS
<1> DEFINE b == flush.batchEndSeq
<1>1. /\ eventSeq' = eventSeq /\ completedEventSeq' = b
      /\ fullReconcileEventSeq' = IF fullReconcileEventSeq <= b THEN 0 ELSE fullReconcileEventSeq
      /\ pending' = [q \in Paths |-> IF pending[q] <= b THEN 0 ELSE pending[q]]
      /\ unabsorbed' = {e \in unabsorbed : ~Covers(flush, e)}
      /\ flush' = NoFlush /\ Syncing
  BY DEF SyncSucceeds, MarkerAfter, Syncing
<1>2. /\ eventSeq \in Nat /\ b \in 0..eventSeq /\ completedEventSeq \in 0..eventSeq
      /\ pending \in [Paths -> 0..eventSeq] /\ unabsorbed \subseteq Event
      /\ fullReconcileEventSeq \in 0..eventSeq
  BY DEF Typing, TypeOK
<1>3. \A e \in unabsorbed' : /\ e \in unabsorbed /\ e.seq > b
                             /\ e.path \in Paths /\ e.seq \in Nat
  BY <1>1, <1>2 DEF Coverage, BatchCovers, Event
<1>4. NoEventForgotten'
  BY <1>1, <1>2, <1>3 DEF Coverage, NoEventForgotten
<1>5. MarkerReplacesPaths'
  <2>1. WholeTree' => WholeTree
    BY <1>1, <1>2 DEF WholeTree, Coverage, BatchCovers
  <2>2. DirtyPaths' \subseteq DirtyPaths
    BY <1>1, <1>2 DEF DirtyPaths
  <2>3. QED
    BY <2>1, <2>2 DEF Coverage, MarkerReplacesPaths
<1>6. UnabsorbedWasAccepted'
  BY <1>1, <1>3 DEF Coverage, UnabsorbedWasAccepted
<1>7. BatchCovers'
  BY <1>1 DEF BatchCovers, Syncing, NoFlush
<1>8. QED
  BY <1>4, <1>5, <1>6, <1>7 DEF Coverage

(* Actions that touch neither the dirty state nor the running flush. *)
LEMMA CoverageFrame ==
  ASSUME Coverage, UNCHANGED dirtyVars, UNCHANGED flush
  PROVE  Coverage'
  BY DEF Coverage, NoEventForgotten, MarkerReplacesPaths, UnabsorbedWasAccepted, BatchCovers,
     Covers, Syncing, WholeTree, DirtyPaths, dirtyVars

(* Actions that change where the flush is, or end it, but not its batch. *)
LEMMA CoverageFlushMoves ==
  ASSUME Coverage, UNCHANGED dirtyVars, Syncing,
         \/ flush' = NoFlush
         \/ \E phase \in {"recheck", "sync"} : flush' = [flush EXCEPT !.phase = phase],
         Typing
  PROVE  Coverage'
<1>1. NoEventForgotten' /\ MarkerReplacesPaths' /\ UnabsorbedWasAccepted'
  BY DEF Coverage, NoEventForgotten, MarkerReplacesPaths, UnabsorbedWasAccepted,
     WholeTree, DirtyPaths, dirtyVars
<1>2. BatchCovers'
  <2>1. CASE flush' = NoFlush
    BY <2>1 DEF BatchCovers, Syncing, NoFlush
  <2>2. ASSUME NEW phase \in {"recheck", "sync"}, flush' = [flush EXCEPT !.phase = phase]
        PROVE BatchCovers'
    BY <2>2 DEF Coverage, BatchCovers, Covers, Syncing, dirtyVars, Typing, TypeOK
  <2>3. QED
    BY <2>1, <2>2
<1>3. QED
  BY <1>1, <1>2 DEF Coverage

(* Every step accounts for the events it accepts or absorbs. *)
LEMMA StepCoverage == Typing /\ Coverage /\ [Next]_vars => Coverage'
<1> SUFFICES ASSUME Typing, Coverage, [Next]_vars PROVE Coverage'
  OBVIOUS
<1>1. ASSUME NEW p \in Paths, NEW forceFull \in BOOLEAN, HandleChange(p, forceFull)
      PROVE Coverage'
  BY <1>1, RecordCoverage DEF HandleChange, flushVars
<1>2. ASSUME NEW p \in Paths, WalkRecord(p) PROVE Coverage'
  BY <1>2, RecordCoverage DEF WalkRecord, flushVars
<1>3. CASE \/ \E watchErr \in BOOLEAN : WalkEnd(watchErr)
           \/ NativeError \/ ObserveWatcherError \/ ReportFatal \/ SendFatal
           \/ StopAfterFatal \/ ReaderExit
  BY <1>3, CoverageFrame DEF WalkEnd, NativeError, ObserveWatcherError, ReportFatal,
     SendFatal, StopAfterFatal, ReaderExit, flushVars
<1>4. CASE \/ TimerFires \/ FlushStale \/ FlushWhileSyncing
           \/ \E outcome \in Outcome : ObserveResult(outcome)
  BY <1>4, CoverageFrame DEF TimerFires, FlushStale, FlushWhileSyncing, ObserveResult, flushVars
<1>5. CASE FlushBegin
  <2>1. NoEventForgotten' /\ MarkerReplacesPaths' /\ UnabsorbedWasAccepted'
    BY <1>5 DEF FlushBegin, Coverage, NoEventForgotten, MarkerReplacesPaths,
       UnabsorbedWasAccepted, WholeTree, DirtyPaths, dirtyVars
  <2>2. \A e \in unabsorbed : WholeTree \/ e.path \in DirtyPaths
    BY DEF Coverage, NoEventForgotten, WholeTree, DirtyPaths, Typing, TypeOK, Event
  <2>3. BatchCovers'
    BY <1>5, <2>2 DEF FlushBegin, Batch, BatchCovers, Covers, Syncing, dirtyVars, Typing, TypeOK
  <2>4. QED
    BY <2>1, <2>3 DEF Coverage
<1>6. CASE ObserveStarted \/ FlushRecheck
           \/ \E outcome \in {"retry", "failed"} : SyncFails(outcome)
  BY <1>6, CoverageFlushMoves DEF ObserveStarted, FlushRecheck, SyncFails, Syncing
<1>7. CASE SyncSucceeds
  BY <1>7, SyncCoverage
<1>8. CASE Start
  <2>1. unabsorbed = {} /\ eventSeq = 0
    BY <1>8 DEF Start, Typing, NotReadyIsEmpty, TypeOK, Coverage, NoEventForgotten,
       UnabsorbedWasAccepted, Event
  <2>2. QED
    BY <1>8, <2>1 DEF Start, Coverage, NoEventForgotten, MarkerReplacesPaths,
       UnabsorbedWasAccepted, BatchCovers, Covers, Syncing, WholeTree, DirtyPaths, NoPending,
       flushVars, Typing, TypeOK
<1>9. CASE FinishStop
  BY <1>9 DEF FinishStop, AllJoined, ResetGenerations, Coverage, NoEventForgotten,
     MarkerReplacesPaths, UnabsorbedWasAccepted, BatchCovers, Syncing, WholeTree, flushVars
<1>10. CASE StartFails \/ Stop \/ DrainCall \/ DrainCheck \/ DrainCancelled
  BY <1>10, CoverageFrame DEF StartFails, Stop, DrainCall, DrainCheck, DrainCancelled, flushVars
<1>11. CASE UNCHANGED vars
  BY <1>11, CoverageFrame DEF vars, flushVars
<1>12. QED
  BY <1>1, <1>2, <1>3, <1>4, <1>5, <1>6, <1>7, <1>8, <1>9, <1>10, <1>11
     DEF Next, ReaderNext, FlushNext, ControlNext

(* recordPendingLocked, flush: pending, the marker and the running batch always
   account for every event that is not absorbed. *)
THEOREM CoverageHolds == Spec => []Coverage
<1>1. Init => Coverage
  BY InitCoverage
<1>2. Typing /\ Coverage /\ [Next]_vars => Coverage'
  BY StepCoverage
<1>3. QED
  BY <1>1, <1>2, TypingHolds, PTL DEF Spec

(* flush and recordPendingLocked never lose an accepted event: it is absorbed by
   a flush that began after it, or DirtyState still shows it. *)
THEOREM NoEventIsForgotten == Spec => []NoEventForgotten
<1>1. Coverage => NoEventForgotten
  BY DEF Coverage
<1>2. QED
  BY <1>1, CoverageHolds, PTL

(* markWholeTreeDirtyLocked: the marker and the path set exclude each other. *)
THEOREM MarkerIsExclusive == Spec => []MarkerReplacesPaths
<1>1. Coverage => MarkerReplacesPaths
  BY DEF Coverage
<1>2. QED
  BY <1>1, CoverageHolds, PTL

(* Drain: nil means that everything accepted up to its target was absorbed. *)
THEOREM DrainIsSound == Spec => DrainSound
<1>1. Typing /\ Coverage /\ [Next]_vars
        => [ drain.pc = "check" /\ drain'.pc = "ok"
               => \A e \in unabsorbed : e.seq > drain.target ]_vars
  <2> SUFFICES ASSUME Typing, Coverage, Next, drain.pc = "check", drain'.pc = "ok",
                      NEW e \in unabsorbed
               PROVE  e.seq > drain.target
    OBVIOUS
  <2>1. DrainCheck
    BY DEF Next, ReaderNext, FlushNext, ControlNext, HandleChange, WalkRecord, WalkEnd,
       NativeError, ObserveWatcherError, ReportFatal, SendFatal, StopAfterFatal, StopLocked,
       ReaderExit, SignalProgress, TimerFires, FlushStale, FlushWhileSyncing, FlushBegin,
       ObserveStarted, FlushRecheck, SyncSucceeds, SyncFails, ObserveResult, Start, StartFails,
       Stop, FinishStop, DrainCall, DrainCancelled
  <2>2. completedEventSeq >= drain.target
    BY <2>1, SMT DEF DrainCheck, Reached, Typing, TypeOK
  <2>3. QED
    BY <2>2 DEF Typing, TypeOK, Coverage, NoEventForgotten, Event
<1>2. QED
  BY <1>1, TypingHolds, CoverageHolds, PTL DEF Spec, DrainSound

-----------------------------------------------------------------------------
(* Something arrived after generation b and is still dirty. *)
DirtySince(b) == fullReconcileEventSeq > b \/ \E p \in Paths : pending[p] > b

(* A timer, or a walk that will arm one, has work that no running flush has. *)
TimerHasWork ==
  timer # "none" \/ reader = "walking" =>
    /\ Dirty
    /\ Syncing => DirtySince(flush.batchEndSeq)

Wakeup == NoLostWakeup /\ TimerHasWork /\ EveryFlushHasWork

(* A new watcher needs no timer. *)
LEMMA InitWakeup == Init => Wakeup
  BY DEF Init, Wakeup, NoLostWakeup, TimerHasWork, EveryFlushHasWork, IsActive, Syncing, NoFlush

(* A recorded event is dirty, and later than any batch. *)
LEMMA RecordDirty ==
  ASSUME Typing, NEW p \in Paths, NEW forceFull \in BOOLEAN, RecordPending(p, forceFull)
  PROVE  Dirty' /\ \A b \in 0..eventSeq : DirtySince(b)'
<1>1. /\ eventSeq \in Nat /\ completedEventSeq \in 0..eventSeq
      /\ completedEventSeq' = completedEventSeq
      /\ pending \in [Paths -> 0..eventSeq]
  BY RecordTyping DEF Typing, TypeOK
<1>2. \/ fullReconcileEventSeq' = eventSeq + 1
      \/ pending' = [pending EXCEPT ![p] = eventSeq + 1]
  BY DEF RecordPending, RecordUnderMarker
<1>3. fullReconcileEventSeq' = eventSeq + 1 \/ pending'[p] = eventSeq + 1
  BY <1>1, <1>2
<1>4. QED
  BY <1>1, <1>3 DEF Dirty, DirtySince, WholeTree, DirtyPaths

(* Actions that leave the dirty state, the timer, the reader's walk and the
   flush alone. *)
LEMMA WakeupFrame ==
  ASSUME Wakeup, UNCHANGED dirtyVars, UNCHANGED timer, UNCHANGED flush,
         IsActive' => IsActive,
         reader' = "walking" <=> reader = "walking"
  PROVE  Wakeup'
  BY DEF Wakeup, NoLostWakeup, TimerHasWork, EveryFlushHasWork, Dirty, DirtySince, WholeTree,
     DirtyPaths, Syncing, dirtyVars

(* A stop takes the timer away, and whoever stops holds mu. *)
LEMMA WakeupStop ==
  ASSUME Wakeup, StopLocked, UNCHANGED dirtyVars, UNCHANGED flush, reader' # "walking"
  PROVE  Wakeup'
  BY DEF StopLocked, Wakeup, NoLostWakeup, TimerHasWork, EveryFlushHasWork, IsActive, Syncing

(* A successful sync arms a timer for exactly what it leaves dirty. *)
LEMMA SyncWakeup == Typing /\ Wakeup /\ SyncSucceeds => Wakeup'
<1> SUFFICES ASSUME Typing, Wakeup, SyncSucceeds PROVE Wakeup'
  OBVIOUS
<1>1. /\ completedEventSeq' = flush.batchEndSeq /\ flush' = NoFlush /\ Syncing
      /\ reader' = reader /\ reader # "walking" /\ ready' = ready /\ stopped' = stopped
      /\ Reschedule
  BY DEF SyncSucceeds, Syncing, MuFree, lifeVars
<1>2. DirtySince(flush.batchEndSeq) => Dirty'
  <2>1. CASE fullReconcileEventSeq > flush.batchEndSeq
    BY <2>1 DEF SyncSucceeds, MarkerAfter, Dirty, WholeTree, Typing, TypeOK
  <2>2. ASSUME NEW p \in Paths, pending[p] > flush.batchEndSeq PROVE Dirty'
    BY <2>2 DEF SyncSucceeds, Dirty, DirtyPaths, Typing, TypeOK
  <2>3. QED
    BY <2>1, <2>2 DEF DirtySince
<1>3. NoLostWakeup'
  BY <1>1 DEF NoLostWakeup, Reschedule, ScheduleSync, IsActive
<1>4. TimerHasWork'
  <2>1. timer' # "none" => Dirty'
    BY <1>1, <1>2 DEF Reschedule, Wakeup, TimerHasWork, timerVars
  <2>2. QED
    BY <1>1, <2>1 DEF TimerHasWork, Syncing, NoFlush
<1>5. EveryFlushHasWork'
  BY <1>1 DEF EveryFlushHasWork, Syncing, NoFlush
<1>6. QED
  BY <1>3, <1>4, <1>5 DEF Wakeup

(* Every step keeps a timer or a flush behind what is dirty. *)
LEMMA StepWakeup == Typing /\ Wakeup /\ [Next]_vars => Wakeup'
<1> SUFFICES ASSUME Typing, Wakeup, [Next]_vars PROVE Wakeup'
  OBVIOUS
<1>1. ASSUME NEW p \in Paths, NEW forceFull \in BOOLEAN, HandleChange(p, forceFull)
      PROVE Wakeup'
  BY <1>1, RecordDirty DEF HandleChange, ScheduleSync, flushVars, Wakeup, NoLostWakeup,
     TimerHasWork, EveryFlushHasWork, Syncing, Typing, TypeOK
<1>2. ASSUME NEW p \in Paths, WalkRecord(p) PROVE Wakeup'
  BY <1>2, RecordDirty DEF WalkRecord, timerVars, flushVars, Wakeup, NoLostWakeup,
     TimerHasWork, EveryFlushHasWork, Syncing, Typing, TypeOK
<1>3. ASSUME NEW watchErr \in BOOLEAN, WalkEnd(watchErr) PROVE Wakeup'
  BY <1>3 DEF WalkEnd, ScheduleSync, flushVars, dirtyVars, lifeVars, Wakeup, NoLostWakeup,
     TimerHasWork, EveryFlushHasWork, Syncing, Dirty, DirtySince, WholeTree, DirtyPaths, IsActive
<1>4. CASE NativeError \/ ObserveWatcherError \/ ReportFatal \/ SendFatal \/ ReaderExit
  BY <1>4, WakeupFrame DEF NativeError, ObserveWatcherError, ReportFatal, SendFatal, ReaderExit,
     timerVars, flushVars, lifeVars, IsActive
<1>5. CASE StopAfterFatal
  BY <1>5, WakeupStop, WakeupFrame DEF StopAfterFatal, timerVars, flushVars, lifeVars, IsActive
<1>6. CASE FlushStale \/ \E outcome \in Outcome : ObserveResult(outcome)
  BY <1>6, WakeupFrame DEF FlushStale, ObserveResult, timerVars, flushVars, lifeVars, IsActive
<1>7. CASE TimerFires
  BY <1>7 DEF TimerFires, dirtyVars, flushVars, lifeVars, Wakeup, NoLostWakeup, TimerHasWork,
     EveryFlushHasWork, Syncing, Dirty, DirtySince, WholeTree, DirtyPaths, IsActive
<1>8. CASE FlushWhileSyncing
  BY <1>8 DEF FlushWhileSyncing, MuFree, dirtyVars, flushVars, lifeVars, Wakeup, NoLostWakeup,
     TimerHasWork, EveryFlushHasWork, Syncing, Dirty, WholeTree, DirtyPaths, IsActive
<1>9. CASE FlushBegin
  BY <1>9 DEF FlushBegin, MuFree, Batch, dirtyVars, Wakeup, NoLostWakeup, TimerHasWork,
     EveryFlushHasWork, Syncing, Dirty, WholeTree, DirtyPaths
<1>10. CASE ObserveStarted \/ FlushRecheck
  <2>1. \/ stopped /\ flush' = NoFlush
        \/ \E phase \in {"recheck", "sync"} : flush' = [flush EXCEPT !.phase = phase]
    BY <1>10 DEF ObserveStarted, FlushRecheck
  <2>2. /\ UNCHANGED <<dirtyVars, timerVars, reader, lifeVars>> /\ Syncing
    BY <1>10 DEF ObserveStarted, FlushRecheck, Syncing
  <2>3. CASE stopped /\ flush' = NoFlush
    BY <2>2, <2>3 DEF dirtyVars, timerVars, lifeVars, NoFlush, Wakeup, NoLostWakeup,
       TimerHasWork, EveryFlushHasWork, Syncing, Dirty, WholeTree, DirtyPaths, IsActive
  <2>4. ASSUME NEW phase \in {"recheck", "sync"}, flush' = [flush EXCEPT !.phase = phase]
        PROVE Wakeup'
    <3>1. /\ flush'.batchEndSeq = flush.batchEndSeq /\ flush'.paths = flush.paths
          /\ flush'.full = flush.full /\ Syncing'
      BY <2>4 DEF Typing, TypeOK, Syncing
    <3>2. QED
      BY <2>2, <3>1 DEF dirtyVars, timerVars, lifeVars, Wakeup, NoLostWakeup, TimerHasWork,
         EveryFlushHasWork, Dirty, DirtySince, WholeTree, DirtyPaths, IsActive
  <2>5. QED
    BY <2>1, <2>3, <2>4
<1>11. CASE SyncSucceeds
  BY <1>11, SyncWakeup
<1>12. ASSUME NEW outcome \in {"retry", "failed"}, SyncFails(outcome) PROVE Wakeup'
  <2>1. Dirty' = Dirty
    BY <1>12 DEF SyncFails, dirtyVars, Dirty, WholeTree, DirtyPaths
  <2>2. QED
    BY <1>12, <2>1 DEF SyncFails, Reschedule, ScheduleSync, MuFree, timerVars, lifeVars, NoFlush,
       Wakeup, NoLostWakeup, TimerHasWork, EveryFlushHasWork, Syncing, IsActive
<1>13. CASE Start
  <2>1. /\ eventSeq = 0 /\ completedEventSeq = 0 /\ fullReconcileEventSeq = 0
        /\ \A p \in Paths : pending[p] = 0
    BY <1>13 DEF Start, Typing, NotReadyIsEmpty, TypeOK
  <2>2. ~Dirty /\ ~Dirty'
    BY <1>13, <2>1 DEF Start, Dirty, WholeTree, DirtyPaths, NoPending
  <2>3. QED
    BY <1>13, <2>2 DEF Start, timerVars, flushVars, Wakeup, NoLostWakeup, TimerHasWork,
       EveryFlushHasWork, Syncing
<1>14. CASE StartFails
  BY <1>14, WakeupFrame DEF StartFails, timerVars, flushVars, IsActive
<1>15. CASE Stop
  BY <1>15, WakeupStop DEF Stop, MuFree, flushVars
<1>16. CASE FinishStop
  BY <1>16 DEF FinishStop, AllJoined, timerVars, flushVars, Wakeup, NoLostWakeup, TimerHasWork,
     EveryFlushHasWork, Syncing, IsActive
<1>17. CASE DrainCall \/ DrainCheck \/ DrainCancelled
  BY <1>17, WakeupFrame DEF DrainCall, DrainCheck, DrainCancelled, timerVars, flushVars, lifeVars,
     IsActive
<1>18. CASE UNCHANGED vars
  BY <1>18, WakeupFrame DEF vars, timerVars, flushVars, lifeVars, IsActive
<1>19. QED
  BY <1>1, <1>2, <1>3, <1>4, <1>5, <1>6, <1>7, <1>8, <1>9, <1>10, <1>11, <1>12, <1>13,
     <1>14, <1>15, <1>16, <1>17, <1>18
     DEF Next, ReaderNext, FlushNext, ControlNext

(* scheduleSyncLocked, flush: whatever is dirty has a timer or a flush, and a
   timer or a flush has something dirty. *)
THEOREM WakeupHolds == Spec => []Wakeup
<1>1. Init => Wakeup
  BY InitWakeup
<1>2. Typing /\ Wakeup /\ [Next]_vars => Wakeup'
  BY StepWakeup
<1>3. QED
  BY <1>1, <1>2, TypingHolds, PTL DEF Spec

(* scheduleSyncLocked and the end of flush: dirtiness never waits without a timer. *)
THEOREM NoWakeupIsLost == Spec => []NoLostWakeup
<1>1. Wakeup => NoLostWakeup
  BY DEF Wakeup
<1>2. QED
  BY <1>1, WakeupHolds, PTL

(* flush: the syncFn of an idle watcher is never called. *)
THEOREM FlushesHaveWork == Spec => []EveryFlushHasWork
<1>1. Wakeup => EveryFlushHasWork
  BY DEF Wakeup
<1>2. QED
  BY <1>1, WakeupHolds, PTL

-----------------------------------------------------------------------------
(* Nothing starts a goroutine between the join and the next start. *)
LEMMA StepQuiet == Typing /\ StoppedIsQuiet /\ [Next]_vars => StoppedIsQuiet'
<1> SUFFICES ASSUME Typing, StoppedIsQuiet, [Next]_vars PROVE StoppedIsQuiet'
  OBVIOUS
<1>1. CASE ReaderNext
  BY <1>1 DEF ReaderNext, HandleChange, WalkRecord, WalkEnd, NativeError, ObserveWatcherError,
     ReportFatal, SendFatal, StopAfterFatal, StopLocked, ReaderExit, StoppedIsQuiet, Syncing,
     Observers, lifeVars, timerVars, flushVars
<1>2. CASE FlushNext
  <2>1. CASE TimerFires \/ FlushStale \/ FlushWhileSyncing \/ FlushBegin \/ ObserveStarted
             \/ FlushRecheck
    <3>1. stopped' = stopped /\ stopping' = stopping
      BY <2>1 DEF TimerFires, FlushStale, FlushWhileSyncing, FlushBegin, ObserveStarted,
         FlushRecheck, lifeVars
    <3>2. timer # "none" \/ staleTimers > 0 \/ Syncing
      BY <2>1 DEF TimerFires, FlushStale, FlushWhileSyncing, FlushBegin, ObserveStarted,
         FlushRecheck, Syncing
    <3>3. QED
      BY <3>1, <3>2 DEF StoppedIsQuiet
  <2>2. CASE SyncSucceeds \/ \E outcome \in {"retry", "failed"} : SyncFails(outcome)
    BY <2>2 DEF SyncSucceeds, SyncFails, StoppedIsQuiet, Syncing, lifeVars
  <2>3. ASSUME NEW outcome \in Outcome, ObserveResult(outcome) PROVE StoppedIsQuiet'
    <3>1. Observers > 0
      BY <2>3 DEF ObserveResult, Observers, Outcome, Typing, TypeOK
    <3>2. QED
      BY <2>3, <3>1 DEF ObserveResult, StoppedIsQuiet, lifeVars
  <2>4. QED
    BY <1>2, <2>1, <2>2, <2>3 DEF FlushNext
<1>3. CASE ControlNext
  BY <1>3 DEF ControlNext, Start, StartFails, Stop, StopLocked, FinishStop, AllJoined, DrainCall,
     DrainCheck, DrainCancelled, StoppedIsQuiet, Syncing, Observers, lifeVars, timerVars, flushVars
<1>4. CASE UNCHANGED vars
  BY <1>4 DEF vars, StoppedIsQuiet, Syncing, Observers, lifeVars, timerVars, flushVars
<1>5. QED
  BY <1>1, <1>2, <1>3, <1>4 DEF Next

(* StopAndWait and finishStop: nothing of the watcher runs once the stop is complete. *)
THEOREM StopJoinsEverything == Spec => []StoppedIsQuiet
<1>1. Init => StoppedIsQuiet
  BY DEF Init, StoppedIsQuiet
<1>2. Typing /\ StoppedIsQuiet /\ [Next]_vars => StoppedIsQuiet'
  BY StepQuiet
<1>3. QED
  BY <1>1, <1>2, TypingHolds, PTL DEF Spec

-----------------------------------------------------------------------------
(* The watcher implements GenerationLedger: a recorded event is an Accept, a
   successful flush is a Complete of the generation it captured, the join of a
   stop is a Reset, and everything else is a stutter. *)
THEOREM WatcherImplementsLedger == Spec => ImplementsLedger
<1> DEFINE owed == {e.seq : e \in unabsorbed}
<1>1. Init => Ledger!Init
  BY DEF Init, Ledger!Init
<1>2. Typing /\ Coverage /\ [Next]_vars => [Ledger!Next]_(Ledger!ledger)
  <2> SUFFICES ASSUME Typing, Coverage, [Next]_vars
               PROVE  Ledger!Next \/ UNCHANGED Ledger!ledger
    OBVIOUS
  <2>1. ASSUME UNCHANGED dirtyVars PROVE UNCHANGED Ledger!ledger
    BY <2>1 DEF dirtyVars, Ledger!ledger
  <2>2. ASSUME NEW p \in Paths, NEW forceFull \in BOOLEAN, RecordPending(p, forceFull)
        PROVE  Ledger!Next
    <3>1. /\ eventSeq' = eventSeq + 1 /\ completedEventSeq' = completedEventSeq
          /\ unabsorbed' = unabsorbed \cup {[path |-> p, seq |-> eventSeq + 1]}
      BY <2>2 DEF RecordPending
    <3>2. owed' = owed \cup {eventSeq + 1}
      <4> DEFINE new == [path |-> p, seq |-> eventSeq + 1]
      <4>1. new.seq = eventSeq + 1 /\ unabsorbed' = unabsorbed \cup {new}
        BY <3>1
      <4> HIDE DEF new
      <4>2. QED
        BY <4>1
    <3>3. Ledger!Accept
      BY <3>1, <3>2 DEF Ledger!Accept
    <3>4. QED
      BY <3>3 DEF Ledger!Next
  <2>3. CASE SyncSucceeds
    <3>1. /\ eventSeq' = eventSeq /\ completedEventSeq' = flush.batchEndSeq
          /\ unabsorbed' = {e \in unabsorbed : ~Covers(flush, e)} /\ Syncing
      BY <2>3 DEF SyncSucceeds, Syncing
    <3>2. \A e \in unabsorbed : ~Covers(flush, e) <=> e.seq > flush.batchEndSeq
      BY <3>1 DEF Coverage, BatchCovers, Covers, Typing, TypeOK, Event
    <3>3. owed' = {g \in owed : g > flush.batchEndSeq}
      BY <3>1, <3>2
    <3>4. Ledger!Complete(flush.batchEndSeq)
      BY <3>1, <3>3 DEF Ledger!Complete, Coverage, BatchCovers
    <3>5. flush.batchEndSeq \in 0..eventSeq
      BY DEF Typing, TypeOK
    <3>6. QED
      BY <3>4, <3>5 DEF Ledger!Next, Ledger!Complete
  <2>4. CASE FinishStop
    BY <2>4 DEF FinishStop, ResetGenerations, Ledger!Next, Ledger!Reset
  <2>5. CASE Start
    <3>1. /\ eventSeq' = eventSeq /\ completedEventSeq' = completedEventSeq
          /\ unabsorbed' = unabsorbed
      BY <2>5 DEF Start
    <3>2. QED
      BY <3>1 DEF Ledger!ledger
  <2>6. ASSUME NEW p \in Paths, NEW forceFull \in BOOLEAN, HandleChange(p, forceFull)
        PROVE  Ledger!Next
    BY <2>2, <2>6 DEF HandleChange
  <2>7. ASSUME NEW p \in Paths, WalkRecord(p) PROVE Ledger!Next
    BY <2>2, <2>7 DEF WalkRecord
  <2>8. CASE \/ \E watchErr \in BOOLEAN : WalkEnd(watchErr)
             \/ NativeError \/ ObserveWatcherError \/ ReportFatal \/ SendFatal
             \/ StopAfterFatal \/ ReaderExit
    BY <2>1, <2>8 DEF WalkEnd, NativeError, ObserveWatcherError, ReportFatal, SendFatal,
       StopAfterFatal, ReaderExit
  <2>9. CASE \/ TimerFires \/ FlushStale \/ FlushWhileSyncing \/ FlushBegin
             \/ ObserveStarted \/ FlushRecheck
             \/ \E outcome \in {"retry", "failed"} : SyncFails(outcome)
             \/ \E outcome \in Outcome : ObserveResult(outcome)
    BY <2>1, <2>9 DEF TimerFires, FlushStale, FlushWhileSyncing, FlushBegin, ObserveStarted,
       FlushRecheck, SyncFails, ObserveResult
  <2>10. CASE StartFails \/ Stop \/ DrainCall \/ DrainCheck \/ DrainCancelled
    BY <2>1, <2>10 DEF StartFails, Stop, DrainCall, DrainCheck, DrainCancelled
  <2>11. CASE UNCHANGED vars
    BY <2>1, <2>11 DEF vars
  <2>12. QED
    BY <2>3, <2>4, <2>5, <2>6, <2>7, <2>8, <2>9, <2>10, <2>11
       DEF Next, ReaderNext, FlushNext, ControlNext
<1>3. QED
  BY <1>1, <1>2, TypingHolds, CoverageHolds, PTL DEF Spec, ImplementsLedger, Ledger!Spec

-----------------------------------------------------------------------------
(* The owner. *)

Owned == Typing /\ Coverage /\ StoppedIsQuiet

OwnerTypes ==
  /\ owner \in {"new", "covered", "reconciling", "drain", "running", "joining",
                "failed", "unwinding", "closed"}
  /\ indexOpen \in BOOLEAN
  /\ status \in [pc : {"idle", "snapped", "holding", "reported"}, clean : BOOLEAN,
                 absorbed : BOOLEAN, current : BOOLEAN, ready : BOOLEAN]

(* The watcher is started by the owner alone, once, and stopped for good. *)
Life ==
  /\ stopping => stopped
  /\ owner = "new" => ~stopping /\ reader = "none" /\ lost = {} /\ status.pc = "idle"
  /\ owner \in {"joining", "unwinding", "closed"} => stopped
  /\ owner = "closed" => ~stopping
  /\ ~indexOpen => owner = "closed"
  /\ lost # {} => stopped

(* A clean dirty state with events that were lost belongs to a stopped watcher. *)
Reporting ==
  /\ status.pc \in {"snapped", "holding"} /\ status.clean /\ ~status.absorbed => stopped
  /\ status.pc = "holding" /\ status.current => status.clean
  /\ HealthyIsCurrent

FreshInv == Owned /\ OwnerTypes /\ Life /\ Reporting

(* A step of the owner, as its watcher meets it. *)
LEMMA StepOfWatcher == [FreshNext]_freshVars => [Next]_vars \/ WaitFails
<1> SUFFICES ASSUME FreshNext, ~WaitFails PROVE [Next]_vars
  BY DEF freshVars
<1> USE DEF Next, ReaderNext, FlushNext, ControlNext
<1>1. CASE WatcherAlone
  BY <1>1 DEF WatcherAlone
<1>2. CASE OwnerSeesStart \/ OwnerSeesWatcherError
  BY <1>2 DEF OwnerSeesStart, OwnerSeesWatcherError
<1>3. ASSUME NEW outcome \in Outcome, OwnerSeesResult(outcome) PROVE [Next]_vars
  BY <1>3 DEF OwnerSeesResult
<1>4. CASE OwnerStarts \/ OwnerStartFails \/ OwnerDrains \/ OwnerLosesWatcher
  BY <1>4 DEF OwnerStarts, OwnerStartFails, OwnerDrains, OwnerLosesWatcher
<1>5. CASE CloseStops
  BY <1>5 DEF CloseStops
<1>6. ASSUME NEW ok \in BOOLEAN, StartupReconciles(ok) PROVE [Next]_vars
  BY <1>6 DEF StartupReconciles
<1>7. CASE SetWatchReady \/ OwnerReady \/ OwnerNotDrained \/ CloseJoined
  BY <1>7 DEF SetWatchReady, OwnerReady, OwnerNotDrained, CloseJoined
<1>8. CASE WaitCall \/ WaitCancelled \/ StatusSnapshot \/ StatusFlags \/ StatusActive
  BY <1>8 DEF WaitCall, WaitCancelled, StatusSnapshot, StatusFlags, StatusActive
<1>9. QED
  BY <1>1, <1>2, <1>3, <1>4, <1>5, <1>6, <1>7, <1>8 DEF FreshNext

(* What is proved of the watcher survives Wait, which takes from its channel. *)
LEMMA WaitOwned == Owned /\ WaitFails => Owned'
<1> SUFFICES ASSUME Owned, WaitFails PROVE Owned'
  OBVIOUS
<1>1. /\ UNCHANGED <<eventSeq, completedEventSeq, fullReconcileEventSeq, pending, unabsorbed>>
      /\ UNCHANGED <<timer, staleTimers, flush, observing, reader>>
      /\ UNCHANGED <<ready, stopped, stopping, session, fatalErr, drain>>
  BY DEF WaitFails, dirtyVars, timerVars, flushVars, lifeVars
<1>2. fatalCh' \in BOOLEAN
  BY DEF WaitFails, Owned, Typing, TypeOK
<1>3. Typing'
  BY <1>1, <1>2 DEF Owned, Typing, TypeOK, IdleHoldsNothing, ReaderWhileReady, NotReadyIsEmpty,
     Syncing
<1>4. Coverage'
  BY <1>1, CoverageFrame DEF Owned, dirtyVars
<1>5. StoppedIsQuiet'
  BY <1>1 DEF Owned, StoppedIsQuiet, Syncing, Observers
<1>6. QED
  BY <1>3, <1>4, <1>5 DEF Owned

LEMMA StepOwned == Owned /\ [FreshNext]_freshVars => Owned'
  BY StepOfWatcher, WaitOwned, StepTyping, StepCoverage, StepQuiet DEF Owned

(* Steps of the watcher alone never restart it, and stop it only when its reader ends. *)
LEMMA WatcherAloneIsFinal ==
  ASSUME WatcherAlone
  PROVE  /\ stopped => stopped'
         /\ stopping' => stopping \/ stopped'
         /\ stopped \/ reader = "none" => stopping' = stopping
         /\ reader = "none" => reader' = "none"
<1>1. ASSUME NEW p \in Paths, NEW forceFull \in BOOLEAN, HandleChange(p, forceFull)
      PROVE  stopped' = stopped /\ stopping' = stopping /\ reader # "none"
  BY <1>1 DEF HandleChange, lifeVars
<1>2. ASSUME NEW p \in Paths, WalkRecord(p)
      PROVE  stopped' = stopped /\ stopping' = stopping /\ reader # "none"
  BY <1>2 DEF WalkRecord, lifeVars
<1>3. ASSUME NEW watchErr \in BOOLEAN, WalkEnd(watchErr)
      PROVE  stopped' = stopped /\ stopping' = stopping /\ reader # "none"
  BY <1>3 DEF WalkEnd, lifeVars
<1>4. ASSUME NativeError \/ ReportFatal \/ SendFatal \/ ReaderExit
      PROVE  stopped' = stopped /\ stopping' = stopping /\ reader # "none"
  BY <1>4 DEF NativeError, ReportFatal, SendFatal, ReaderExit, lifeVars
<1>5. CASE StopAfterFatal
  BY <1>5 DEF StopAfterFatal, StopLocked, lifeVars
<1>6. ASSUME TimerFires \/ FlushStale \/ FlushWhileSyncing \/ FlushBegin \/ FlushRecheck
      PROVE  stopped' = stopped /\ stopping' = stopping /\ reader' = reader
  BY <1>6 DEF TimerFires, FlushStale, FlushWhileSyncing, FlushBegin, FlushRecheck, lifeVars
<1>7. ASSUME SyncSucceeds \/ DrainCheck \/ DrainCancelled
      PROVE  stopped' = stopped /\ stopping' = stopping /\ reader' = reader
  BY <1>7 DEF SyncSucceeds, DrainCheck, DrainCancelled, lifeVars
<1>8. ASSUME NEW outcome \in {"retry", "failed"}, SyncFails(outcome)
      PROVE  stopped' = stopped /\ stopping' = stopping /\ reader' = reader
  BY <1>8 DEF SyncFails, lifeVars
<1>9. QED
  BY <1>1, <1>2, <1>3, <1>4, <1>5, <1>6, <1>7, <1>8 DEF WatcherAlone

(* A clean dirty state has absorbed every event that was accepted. *)
LEMMA CleanIsAbsorbed == Typing /\ Coverage /\ Clean => unabsorbed = {}
<1> SUFFICES ASSUME Typing, Coverage, Clean, NEW e \in unabsorbed PROVE FALSE
  OBVIOUS
<1>1. completedEventSeq < e.seq /\ e.seq <= eventSeq
  BY DEF Coverage, NoEventForgotten, UnabsorbedWasAccepted
<1>2. completedEventSeq = eventSeq /\ eventSeq \in Nat /\ e.seq \in Nat
  BY DEF Clean, Typing, TypeOK, Event
<1>3. QED
  BY <1>1, <1>2

(* Every step keeps the owner's invariant. *)
LEMMA StepFresh == FreshInv /\ [FreshNext]_freshVars => FreshInv'
<1> SUFFICES ASSUME FreshInv, [FreshNext]_freshVars PROVE FreshInv'
  OBVIOUS
<1>o. Owned'
  BY StepOwned DEF FreshInv
<1>f. /\ Owned /\ OwnerTypes /\ Life /\ Reporting
  BY DEF FreshInv
<1>g. SUFFICES OwnerTypes' /\ Life' /\ Reporting'
  BY <1>o DEF FreshInv
<1> USE DEF OwnerTypes, Life, Reporting, HealthyIsCurrent
<1>1. CASE WatcherAlone /\ UNCHANGED ownerVars
  <2>1. UNCHANGED <<owner, indexOpen, status, lost>>
    BY <1>1 DEF ownerVars
  <2>2. QED
    BY <1>1, <1>f, <2>1, WatcherAloneIsFinal
<1>2. CASE OwnerSeesStart
  BY <1>2, <1>f DEF OwnerSeesStart, ObserveStarted, lifeVars
<1>3. CASE OwnerSeesWatcherError
  BY <1>3, <1>f DEF OwnerSeesWatcherError, ObserveWatcherError, lifeVars
<1>4. ASSUME NEW outcome \in Outcome, OwnerSeesResult(outcome)
      PROVE  OwnerTypes' /\ Life' /\ Reporting'
  BY <1>4, <1>f DEF OwnerSeesResult, ObserveResult, lifeVars
<1>5. CASE OwnerStarts
  BY <1>5, <1>f DEF OwnerStarts, Start
<1>6. CASE OwnerStartFails
  BY <1>6, <1>f DEF OwnerStartFails, StartFails
<1>7. CASE SetWatchReady
  BY <1>7, <1>f DEF SetWatchReady, vars, lifeVars
<1>8. ASSUME NEW ok \in BOOLEAN, StartupReconciles(ok)
      PROVE  OwnerTypes' /\ Life' /\ Reporting'
  BY <1>8, <1>f DEF StartupReconciles, vars, lifeVars
<1>9. CASE OwnerDrains
  BY <1>9, <1>f DEF OwnerDrains, DrainCall, ownerVars, lifeVars
<1>10. CASE OwnerReady
  BY <1>10, <1>f DEF OwnerReady, vars, lifeVars
<1>11. CASE OwnerNotDrained
  BY <1>11, <1>f DEF OwnerNotDrained, vars, lifeVars
<1>12. CASE WaitCall
  BY <1>12, <1>f DEF WaitCall, vars, lifeVars
<1>13. CASE WaitFails
  BY <1>13, <1>f DEF WaitFails, lifeVars
<1>14. CASE WaitCancelled
  BY <1>14, <1>f DEF WaitCancelled, vars, lifeVars
<1>15. CASE OwnerLosesWatcher
  BY <1>15, <1>f DEF OwnerLosesWatcher, FinishStop
<1>16. CASE CloseStops
  <2>1. UNCHANGED <<indexOpen, status, lost>> /\ owner' \in {"joining", "unwinding"}
    BY <1>16 DEF CloseStops
  <2>2. stopped' /\ (stopping' => stopped')
    BY <1>16, <1>f DEF CloseStops, Stop, StopLocked, vars, lifeVars
  <2>3. indexOpen
    BY <1>16, <1>f DEF CloseStops
  <2>4. QED
    BY <2>1, <2>2, <2>3, <1>f
<1>17. CASE CloseJoined
  BY <1>17, <1>f DEF CloseJoined, vars, lifeVars
<1>18. CASE StatusSnapshot
  <2>1. UNCHANGED <<owner, indexOpen, lost, stopped, stopping, reader>>
    BY <1>18 DEF StatusSnapshot, vars, lifeVars
  <2>2. status' = [pc |-> "snapped", clean |-> Clean, absorbed |-> (unabsorbed \cup lost = {}),
                   current |-> FALSE, ready |-> FALSE]
    BY <1>18 DEF StatusSnapshot, NoStatus
  <2>3. Clean => unabsorbed = {}
    BY <1>f, CleanIsAbsorbed DEF Owned
  <2>4. owner # "new"
    BY <1>18 DEF StatusSnapshot, Returned
  <2>5. Clean \in BOOLEAN
    BY DEF Clean, Dirty, WholeTree
  <2>6. QED
    BY <2>1, <2>2, <2>3, <2>4, <2>5, <1>f
<1>19. CASE StatusFlags
  <2>1. UNCHANGED <<owner, indexOpen, lost, stopped, stopping, reader>>
    BY <1>19 DEF StatusFlags, vars, lifeVars
  <2>2. status.pc = "snapped"
        /\ status' = [status EXCEPT !.pc = "holding", !.current = indexCurrent /\ status.clean]
    BY <1>19 DEF StatusFlags
  <2>3. QED
    BY <2>1, <2>2, <1>f
<1>20. CASE StatusActive
  <2>1. UNCHANGED <<owner, indexOpen, lost, stopped, stopping, reader>>
    BY <1>20 DEF StatusActive, vars, lifeVars
  <2>2. status.pc = "holding"
        /\ status' = [status EXCEPT !.pc = "reported", !.ready = watchReady /\ IsActive]
    BY <1>20 DEF StatusActive
  <2>3. IsActive => ~stopped
    BY DEF IsActive
  <2>4. QED
    BY <2>1, <2>2, <2>3, <1>f
<1>21. CASE UNCHANGED freshVars
  BY <1>21, <1>f DEF freshVars, ownerVars, vars, lifeVars
<1>22. QED
  BY <1>1, <1>2, <1>3, <1>4, <1>5, <1>6, <1>7, <1>8, <1>9, <1>10, <1>11, <1>12, <1>13, <1>14,
     <1>15, <1>16, <1>17, <1>18, <1>19, <1>20, <1>21 DEF FreshNext

LEMMA InitFresh == FreshInit => FreshInv
<1> SUFFICES ASSUME FreshInit PROVE FreshInv
  OBVIOUS
<1>1. Typing /\ Coverage
  BY InitTyping, InitCoverage DEF FreshInit
<1>2. StoppedIsQuiet
  BY DEF FreshInit, Init, StoppedIsQuiet
<1>3. OwnerTypes /\ Life /\ Reporting
  BY DEF FreshInit, Init, NoStatus, OwnerTypes, Life, Reporting, HealthyIsCurrent
<1>4. QED
  BY <1>1, <1>2, <1>3 DEF FreshInv, Owned

(* freshness.Owner: the watcher inside it keeps all its promises, whoever
   starts, drains, stops or closes it. *)
THEOREM OwnerIsConsistent == FreshSpec => []FreshInv
  BY InitFresh, StepFresh, PTL DEF FreshSpec

(* Status: an owner reported as watching and current had every accepted event
   in the index when its dirty state was read. *)
THEOREM HealthIsTrue == FreshSpec => []HealthyIsCurrent
<1>1. FreshInv => HealthyIsCurrent
  BY DEF FreshInv, Reporting
<1>2. QED
  BY <1>1, OwnerIsConsistent, PTL

(* Close: whatever races with it, no reconciliation writes to a closed index. *)
THEOREM IndexClosesLast == FreshSpec => []IndexOutlivesWriters
<1>1. FreshInv => IndexOutlivesWriters
  BY DEF FreshInv, Owned, OwnerTypes, Life, StoppedIsQuiet, Syncing, IndexOutlivesWriters
<1>2. QED
  BY <1>1, OwnerIsConsistent, PTL
=============================================================================
