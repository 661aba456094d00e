----------------------------- MODULE Freshness ------------------------------
(***************************************************************************)
(* freshness.Owner (freshness/owner.go): the open index, its watcher, and  *)
(* the health it reports.  It starts the watcher once, reconciles, drains, *)
(* listens to the watcher's observations, and answers Status and Wait      *)
(* until it is closed.                                                     *)
(*                                                                         *)
(* The watcher is module FileWatcher, extended: its Start, Stop and Drain  *)
(* are called by the owner alone, and its observations call observe.       *)
(* o.mu is held for one action, except by Status, which keeps it while it  *)
(* asks the watcher IsActive (and so may wait for fw.mu).                  *)
(*                                                                         *)
(* Left out: times, error texts, and what a reconciliation writes.         *)
(***************************************************************************)
EXTENDS FileWatcher

VARIABLES
  owner,         \* where Start or Close is; "running" when Start has returned an owner
  watchReady,    \* o.watchReady
  indexCurrent,  \* o.indexCurrent
  indexOpen,     \* o.indexer is open
  waiter,        \* the caller of Wait, and the fatal channel it listens to
  status,        \* the caller of Status: what it has read, and what it reports
  lost           \* history: accepted events a stop has dropped unabsorbed

healthVars == <<watchReady, indexCurrent>>
ownerVars  == <<owner, healthVars, indexOpen, waiter, status, lost>>
freshVars  == <<vars, ownerVars>>

NoStatus == [pc |-> "idle", clean |-> FALSE, absorbed |-> FALSE,
             current |-> FALSE, ready |-> FALSE]

OMuFree  == status.pc # "holding"
Returned == owner \in {"running", "joining"}

FreshInit ==
  /\ Init
  /\ owner = "new"
  /\ watchReady = FALSE
  /\ indexCurrent = FALSE
  /\ indexOpen = TRUE
  /\ waiter = "none"
  /\ status = NoStatus
  /\ lost = {}

-----------------------------------------------------------------------------
(* observe: what the watcher's goroutines tell the owner. *)

OwnerSeesStart ==
  /\ ObserveStarted
  /\ OMuFree
  /\ indexCurrent' = FALSE
  /\ UNCHANGED <<owner, watchReady, indexOpen, waiter, status, lost>>

OwnerSeesResult(outcome) ==
  /\ ObserveResult(outcome)
  /\ OMuFree
  /\ indexCurrent' = (outcome = "completed")
  /\ UNCHANGED <<owner, watchReady, indexOpen, waiter, status, lost>>

OwnerSeesWatcherError ==
  /\ ObserveWatcherError
  /\ OMuFree
  /\ watchReady' = FALSE
  /\ indexCurrent' = FALSE
  /\ UNCHANGED <<owner, indexOpen, waiter, status, lost>>

-----------------------------------------------------------------------------
(* Start. *)

OwnerStarts ==
  /\ owner = "new"
  /\ Start
  /\ owner' = "covered"
  /\ UNCHANGED <<healthVars, indexOpen, waiter, status, lost>>

(* No coverage: Start closes what it has opened. *)
OwnerStartFails ==
  /\ owner = "new"
  /\ StartFails
  /\ owner' = "failed"
  /\ UNCHANGED <<healthVars, indexOpen, waiter, status, lost>>

(* The watcher may have failed already: the flag is set all the same. *)
SetWatchReady ==
  /\ owner = "covered"
  /\ watchReady' = TRUE
  /\ owner' = "reconciling"
  /\ UNCHANGED <<vars, indexCurrent, indexOpen, waiter, status, lost>>

(* The startup reconciliation, with recordStartup. *)
StartupReconciles(ok) ==
  /\ owner = "reconciling"
  /\ owner' = IF ok THEN "drain" ELSE "failed"
  /\ indexCurrent' = (ok /\ indexCurrent)
  /\ UNCHANGED <<vars, watchReady, indexOpen, waiter, status, lost>>

OwnerDrains ==
  /\ owner = "drain" /\ drain.pc = "idle"
  /\ DrainCall
  /\ UNCHANGED ownerVars

(* The accepted generation is drained: Start returns the owner as current. *)
OwnerReady ==
  /\ owner = "drain" /\ drain.pc = "ok"
  /\ indexCurrent' = TRUE
  /\ owner' = "running"
  /\ UNCHANGED <<vars, watchReady, indexOpen, waiter, status, lost>>

OwnerNotDrained ==
  /\ owner = "drain" /\ drain.pc = "error"
  /\ owner' = "failed"
  /\ UNCHANGED <<vars, healthVars, indexOpen, waiter, status, lost>>

-----------------------------------------------------------------------------
(* Wait and Close. *)

(* Wait asks FatalErrors once for the channel it listens to. *)
WaitCall ==
  /\ owner = "running" /\ waiter = "none"
  /\ MuFree
  /\ waiter' = "current"
  /\ UNCHANGED <<vars, owner, healthVars, indexOpen, status, lost>>

(* It receives the failure from that channel, which finishStop may have
   replaced meanwhile ("filled", "empty": what the replaced one holds). *)
WaitFails ==
  /\ \/ waiter = "current" /\ fatalCh /\ fatalCh' = FALSE
     \/ waiter = "filled" /\ UNCHANGED fatalCh
  /\ waiter' = "failed"
  /\ UNCHANGED <<dirtyVars, timerVars, flushVars, reader, lifeVars, fatalErr, drain,
                 owner, healthVars, indexOpen, status, lost>>

WaitCancelled ==
  /\ waiter \in {"current", "filled", "empty"}
  /\ waiter' = "cancelled"
  /\ UNCHANGED <<vars, owner, healthVars, indexOpen, status, lost>>

(* finishStop, as the owner's callers meet it: events nobody absorbed are gone,
   and so is the fatal channel. *)
OwnerLosesWatcher ==
  /\ FinishStop
  /\ lost' = lost \cup unabsorbed
  /\ waiter' = CASE waiter = "current" /\ fatalCh  -> "filled"
                 [] waiter = "current" /\ ~fatalCh -> "empty"
                 [] OTHER -> waiter
  /\ UNCHANGED <<owner, healthVars, indexOpen, status>>

(* Close: StopAndWait stops the watcher, unless it is stopped already, ... *)
CloseStops ==
  /\ owner \in {"running", "failed"}
  /\ \/ Stop
     \/ stopped /\ MuFree /\ UNCHANGED vars
  /\ owner' = IF owner = "running" THEN "joining" ELSE "unwinding"
  /\ UNCHANGED <<healthVars, indexOpen, waiter, status, lost>>

(* Mutant of CloseJoined: Stop instead of StopAndWait. *)
CloseUnjoined ==
  /\ owner \in {"joining", "unwinding"}
  /\ OMuFree
  /\ watchReady' = FALSE
  /\ indexCurrent' = FALSE
  /\ indexOpen' = FALSE
  /\ owner' = "closed"
  /\ UNCHANGED <<vars, waiter, status, lost>>

(* ... waits until the stop is complete, and closes the index. *)
CloseJoined ==
  /\ owner \in {"joining", "unwinding"}
  /\ ~stopping
  /\ OMuFree
  /\ watchReady' = FALSE
  /\ indexCurrent' = FALSE
  /\ indexOpen' = FALSE
  /\ owner' = "closed"
  /\ UNCHANGED <<vars, waiter, status, lost>>

-----------------------------------------------------------------------------
(* Status: DirtyState under fw.mu, then the flags under o.mu, then IsActive. *)

(* Mutant of Clean: the flag of the last operation is believed. *)
AlwaysClean == TRUE

(* The watcher has completed every generation it accepted. *)
Clean == completedEventSeq = eventSeq /\ ~Dirty

StatusSnapshot ==
  /\ Returned
  /\ status.pc \in {"idle", "reported"}
  /\ MuFree
  /\ status' = [NoStatus EXCEPT !.pc = "snapped", !.clean = Clean,
                                !.absorbed = (unabsorbed \cup lost = {})]
  /\ UNCHANGED <<vars, owner, healthVars, indexOpen, waiter, lost>>

StatusFlags ==
  /\ status.pc = "snapped"
  /\ status' = [status EXCEPT !.pc = "holding", !.current = indexCurrent /\ status.clean]
  /\ UNCHANGED <<vars, owner, healthVars, indexOpen, waiter, lost>>

StatusActive ==
  /\ status.pc = "holding"
  /\ watchReady => MuFree
  /\ status' = [status EXCEPT !.pc = "reported", !.ready = watchReady /\ IsActive]
  /\ UNCHANGED <<vars, owner, healthVars, indexOpen, waiter, lost>>

-----------------------------------------------------------------------------
(* Steps of the watcher that the owner does not notice. *)
WatcherAlone ==
  \/ \E p \in Paths, forceFull \in BOOLEAN : HandleChange(p, forceFull)
  \/ \E p \in Paths : WalkRecord(p)
  \/ \E watchErr \in BOOLEAN : WalkEnd(watchErr)
  \/ NativeError \/ ReportFatal \/ SendFatal \/ StopAfterFatal \/ ReaderExit
  \/ TimerFires \/ FlushStale \/ FlushWhileSyncing \/ FlushBegin \/ FlushRecheck
  \/ SyncSucceeds
  \/ \E outcome \in {"retry", "failed"} : SyncFails(outcome)
  \/ DrainCheck \/ DrainCancelled

FreshNext ==
  \/ WatcherAlone /\ UNCHANGED ownerVars
  \/ OwnerSeesStart \/ OwnerSeesWatcherError
  \/ \E outcome \in Outcome : OwnerSeesResult(outcome)
  \/ OwnerStarts \/ OwnerStartFails \/ SetWatchReady
  \/ \E ok \in BOOLEAN : StartupReconciles(ok)
  \/ OwnerDrains \/ OwnerReady \/ OwnerNotDrained
  \/ WaitCall \/ WaitFails \/ WaitCancelled
  \/ OwnerLosesWatcher \/ CloseStops \/ CloseJoined
  \/ StatusSnapshot \/ StatusFlags \/ StatusActive

(* The steps that wait for o.mu. *)
OwnerLocks ==
  \/ OwnerSeesStart \/ OwnerSeesWatcherError \/ CloseJoined
  \/ \E outcome \in Outcome : OwnerSeesResult(outcome)

FreshSpec == FreshInit /\ [][FreshNext]_freshVars

(* Every goroutine that can run does (the Go scheduler, timers that fire, a
   mutex in starvation mode), callbacks return, a reconciliation that is retried
   for ever succeeds at last, a Close that was begun goes on, and so does Start.
   Nobody has to call Close or Status, or to cancel.  What waits for o.mu gets it
   although Status may be polled for ever: a starving sync.Mutex is handed
   over. *)
FreshFairness ==
  /\ WF_freshVars(TimerFires /\ UNCHANGED ownerVars)
  /\ WF_freshVars(FlushStale /\ UNCHANGED ownerVars)
  /\ WF_freshVars(FlushWhileSyncing /\ UNCHANGED ownerVars)
  /\ WF_freshVars(FlushBegin /\ UNCHANGED ownerVars)
  /\ SF_freshVars(OwnerLocks)
  /\ WF_freshVars(FlushRecheck /\ UNCHANGED ownerVars)
  /\ SF_freshVars(SyncSucceeds /\ UNCHANGED ownerVars)
  /\ WF_freshVars(\E watchErr \in BOOLEAN : WalkEnd(watchErr) /\ UNCHANGED ownerVars)
  /\ WF_freshVars((ReportFatal \/ SendFatal \/ StopAfterFatal) /\ UNCHANGED ownerVars)
  /\ WF_freshVars(ReaderExit /\ UNCHANGED ownerVars)
  /\ WF_freshVars(OwnerLosesWatcher)
  /\ WF_freshVars(DrainCheck /\ UNCHANGED ownerVars)
  /\ WF_freshVars(SetWatchReady \/ OwnerDrains \/ OwnerReady \/ OwnerNotDrained)
  /\ WF_freshVars(\E ok \in BOOLEAN : StartupReconciles(ok))
  /\ WF_freshVars(WaitCall) /\ WF_freshVars(WaitFails)
  /\ WF_freshVars(owner = "failed" /\ CloseStops)
  /\ WF_freshVars(StatusFlags) /\ WF_freshVars(StatusActive)

FreshFairSpec == FreshSpec /\ FreshFairness

-----------------------------------------------------------------------------
(* Properties. *)

(* Status, snapshot of daemon/service.go: an owner reported as watching and
   current had, when its dirty state was read, every accepted event in the
   index.  What happens between the three reads of Status cannot break it. *)
HealthyIsCurrent ==
  status.pc = "reported" /\ status.ready /\ status.current => status.absorbed

(* Close: the index is closed only after the last reconciliation that writes
   to it. *)
IndexOutlivesWriters ==
  flush.phase = "sync" \/ owner = "reconciling" => indexOpen

(* reportFatal: once the watcher has failed it is stopped for good; partial
   coverage is never left active. *)
FailureEndsCoverage == reader = "error" ~> [](~IsActive)

(* Start returns, current or after a complete cleanup: neither the drain nor
   the join of its error paths waits for ever. *)
StartReturns == owner = "covered" ~> owner \in {"running", "closed"}

(* REQ watcher-failures-visible: the index is not reported current while events
   that were accepted have never been reconciled.  (The code breaks this.) *)
CurrentIsTrue ==
  status.pc = "reported" /\ status.current /\ owner = "running" => status.absorbed

(* REQ daemon-status-observability: a native failure makes Wait return, so that
   the daemon exits as failed.  (The code breaks this.) *)
FailureIsReported ==
  reader = "fatal" /\ owner = "running" ~> waiter \in {"failed", "cancelled"} \/ owner # "running"
=============================================================================
