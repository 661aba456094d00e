------------------------------- MODULE Daemon -------------------------------
(***************************************************************************)
(* The background daemon (daemon/manager.go, service.go, state.go,         *)
(* lock.go): commands that start, stop, restart and ask for one daemon per *)
(* user, and the daemon processes they launch.                             *)
(*                                                                         *)
(* They share three files: start.lock serialises the commands that change  *)
(* anything, lifetime.lock belongs to the daemon for as long as it lives,  *)
(* and state.json says which daemon there is (each launch has a nonce) and *)
(* where it listens.  state.json is replaced by a rename: a read and a     *)
(* write are one step each, but nothing ties them together.  A command     *)
(* finds out whether there is a daemon by taking lifetime.lock itself for  *)
(* a moment.                                                               *)
(*                                                                         *)
(* Left out: the project path (one project), "degraded" (a ready daemon    *)
(* whose health module Freshness models), the browser API, the log.        *)
(***************************************************************************)
EXTENDS Naturals

CONSTANTS
  Commands,         \* processes that run a daemon command
  Nobody,           \* the holder of a free lock
  MaxStarts,        \* bound: daemons launched
  MaxCrashes        \* bound: daemons that crash and commands that are killed

ASSUME DaemonBounds ==
  /\ MaxStarts \in Nat /\ MaxCrashes \in Nat
  /\ Nobody \notin Commands \cup 1..MaxStarts /\ Commands \cap 1..MaxStarts = {}

VARIABLES
  disk,       \* state.json
  startLock,  \* holder of start.lock
  lifetime,   \* holder of lifetime.lock: a daemon, or a command that probes it
  launched,   \* number of nonces given out
  at,         \* of each command: where it is
  op,         \* ... what it does: "start", "stop", "restart", or "status"
  saw,        \* ... the state it has read
  held,       \* ... lifetime.lock was held when it probed
  mine,       \* ... the nonce it has launched
  result,     \* ... what it returns: an error, or the lifecycle it reports
  where,      \* of each daemon: where Run is
  memory,     \* ... r.state.Lifecycle, which it writes and reports
  stopReq,    \* ... r.stopCh is closed
  killed,     \* ... it has been sent SIGKILL
  crashes,    \* number of crashes so far
  orphaned    \* history: a command died between a launch and the daemon's lock

commandVars == <<at, op, saw, held, mine, result>>
daemonVars  == <<where, memory, stopReq, killed>>
lockVars    == <<startLock, lifetime>>
vars == <<disk, lockVars, launched, commandVars, daemonVars, crashes, orphaned>>

Daemons == 1..MaxStarts
NoState == [lc |-> "none", nonce |-> 0, endpoint |-> FALSE]
Gone(state) == state.lc \in {"none", "stopped"}

(* Run has checked that the state is its own, and has not released the lock. *)
Owns(n) == where[n] \in {"bind", "starting", "owned", "serving", "ending", "abort",
                         "closing", "unlock"}

(* The control endpoint answers. *)
Serving(n) == where[n] \in {"starting", "owned", "serving", "ending"} /\ ~killed[n]

Init ==
  /\ disk = NoState
  /\ startLock = Nobody /\ lifetime = Nobody /\ launched = 0
  /\ at = [m \in Commands |-> "idle"]
  /\ op = [m \in Commands |-> "status"]
  /\ saw = [m \in Commands |-> NoState]
  /\ held = [m \in Commands |-> FALSE]
  /\ mine = [m \in Commands |-> 0]
  /\ result = [m \in Commands |-> "error"]
  /\ where = [n \in Daemons |-> "new"]
  /\ memory = [n \in Daemons |-> "starting"]
  /\ stopReq = [n \in Daemons |-> FALSE]
  /\ killed = [n \in Daemons |-> FALSE]
  /\ crashes = 0
  /\ orphaned = FALSE

WriteState(lc, n, endpoint) == disk' = [lc |-> lc, nonce |-> n, endpoint |-> endpoint]
Goto(m, label) == at' = [at EXCEPT ![m] = label]
Moves(n, label) == where' = [where EXCEPT ![n] = label]

(* The command is about to return. *)
Reports(m, what) == result' = [result EXCEPT ![m] = what] /\ Goto(m, "return")

-----------------------------------------------------------------------------
(* Every command: the start lock, the state, and the probe. *)

(* Mutant of Call: a stop is not serialised with a start. *)
CallUnlocked(m, what) ==
  /\ at[m] = "idle"
  /\ op' = [op EXCEPT ![m] = what]
  /\ Goto(m, IF what \in {"status", "stop"} THEN "read" ELSE "lock")
  /\ UNCHANGED <<disk, lockVars, launched, saw, held, mine, result, daemonVars, crashes, orphaned>>

(* Status takes no lock. *)
Call(m, what) ==
  /\ at[m] = "idle"
  /\ op' = [op EXCEPT ![m] = what]
  /\ Goto(m, IF what = "status" THEN "read" ELSE "lock")
  /\ UNCHANGED <<disk, lockVars, launched, saw, held, mine, result, daemonVars, crashes, orphaned>>

TakeStartLock(m) ==
  /\ at[m] = "lock" /\ startLock = Nobody
  /\ startLock' = m
  /\ Goto(m, "read")
  /\ UNCHANGED <<disk, lifetime, launched, op, saw, held, mine, result, daemonVars, crashes, orphaned>>

(* Start probes the lifetime lock in any case, the others when the state says
   that there is no daemon. *)
ReadState(m) ==
  /\ at[m] = "read"
  /\ saw' = [saw EXCEPT ![m] = disk]
  /\ Goto(m, IF op[m] = "start" \/ Gone(disk) THEN "probe" ELSE "request")
  /\ UNCHANGED <<disk, lockVars, launched, op, held, mine, result, daemonVars, crashes, orphaned>>

(* daemonLockHeld: the lock is taken, if it is free, ... *)
Probe(m, from, to) ==
  /\ at[m] = from
  /\ held' = [held EXCEPT ![m] = (lifetime # Nobody)]
  /\ lifetime' = IF lifetime = Nobody THEN m ELSE lifetime
  /\ Goto(m, to)
  /\ UNCHANGED <<disk, startLock, launched, op, saw, mine, result, daemonVars, crashes, orphaned>>

(* ... and released: until then nobody else gets it. *)
ProbeReleases(m) ==
  /\ lifetime = m
  /\ lifetime' = Nobody
  /\ UNCHANGED <<disk, startLock, launched, commandVars, daemonVars, crashes, orphaned>>

(* There is no daemon: Stop is done, and Restart goes on with Start. *)
NoDaemon(m) ==
  \/ /\ op[m] = "restart"
     /\ op' = [op EXCEPT ![m] = "start"]
     /\ Goto(m, "read")
     /\ UNCHANGED result
  \/ /\ op[m] # "restart"
     /\ Reports(m, "stopped")
     /\ UNCHANGED op

(* The state and the first probe. *)
Judge(m) ==
  /\ at[m] = "judge" /\ lifetime # m
  /\ \/ /\ Gone(saw[m]) /\ held[m]
        /\ Reports(m, "error")
        /\ UNCHANGED op
     \/ /\ Gone(saw[m]) /\ ~held[m]
        /\ \/ op[m] = "start" /\ Goto(m, "launch") /\ UNCHANGED <<op, result>>
           \/ op[m] # "start" /\ NoDaemon(m)
     \/ /\ ~Gone(saw[m])
        /\ Goto(m, "request")
        /\ UNCHANGED <<op, result>>
  /\ UNCHANGED <<disk, lockVars, launched, saw, held, mine, daemonVars, crashes, orphaned>>

(* The process ends, and lets go of start.lock. *)
Leaves(m) ==
  /\ Goto(m, "idle")
  /\ saw' = [saw EXCEPT ![m] = NoState]
  /\ held' = [held EXCEPT ![m] = FALSE]
  /\ mine' = [mine EXCEPT ![m] = 0]
  /\ op' = [op EXCEPT ![m] = "status"]
  /\ result' = [result EXCEPT ![m] = "error"]
  /\ startLock' = IF startLock = m THEN Nobody ELSE startLock

Returns(m) ==
  /\ at[m] = "return"
  /\ Leaves(m)
  /\ UNCHANGED <<disk, lifetime, launched, daemonVars, crashes, orphaned>>

-----------------------------------------------------------------------------
(* controlRequest: the daemon of the nonce is asked at its endpoint. *)

(* liveStatus is answered, with the lifecycle in the daemon's memory. *)
StatusAnswered(m) ==
  /\ at[m] = "request" /\ op[m] \in {"start", "status"}
  /\ saw[m].endpoint /\ Serving(saw[m].nonce)
  /\ Reports(m, memory[saw[m].nonce])
  /\ UNCHANGED <<disk, lockVars, launched, op, saw, held, mine, daemonVars, crashes, orphaned>>

(* The stop request arrives; its answer may be lost. *)
StopDelivered(m, answered) ==
  /\ at[m] = "request" /\ op[m] \in {"stop", "restart"}
  /\ saw[m].endpoint /\ Serving(saw[m].nonce)
  /\ stopReq' = [stopReq EXCEPT ![saw[m].nonce] = TRUE]
  /\ Goto(m, IF answered THEN "join" ELSE "probeFailed")
  /\ UNCHANGED <<disk, lockVars, launched, op, saw, held, mine, result, where, memory, killed, crashes, orphaned>>

(* No endpoint, no answer, or none in time.  Start has probed already. *)
RequestFails(m) ==
  /\ at[m] = "request"
  /\ \/ /\ op[m] = "start" /\ held[m]
        /\ Reports(m, "error")
     \/ /\ op[m] = "start" /\ ~held[m]
        /\ Goto(m, "launch") /\ UNCHANGED result
     \/ /\ op[m] # "start"
        /\ Goto(m, "probeFailed") /\ UNCHANGED result
  /\ UNCHANGED <<disk, lockVars, launched, op, saw, held, mine, daemonVars, crashes, orphaned>>

(* ... and the others do it now: a free lock proves that there is no daemon. *)
JudgeFailed(m) ==
  /\ at[m] = "judgeFailed" /\ lifetime # m
  /\ \/ held[m] /\ Reports(m, "error")
     \/ ~held[m] /\ op[m] = "status" /\ Reports(m, "failed")
     \/ ~held[m] /\ op[m] # "status" /\ Goto(m, "write") /\ UNCHANGED result
  /\ UNCHANGED <<disk, lockVars, launched, op, saw, held, mine, daemonVars, crashes, orphaned>>

-----------------------------------------------------------------------------
(* Start: launch a daemon and wait until it is ready. *)

LaunchState(m) ==
  /\ at[m] = "launch"
  /\ launched < MaxStarts
  /\ launched' = launched + 1
  /\ mine' = [mine EXCEPT ![m] = launched + 1]
  /\ saw' = [saw EXCEPT ![m] = NoState]
  /\ held' = [held EXCEPT ![m] = FALSE]
  /\ WriteState("starting", launched + 1, FALSE)
  /\ Goto(m, "spawn")
  /\ UNCHANGED <<lockVars, op, result, daemonVars, crashes, orphaned>>

Spawn(m, ok) ==
  /\ at[m] = "spawn"
  /\ IF ok THEN Moves(mine[m], "boot") ELSE UNCHANGED where
  /\ Goto(m, IF ok THEN "waitReady" ELSE "failRead")
  /\ UNCHANGED <<disk, lockVars, launched, op, saw, held, mine, result, memory, stopReq, killed, crashes, orphaned>>

(* waitReady: the state has our nonce, and the daemon says that it is ready. *)
WaitReady(m) ==
  /\ at[m] = "waitReady"
  /\ disk.nonce = mine[m] /\ disk.lc # "failed" /\ disk.endpoint
  /\ Serving(mine[m]) /\ memory[mine[m]] = "ready"
  /\ Reports(m, "ready")
  /\ UNCHANGED <<disk, lockVars, launched, op, saw, held, mine, daemonVars, crashes, orphaned>>

(* Mutant of NotReady: the daemon is left running. *)
NotReadyNotKilled(m) ==
  /\ at[m] = "waitReady"
  /\ Goto(m, "failRead")
  /\ UNCHANGED <<disk, lockVars, launched, op, saw, held, mine, result, daemonVars, crashes, orphaned>>

(* The state says failed, or the time is up: the daemon is killed, ... *)
NotReady(m) ==
  /\ at[m] = "waitReady"
  /\ killed' = [killed EXCEPT ![mine[m]] = (where[mine[m]] # "exited")]
  /\ Goto(m, "failRead")
  /\ UNCHANGED <<disk, lockVars, launched, op, saw, held, mine, result, where, memory, stopReq, crashes, orphaned>>

(* ... the state, if it is still ours, becomes failed (writeStateIfNonce), ... *)
FailRead(m) ==
  /\ at[m] = "failRead"
  /\ Goto(m, IF disk.nonce = mine[m] THEN "failWrite" ELSE "reap")
  /\ UNCHANGED <<disk, lockVars, launched, op, saw, held, mine, result, daemonVars, crashes, orphaned>>

FailWrite(m) ==
  /\ at[m] = "failWrite"
  /\ WriteState("failed", mine[m], FALSE)
  /\ Goto(m, "reap")
  /\ UNCHANGED <<lockVars, launched, op, saw, held, mine, result, daemonVars, crashes, orphaned>>

(* ... and the dead daemon is waited for. *)
Reap(m) ==
  /\ at[m] = "reap"
  /\ where[mine[m]] \in {"new", "exited"}
  /\ Reports(m, "error")
  /\ UNCHANGED <<disk, lockVars, launched, op, saw, held, mine, daemonVars, crashes, orphaned>>

-----------------------------------------------------------------------------
(* Stop. *)

(* There is no daemon behind the state: it is said to be stopped. *)
WriteStopped(m) ==
  /\ at[m] = "write"
  /\ WriteState("stopped", saw[m].nonce, FALSE)
  /\ NoDaemon(m)
  /\ UNCHANGED <<lockVars, launched, saw, held, mine, daemonVars, crashes, orphaned>>

(* waitStopped: the state says so, and then the lock has to be free. *)
WaitStopped(m) ==
  /\ at[m] = "join"
  /\ disk.nonce = saw[m].nonce /\ disk.lc = "stopped"
  /\ Goto(m, "probeJoined")
  /\ UNCHANGED <<disk, lockVars, launched, op, saw, held, mine, result, daemonVars, crashes, orphaned>>

(* Mutant of JudgeJoined: the state is believed. *)
JoinBelieved(m) ==
  /\ at[m] = "judgeJoined" /\ lifetime # m
  /\ NoDaemon(m)
  /\ UNCHANGED <<disk, lockVars, launched, saw, held, mine, daemonVars, crashes, orphaned>>

JudgeJoined(m) ==
  /\ at[m] = "judgeJoined" /\ lifetime # m
  /\ \/ held[m] /\ Goto(m, "join") /\ UNCHANGED <<op, result>>
     \/ ~held[m] /\ NoDaemon(m)
  /\ UNCHANGED <<disk, lockVars, launched, saw, held, mine, daemonVars, crashes, orphaned>>

(* It has failed instead, or the time is up. *)
NotStopped(m) ==
  /\ at[m] = "join"
  /\ Reports(m, "error")
  /\ UNCHANGED <<disk, lockVars, launched, op, saw, held, mine, daemonVars, crashes, orphaned>>

-----------------------------------------------------------------------------
(* Run, the daemon. *)

commandFrame == <<startLock, launched, commandVars, crashes, orphaned>>

(* However the process ends, the operating system releases its lock. *)
Exits(n) ==
  /\ Moves(n, "exited")
  /\ memory' = [memory EXCEPT ![n] = "starting"]
  /\ stopReq' = [stopReq EXCEPT ![n] = FALSE]
  /\ killed' = [killed EXCEPT ![n] = FALSE]
  /\ lifetime' = IF lifetime = n THEN Nobody ELSE lifetime

(* Mutant of RunLocks: the result of the try is ignored. *)
RunUnlocked(n) ==
  /\ where[n] = "boot" /\ ~killed[n]
  /\ lifetime' = IF lifetime = Nobody THEN n ELSE lifetime
  /\ Moves(n, "check")
  /\ UNCHANGED <<disk, memory, stopReq, killed, commandFrame>>

(* It tries the lifetime lock once; whoever has it may only be probing. *)
RunLocks(n) ==
  /\ where[n] = "boot" /\ ~killed[n]
  /\ \/ lifetime = Nobody /\ lifetime' = n /\ Moves(n, "check")
        /\ UNCHANGED <<memory, stopReq, killed>>
     \/ lifetime # Nobody /\ Exits(n)
  /\ UNCHANGED <<disk, commandFrame>>

(* The state must be the one it was launched for. *)
RunChecks(n) ==
  /\ where[n] = "check" /\ ~killed[n]
  /\ \/ /\ disk.nonce = n /\ disk.lc = "starting"
        /\ Moves(n, "bind")
        /\ UNCHANGED <<lifetime, memory, stopReq, killed>>
     \/ /\ ~(disk.nonce = n /\ disk.lc = "starting")
        /\ Exits(n)
  /\ UNCHANGED <<disk, commandFrame>>

(* persistLocked compares the nonce with its own copy: it always writes. *)
Persist(n, lc) == WriteState(lc, n, lc # "stopped") /\ memory' = [memory EXCEPT ![n] = lc]

(* The control endpoint is published, or cannot be had. *)
RunBinds(n) ==
  /\ where[n] = "bind" /\ ~killed[n]
  /\ \/ Persist(n, "starting") /\ Moves(n, "starting")
     \/ /\ WriteState("failed", n, FALSE)
        /\ memory' = [memory EXCEPT ![n] = "failed"]
        /\ Moves(n, "unlock")
  /\ UNCHANGED <<lifetime, stopReq, killed, commandFrame>>

(* freshness.Start returns an owner or, after the server is shut down, an error
   (which a stop request causes, too). *)
RunStarts(n) ==
  /\ where[n] = "starting" /\ ~killed[n]
  /\ Moves(n, "owned") \/ Moves(n, "abort")
  /\ UNCHANGED <<disk, lifetime, memory, stopReq, killed, commandFrame>>

RunAborts(n) ==
  /\ where[n] = "abort" /\ ~killed[n]
  /\ Persist(n, IF stopReq[n] THEN "stopped" ELSE "failed")
  /\ Moves(n, "unlock")
  /\ UNCHANGED <<lifetime, stopReq, killed, commandFrame>>

(* ready(), unless the browser API cannot be served. *)
RunReady(n) ==
  /\ where[n] = "owned" /\ ~killed[n]
  /\ \/ Persist(n, "ready") /\ Moves(n, "serving")
     \/ Moves(n, "ending") /\ UNCHANGED <<disk, memory>>
  /\ UNCHANGED <<lifetime, stopReq, killed, commandFrame>>

(* refreshOwnerState, from the watcher's callbacks. *)
RunRefreshes(n) ==
  /\ where[n] = "serving" /\ ~killed[n]
  /\ Persist(n, "ready")
  /\ UNCHANGED <<lifetime, where, stopReq, killed, commandFrame>>

(* stopCh, or a signal to the process, ends the service ... *)
RunStops(n, signal) ==
  /\ where[n] = "serving" /\ ~killed[n]
  /\ stopReq[n] \/ signal
  /\ Persist(n, "stopping") /\ Moves(n, "ending")
  /\ UNCHANGED <<lifetime, stopReq, killed, commandFrame>>

(* ... or the watcher or a server fails. *)
RunFails(n) ==
  /\ where[n] = "serving" /\ ~killed[n]
  /\ Persist(n, "failed") /\ Moves(n, "ending")
  /\ UNCHANGED <<lifetime, stopReq, killed, commandFrame>>

(* shutdownServer: until here the endpoint has answered. *)
RunShutsDown(n) ==
  /\ where[n] = "ending" /\ ~killed[n]
  /\ Moves(n, "closing")
  /\ UNCHANGED <<disk, lifetime, memory, stopReq, killed, commandFrame>>

(* The owner is closed, with an error or without. *)
RunCloses(n) ==
  /\ where[n] = "closing" /\ ~killed[n]
  /\ \/ memory[n] = "stopping" /\ Persist(n, "stopped")
     \/ Persist(n, "failed")
  /\ Moves(n, "unlock")
  /\ UNCHANGED <<lifetime, stopReq, killed, commandFrame>>

RunUnlocks(n) ==
  /\ where[n] = "unlock" /\ ~killed[n]
  /\ Exits(n)
  /\ UNCHANGED <<disk, commandFrame>>

-----------------------------------------------------------------------------
(* Death. *)

DaemonDies(n) ==
  /\ killed[n] /\ Exits(n)
  /\ UNCHANGED <<disk, commandFrame>>

DaemonCrashes(n) ==
  /\ ~killed[n] /\ where[n] \notin {"new", "exited"}
  /\ Exits(n)
  /\ crashes < MaxCrashes
  /\ crashes' = crashes + 1
  /\ UNCHANGED <<disk, startLock, launched, commandVars, orphaned>>

ClientCrashes(m) ==
  /\ at[m] \notin {"idle", "return"}
  /\ crashes < MaxCrashes
  /\ crashes' = crashes + 1
  /\ Leaves(m)
  /\ lifetime' = IF lifetime = m THEN Nobody ELSE lifetime
  /\ orphaned' = (orphaned \/ (at[m] = "waitReady" /\ where[mine[m]] = "boot"))
  /\ UNCHANGED <<disk, launched, daemonVars>>

-----------------------------------------------------------------------------
CommandNext(m) ==
  \/ \E what \in {"start", "stop", "restart", "status"} : Call(m, what)
  \/ TakeStartLock(m) \/ ReadState(m)
  \/ Probe(m, "probe", "judge") \/ ProbeReleases(m) \/ Judge(m)
  \/ StatusAnswered(m) \/ \E answered \in BOOLEAN : StopDelivered(m, answered)
  \/ RequestFails(m) \/ Probe(m, "probeFailed", "judgeFailed") \/ JudgeFailed(m)
  \/ LaunchState(m) \/ \E ok \in BOOLEAN : Spawn(m, ok)
  \/ WaitReady(m) \/ NotReady(m) \/ FailRead(m) \/ FailWrite(m) \/ Reap(m)
  \/ WriteStopped(m) \/ WaitStopped(m)
  \/ Probe(m, "probeJoined", "judgeJoined") \/ JudgeJoined(m) \/ NotStopped(m)
  \/ Returns(m) \/ ClientCrashes(m)

(* What the daemon does by itself, when it is left alone. *)
RunStep(n) ==
  \/ RunLocks(n) \/ RunChecks(n) \/ RunBinds(n) \/ RunStarts(n) \/ RunAborts(n)
  \/ RunReady(n) \/ RunStops(n, FALSE) \/ RunShutsDown(n) \/ RunCloses(n) \/ RunUnlocks(n)
  \/ DaemonDies(n)

Next ==
  \/ \E m \in Commands : CommandNext(m)
  \/ \E n \in Daemons : RunStep(n) \/ RunRefreshes(n) \/ RunStops(n, TRUE) \/ RunFails(n)
                        \/ DaemonCrashes(n)

Spec == Init /\ [][Next]_vars

-----------------------------------------------------------------------------
(* Properties. *)

(* Types; a daemon that owns the project has the lifetime lock. *)
TypeOK ==
  /\ disk \in [lc : {"none", "starting", "ready", "stopping", "stopped", "failed"},
               nonce : 0..launched, endpoint : BOOLEAN]
  /\ startLock \in Commands \cup {Nobody}
  /\ lifetime \in Commands \cup Daemons \cup {Nobody}
  /\ launched \in 0..MaxStarts
  /\ at \in [Commands -> {"idle", "lock", "read", "probe", "judge", "request", "probeFailed",
                          "judgeFailed", "launch", "spawn", "waitReady", "failRead", "failWrite",
                          "reap", "write", "join", "probeJoined", "judgeJoined", "return"}]
  /\ op \in [Commands -> {"start", "stop", "restart", "status"}]
  /\ \A m \in Commands : saw[m].nonce \in 0..launched /\ mine[m] \in 0..launched
  /\ held \in [Commands -> BOOLEAN]
  /\ result \in [Commands -> {"error", "starting", "ready", "stopping", "stopped", "failed"}]
  /\ memory \in [Daemons -> {"starting", "ready", "stopping", "stopped", "failed"}]
  /\ stopReq \in [Daemons -> BOOLEAN] /\ killed \in [Daemons -> BOOLEAN]
  /\ crashes \in 0..MaxCrashes /\ orphaned \in BOOLEAN
  /\ \A n \in Daemons : Owns(n) => lifetime = n

(* REQ authenticated-loopback-control, persistLocked: one daemon holds the
   lifetime lock, and the state always leads to it, whatever commands run or
   die meanwhile, so that it can be asked and stopped.  The exception is a
   command that dies between the launch and the daemon's lock. *)
OwnerIsReachable ==
  ~orphaned => \A n \in Daemons :
    Owns(n) /\ ~killed[n] => /\ lifetime = n /\ disk.nonce = n
                             /\ Serving(n) => disk.endpoint

(* AC daemon-lifecycle: "stop leaves no live daemon", with the same exception:
   when Stop reports that the daemon is stopped no process is left, and none
   will come up. *)
StopLeavesNoDaemon ==
  ~orphaned => \A m \in Commands :
    at[m] = "return" /\ op[m] = "stop" /\ result[m] = "stopped"
      => \A n \in Daemons : where[n] \in {"new", "exited"} \/ killed[n]

Rank == [none |-> 0, starting |-> 1, ready |-> 2, stopping |-> 3, failed |-> 4, stopped |-> 4]

(* REQ local-daemon-commands: the lifecycle in the state of one daemon moves
   through starting, ready, stopping, and failed or stopped, never back,
   although three processes may write it. *)
LifecycleMovesForward ==
  [][ ~orphaned /\ disk'.nonce = disk.nonce => Rank[disk'.lc] >= Rank[disk.lc] ]_vars

(* REQ daemon-ready-means-current: readiness is published "before ... allowing
   `start` to succeed", so Start never reports a daemon that is still starting.
   (The code breaks this.) *)
StartWaits ==
  \A m \in Commands :
    at[m] = "return" /\ op[m] = "start" => result[m] # "starting"
=============================================================================
