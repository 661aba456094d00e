-------------------------- MODULE DaemonProofs ------------------------------
(***************************************************************************)
(* Proofs about the daemon's lifecycle, for every set of commands and any  *)
(* number of launches and crashes.                                         *)
(*                                                                         *)
(* start.lock lets one command act at a time (Serial), lifetime.lock one   *)
(* daemon (Births).  A command that found lifetime.lock free knows that no *)
(* daemon is left, and as long as it has start.lock none comes up but the  *)
(* one it launches (Deserted); so nobody but the owner writes the state    *)
(* while there is one (StateIsOwned).                                      *)
(***************************************************************************)
EXTENDS Daemon, TLAPS

Lifecycles == {"none", "starting", "ready", "stopping", "stopped", "failed"}
Alone == {"launch", "spawn", "waitReady", "failRead", "failWrite", "reap", "write", "join",
          "probeJoined", "judgeJoined"}
Launching == {"spawn", "waitReady", "failRead", "failWrite", "reap"}
Stations == {"new", "boot", "check", "bind", "starting", "owned", "serving", "ending", "abort",
             "closing", "unlock", "exited"}

Positions == {"idle", "lock", "read", "probe", "judge", "request", "probeFailed", "judgeFailed",
              "launch", "spawn", "waitReady", "failRead", "failWrite", "reap", "write", "join",
              "probeJoined", "judgeJoined", "return"}

(* Types, of everything. *)
States == {state \in [lc : Lifecycles, nonce : 0..launched, endpoint : BOOLEAN] :
              state.endpoint => state.nonce \in Daemons}
Names ==
  /\ at \in [Commands -> Positions] /\ op \in [Commands -> {"start", "stop", "restart", "status"}]
  /\ result \in [Commands -> (Lifecycles \ {"none"}) \cup {"error"}]
Memos == saw \in [Commands -> States] /\ mine \in [Commands -> 0..launched]
Locks ==
  startLock \in Commands \cup {Nobody} /\ lifetime \in Commands \cup Daemons \cup {Nobody}
Flags == held \in [Commands -> BOOLEAN] /\ stopReq \in [Daemons -> BOOLEAN]
Processes == where \in [Daemons -> Stations] /\ memory \in [Daemons -> Lifecycles \ {"none"}]
Shape ==
  /\ Names /\ Memos /\ Locks /\ Flags /\ Processes /\ killed \in [Daemons -> BOOLEAN]
  /\ disk \in States /\ launched \in 0..MaxStarts
  /\ crashes \in 0..MaxCrashes /\ orphaned \in BOOLEAN

(* A daemon that is not there, or will do nothing but die. *)
Dead(n) == where[n] \in {"new", "exited"} \/ (killed[n] /\ where[n] = "boot")
Quiet == \A n \in Daemons : Dead(n)

(* Whatever changes anything has start.lock. *)
Serial ==
  \A m \in Commands :
    /\ at[m] \in Alone => op[m] # "status"
    /\ op[m] # "status" /\ at[m] \notin {"idle", "lock"} => startLock = m

(* A daemon between boot and exit has lifetime.lock; where a launch is. *)
Births ==
  /\ \A n \in Daemons : n > launched => where[n] = "new"
  /\ \A n \in Daemons : where[n] \notin {"new", "boot", "exited"} => lifetime = n
  /\ \A n \in Daemons : killed[n] => where[n] \notin {"new", "exited"}
  /\ \A m \in Commands :
       /\ at[m] \in Launching => mine[m] \in Daemons
       /\ at[m] = "spawn" => where[mine[m]] = "new"
       /\ at[m] = "waitReady" => where[mine[m]] # "new"
       /\ at[m] \in {"failRead", "failWrite", "reap"} =>
            where[mine[m]] \in {"new", "exited"} \/ killed[mine[m]]

(* A command that lifetime.lock has shown that nobody is there. *)
HasFoundNobody(m) ==
  \/ at[m] \in {"judge", "judgeFailed", "judgeJoined"} /\ op[m] # "status" /\ ~held[m]
  \/ at[m] = "request" /\ op[m] = "start" /\ ~held[m]
  \/ at[m] \in {"launch", "write"}
  \/ at[m] = "return" /\ op[m] = "stop" /\ result[m] = "stopped"

(* A free lock has shown that nobody is there, and nobody has come since. *)
Deserted ==
  /\ \A m \in Commands : HasFoundNobody(m) => Quiet
  /\ \A m \in Commands : at[m] \in Launching => \A n \in Daemons : n # mine[m] => Dead(n)
  /\ \A n \in Daemons : where[n] = "boot" /\ ~killed[n] =>
       \E m \in Commands : at[m] = "waitReady" /\ mine[m] = n

(* The state is the one its owner has written last. *)
OwnedBy(n) ==
  Owns(n) /\ ~killed[n] =>
    /\ disk.nonce = n
    /\ Serving(n) => disk.endpoint
    /\ where[n] \in {"bind", "starting", "owned", "abort"} => disk.lc = "starting"
    /\ where[n] = "serving" => disk.lc = "ready"
StateIsOwned == \A n \in Daemons : OwnedBy(n)

DaemonInv == Shape /\ Serial /\ Births /\ (~orphaned => Deserted /\ StateIsOwned)


-----------------------------------------------------------------------------
LEMMA Distinct ==
  /\ MaxStarts \in Nat /\ Daemons \subseteq Nat \ {0}
  /\ \A m \in Commands : m # Nobody /\ m \notin Daemons
  /\ \A n \in Daemons : n # Nobody
  BY DaemonBounds DEF Daemons

LEMMA DaemonInit == Init => DaemonInv
<1> SUFFICES ASSUME Init PROVE DaemonInv
  OBVIOUS
<1> USE DaemonBounds DEF Init, NoState
<1>1. launched = 0 /\ 0 \in 0..MaxStarts /\ 0 \in 0..launched /\ 0 \in 0..MaxCrashes
  OBVIOUS
<1>2. disk \in States /\ saw \in [Commands -> States]
  BY <1>1 DEF States, Lifecycles
<1>3. /\ startLock \in Commands \cup {Nobody} /\ lifetime \in Commands \cup Daemons \cup {Nobody}
      /\ mine \in [Commands -> 0..launched]
      /\ op \in [Commands -> {"start", "stop", "restart", "status"}]
      /\ at \in [Commands -> Positions] /\ where \in [Daemons -> Stations]
      /\ result \in [Commands -> (Lifecycles \ {"none"}) \cup {"error"}]
      /\ memory \in [Daemons -> Lifecycles \ {"none"}]
  BY <1>1 DEF Positions, Stations, Lifecycles
<1>4. Shape
  <2>1. /\ held \in [Commands -> BOOLEAN] /\ stopReq \in [Daemons -> BOOLEAN]
        /\ killed \in [Daemons -> BOOLEAN] /\ orphaned \in BOOLEAN
    OBVIOUS
  <2>2. launched \in 0..MaxStarts /\ crashes \in 0..MaxCrashes
    BY <1>1
  <2>3. QED
    BY ONLY <1>2, <1>3, <2>1, <2>2 DEF Shape, Names, Memos, Locks, Flags, Processes
<1>5. Serial /\ Births
  BY DEF Serial, Births, Alone, Launching
<1>6. Deserted /\ StateIsOwned
  BY DEF Deserted, HasFoundNobody, StateIsOwned, OwnedBy, Owns, Quiet, Dead, Launching
<1>7. QED
  BY <1>4, <1>5, <1>6 DEF DaemonInv

(* While nobody is there, or nobody but the launched one, nobody owns. *)
LEMMA NobodyOwns ==
  ASSUME NEW n \in Daemons, Dead(n) PROVE ~(Owns(n) /\ ~killed[n]) /\ OwnedBy(n)
  BY DEF Dead, Owns, OwnedBy

(* What a command does to the rest, and what it may do. *)
CommandFrame(m) ==
  /\ UNCHANGED <<disk, launched, where, killed>> /\ (orphaned => orphaned')
  /\ \A k \in Commands : k # m =>
       /\ at'[k] = at[k] /\ op'[k] = op[k] /\ held'[k] = held[k] /\ mine'[k] = mine[k]
       /\ result'[k] = result[k] /\ (startLock = k => startLock' = k)
  /\ \A n \in Daemons : lifetime = n => lifetime' = n
CommandConduct(m) ==
  /\ at'[m] \in Alone => op'[m] # "status"
  /\ op'[m] # "status" /\ at'[m] \notin {"idle", "lock"} => startLock' = m
  /\ at'[m] \in Launching =>
       /\ mine'[m] = mine[m]
       /\ at'[m] = at[m] \/ {at[m], at'[m]} \subseteq {"failRead", "failWrite", "reap"}
  /\ at[m] = "waitReady" /\ ~orphaned' =>
       at'[m] = "waitReady" \/ where[mine[m]] # "boot" \/ killed[mine[m]]

(* A step of a command that leaves the daemons and the state alone. *)
LEMMA CommandStep ==
  ASSUME DaemonInv, NEW m \in Commands, Shape', CommandFrame(m), CommandConduct(m),
         ~orphaned' /\ HasFoundNobody(m)' => Quiet
  PROVE  DaemonInv'
<1> USE DEF DaemonInv, CommandFrame, CommandConduct
<1>1. Serial'
  BY DEF Serial
<1>2. Births'
  BY DEF Births, Launching
<1>3. ASSUME ~orphaned' PROVE Deserted' /\ StateIsOwned'
  <2>1. \A n : Dead(n)' = Dead(n)
    BY DEF Dead
  <2>2. Quiet' = Quiet
    BY <2>1 DEF Quiet
  <2>3. \A k \in Commands : HasFoundNobody(k)' => Quiet'
    BY <1>3, <2>2 DEF Deserted, HasFoundNobody
  <2>4. \A k \in Commands : at'[k] \in Launching => \A n \in Daemons : n # mine'[k] => Dead(n)'
    BY <1>3, <2>1 DEF Deserted, Launching
  <2>5. \A n \in Daemons : where'[n] = "boot" /\ ~killed'[n] =>
          \E k \in Commands : at'[k] = "waitReady" /\ mine'[k] = n
    BY <1>3 DEF Deserted, Launching
  <2>6. StateIsOwned'
    BY <1>3 DEF StateIsOwned, OwnedBy, Owns, Serving
  <2>7. QED
    BY <2>3, <2>4, <2>5, <2>6 DEF Deserted
<1>4. QED
  BY <1>1, <1>2, <1>3

(* What a daemon does to the rest, and what it may do. *)
DaemonConduct(n) ==
  /\ \A k \in Daemons : k # n =>
       where'[k] = where[k] /\ killed'[k] = killed[k] /\ (lifetime = k => lifetime' = k)
  /\ where[n] # "new" /\ where'[n] \notin {"new", "boot"}
  /\ Dead(n) => where'[n] = "exited"
  /\ killed[n] => killed'[n] \/ where'[n] = "exited"
  /\ killed'[n] => where'[n] # "exited"
  /\ where'[n] # "exited" => lifetime' = n
  /\ disk' = disk \/ lifetime = n

(* A step of a daemon. *)
LEMMA DaemonStep ==
  ASSUME DaemonInv, NEW n \in Daemons, Shape', DaemonConduct(n),
         UNCHANGED <<startLock, launched, commandVars, orphaned>>, ~orphaned => OwnedBy(n)'
  PROVE  DaemonInv'
<1> USE DEF DaemonInv, DaemonConduct
<1>1. UNCHANGED <<at, op, saw, held, mine, result>>
  BY DEF commandVars
<1>2. Serial'
  BY <1>1 DEF Serial
<1>3. Births'
  <2>1. \A d \in Daemons : d > launched => d # n
    BY DEF Births
  <2>2. \A d \in Daemons : d > launched' => where'[d] = "new"
    BY <2>1 DEF Births
  <2>3. \A d \in Daemons : where'[d] \notin {"new", "boot", "exited"} => lifetime' = d
    BY DEF Births
  <2>4. ASSUME NEW m \in Commands
        PROVE  /\ at'[m] \in Launching => mine'[m] \in Daemons
               /\ at'[m] = "spawn" => where'[mine'[m]] = "new"
               /\ at'[m] = "waitReady" => where'[mine'[m]] # "new"
               /\ at'[m] \in {"failRead", "failWrite", "reap"} =>
                    where'[mine'[m]] \in {"new", "exited"} \/ killed'[mine'[m]]
    <3>1. /\ at[m] \in Launching => mine[m] \in Daemons
          /\ at[m] = "spawn" => where[mine[m]] = "new"
          /\ at[m] = "waitReady" => where[mine[m]] # "new"
          /\ at[m] \in {"failRead", "failWrite", "reap"} =>
               where[mine[m]] \in {"new", "exited"} \/ killed[mine[m]]
      BY DEF Births
    <3>2. where[n] = "exited" => where'[n] = "exited"
      BY DEF Dead
    <3>3. CASE mine[m] = n
      BY <1>1, <3>1, <3>2, <3>3
    <3>4. CASE mine[m] # n
      BY <1>1, <3>1, <3>4 DEF Launching
    <3>5. QED
      BY <3>3, <3>4
  <2>5. \A d \in Daemons : killed'[d] => where'[d] \notin {"new", "exited"}
    BY DEF Births
  <2>6. QED
    BY ONLY <2>2, <2>3, <2>4, <2>5 DEF Births
<1>4. ASSUME ~orphaned PROVE Deserted' /\ StateIsOwned'
  <2>1. \A k \in Daemons : Dead(k) => Dead(k)'
    BY DEF Dead
  <2>2. Quiet => Quiet'
    BY <2>1 DEF Quiet
  <2>3. \A k \in Commands : HasFoundNobody(k)' => Quiet'
    BY <1>1, <1>4, <2>2 DEF Deserted, HasFoundNobody
  <2>4. \A k \in Commands : at'[k] \in Launching => \A d \in Daemons : d # mine'[k] => Dead(d)'
    BY <1>1, <1>4, <2>1 DEF Deserted, Launching
  <2>5. \A d \in Daemons : where'[d] = "boot" /\ ~killed'[d] =>
          \E k \in Commands : at'[k] = "waitReady" /\ mine'[k] = d
    BY <1>1, <1>4 DEF Deserted
  <2>6. \A d \in Daemons : OwnedBy(d)'
    <3> SUFFICES ASSUME NEW d \in Daemons, d # n PROVE OwnedBy(d)'
      BY <1>4
    <3>1. Owns(d) => lifetime = d
      BY DEF Births, Owns
    <3>2. QED
      BY <1>4, <3>1 DEF StateIsOwned, OwnedBy, Owns, Serving
  <2>7. QED
    BY <2>3, <2>4, <2>5, <2>6 DEF Deserted, StateIsOwned
<1>5. QED
  BY <1>2, <1>3, <1>4

-----------------------------------------------------------------------------
(* The commands. *)

LEMMA CallStep ==
  ASSUME DaemonInv, NEW m \in Commands, NEW what \in {"start", "stop", "restart", "status"}, Call(m, what)
  PROVE  DaemonInv'
<1> USE DEF DaemonInv, Names, Memos, Locks, Flags, Processes
<1>1. Shape'
  <2>1. States' = States /\ UNCHANGED <<disk, launched, where, memory, killed, crashes, orphaned>>
    BY DEF States, daemonVars, Call, Goto
  <2>2. Names'
    BY DEF Shape, Positions, Lifecycles, States, commandVars, Call, Goto
  <2>3. Memos'
    BY <2>1 DEF Shape, States, Lifecycles, NoState, commandVars, Call, Goto
  <2>4. Locks'
    BY DEF Shape, lockVars, Call, Goto
  <2>5. Flags'
    BY DEF Shape, commandVars, daemonVars, Call, Goto
  <2>6. QED
    BY ONLY Shape, <2>1, <2>2, <2>3, <2>4, <2>5 DEF Shape
<1>2. CommandFrame(m)
  BY Distinct DEF Shape, CommandFrame, lockVars, commandVars, daemonVars, Call, Goto
<1>3. CommandConduct(m)
  BY Distinct DEF Shape, Serial, Alone, Launching, CommandConduct, lockVars, commandVars, Call, Goto
<1>4. ~orphaned' /\ HasFoundNobody(m)' => Quiet
  BY DEF Shape, Serial, Births, Deserted, HasFoundNobody, commandVars, Call, Goto
<1>5. QED
  BY <1>1, <1>2, <1>3, <1>4, CommandStep

LEMMA TakeStartLockStep == ASSUME DaemonInv, NEW m \in Commands, TakeStartLock(m) PROVE DaemonInv'
<1> USE DEF DaemonInv, Names, Memos, Locks, Flags, Processes
<1>1. Shape'
  <2>1. States' = States /\ UNCHANGED <<disk, launched, where, memory, killed, crashes, orphaned>>
    BY DEF States, daemonVars, TakeStartLock, Goto
  <2>2. Names'
    BY DEF Shape, Positions, Lifecycles, States, commandVars, TakeStartLock, Goto
  <2>3. Memos'
    BY <2>1 DEF Shape, States, Lifecycles, NoState, commandVars, TakeStartLock, Goto
  <2>4. Locks'
    BY DEF Shape, lockVars, TakeStartLock, Goto
  <2>5. Flags'
    BY DEF Shape, commandVars, daemonVars, TakeStartLock, Goto
  <2>6. QED
    BY ONLY Shape, <2>1, <2>2, <2>3, <2>4, <2>5 DEF Shape
<1>2. CommandFrame(m)
  BY Distinct DEF Shape, CommandFrame, lockVars, commandVars, daemonVars, TakeStartLock, Goto
<1>3. CommandConduct(m)
  BY Distinct DEF Shape, Serial, Alone, Launching, CommandConduct, lockVars, commandVars,
    TakeStartLock, Goto
<1>4. ~orphaned' /\ HasFoundNobody(m)' => Quiet
  BY DEF Shape, Serial, Births, Deserted, HasFoundNobody, commandVars, TakeStartLock, Goto
<1>5. QED
  BY <1>1, <1>2, <1>3, <1>4, CommandStep

LEMMA ReadStateStep == ASSUME DaemonInv, NEW m \in Commands, ReadState(m) PROVE DaemonInv'
<1> USE DEF DaemonInv, Names, Memos, Locks, Flags, Processes
<1>1. Shape'
  <2>1. States' = States /\ UNCHANGED <<disk, launched, where, memory, killed, crashes, orphaned>>
    BY DEF States, daemonVars, ReadState, Goto
  <2>2. Names'
    BY DEF Shape, Positions, Lifecycles, States, commandVars, ReadState, Goto
  <2>3. Memos'
    BY <2>1 DEF Shape, States, Lifecycles, NoState, commandVars, ReadState, Goto
  <2>4. Locks'
    BY DEF Shape, lockVars, ReadState, Goto
  <2>5. Flags'
    BY DEF Shape, commandVars, daemonVars, ReadState, Goto
  <2>6. QED
    BY ONLY Shape, <2>1, <2>2, <2>3, <2>4, <2>5 DEF Shape
<1>2. CommandFrame(m)
  BY Distinct DEF Shape, CommandFrame, lockVars, commandVars, daemonVars, ReadState, Goto
<1>3. CommandConduct(m)
  BY Distinct DEF Shape, Serial, Alone, Launching, CommandConduct, lockVars, commandVars,
    ReadState, Goto
<1>4. ~orphaned' /\ HasFoundNobody(m)' => Quiet
  BY DEF Shape, Serial, Births, Deserted, HasFoundNobody, commandVars, ReadState, Goto
<1>5. QED
  BY <1>1, <1>2, <1>3, <1>4, CommandStep

LEMMA ProbeReleasesStep == ASSUME DaemonInv, NEW m \in Commands, ProbeReleases(m) PROVE DaemonInv'
<1> USE DEF DaemonInv, Names, Memos, Locks, Flags, Processes
<1>1. Shape'
  <2>1. States' = States /\ UNCHANGED <<disk, launched, where, memory, killed, crashes, orphaned>>
    BY DEF States, daemonVars, ProbeReleases
  <2>2. Names'
    BY DEF Shape, Positions, Lifecycles, States, commandVars, ProbeReleases
  <2>3. Memos'
    BY <2>1 DEF Shape, States, Lifecycles, NoState, commandVars, ProbeReleases
  <2>4. Locks'
    BY DEF Shape, lockVars, ProbeReleases
  <2>5. Flags'
    BY DEF Shape, commandVars, daemonVars, ProbeReleases
  <2>6. QED
    BY ONLY Shape, <2>1, <2>2, <2>3, <2>4, <2>5 DEF Shape
<1>2. CommandFrame(m)
  BY Distinct DEF Shape, CommandFrame, lockVars, commandVars, daemonVars, ProbeReleases
<1>3. CommandConduct(m)
  BY Distinct DEF Shape, Serial, Alone, Launching, CommandConduct, lockVars, commandVars,
    ProbeReleases
<1>4. ~orphaned' /\ HasFoundNobody(m)' => Quiet
  BY DEF Shape, Serial, Births, Deserted, HasFoundNobody, commandVars, ProbeReleases
<1>5. QED
  BY <1>1, <1>2, <1>3, <1>4, CommandStep

LEMMA JudgeStep == ASSUME DaemonInv, NEW m \in Commands, Judge(m) PROVE DaemonInv'
<1> USE DEF DaemonInv, Names, Memos, Locks, Flags, Processes
<1>1. Shape'
  <2>1. States' = States /\ UNCHANGED <<disk, launched, where, memory, killed, crashes, orphaned>>
    BY DEF States, daemonVars, Judge, NoDaemon, Reports, Goto
  <2>2. Names'
    BY DEF Shape, Positions, Lifecycles, States, commandVars, Judge, NoDaemon, Reports, Goto
  <2>3. Memos'
    BY <2>1 DEF Shape, States, Lifecycles, NoState, commandVars, Judge, NoDaemon, Reports, Goto
  <2>4. Locks'
    BY DEF Shape, lockVars, Judge, NoDaemon, Reports, Goto
  <2>5. Flags'
    BY DEF Shape, commandVars, daemonVars, Judge, NoDaemon, Reports, Goto
  <2>6. QED
    BY ONLY Shape, <2>1, <2>2, <2>3, <2>4, <2>5 DEF Shape
<1>2. CommandFrame(m)
  BY Distinct DEF Shape, CommandFrame, lockVars, commandVars, daemonVars, Judge, NoDaemon,
    Reports, Goto
<1>3. CommandConduct(m)
  BY Distinct DEF Shape, Serial, Alone, Launching, CommandConduct, lockVars, commandVars, Judge,
    NoDaemon, Reports, Goto
<1>4. ~orphaned' /\ HasFoundNobody(m)' => Quiet
  BY DEF Shape, Serial, Births, Deserted, HasFoundNobody, commandVars, Judge, NoDaemon, Reports,
    Goto
<1>5. QED
  BY <1>1, <1>2, <1>3, <1>4, CommandStep

LEMMA StatusAnsweredStep == ASSUME DaemonInv, NEW m \in Commands, StatusAnswered(m) PROVE DaemonInv'
<1> USE DEF DaemonInv, Names, Memos, Locks, Flags, Processes
<1>1. Shape'
  <2>1. States' = States /\ UNCHANGED <<disk, launched, where, memory, killed, crashes, orphaned>>
    BY DEF States, daemonVars, StatusAnswered, Reports, Goto
  <2>2. Names'
    BY DEF Shape, Positions, Lifecycles, States, commandVars, StatusAnswered, Reports, Goto
  <2>3. Memos'
    BY <2>1 DEF Shape, States, Lifecycles, NoState, commandVars, StatusAnswered, Reports, Goto
  <2>4. Locks'
    BY DEF Shape, lockVars, StatusAnswered, Reports, Goto
  <2>5. Flags'
    BY DEF Shape, commandVars, daemonVars, StatusAnswered, Reports, Goto
  <2>6. QED
    BY ONLY Shape, <2>1, <2>2, <2>3, <2>4, <2>5 DEF Shape
<1>2. CommandFrame(m)
  BY Distinct DEF Shape, CommandFrame, lockVars, commandVars, daemonVars, StatusAnswered, Reports,
    Goto
<1>3. CommandConduct(m)
  BY Distinct DEF Shape, Serial, Alone, Launching, CommandConduct, lockVars, commandVars,
    StatusAnswered, Reports, Goto
<1>4. ~orphaned' /\ HasFoundNobody(m)' => Quiet
  BY DEF Shape, Serial, Births, Deserted, HasFoundNobody, commandVars, StatusAnswered, Reports, Goto
<1>5. QED
  BY <1>1, <1>2, <1>3, <1>4, CommandStep

LEMMA StopDeliveredStep ==
  ASSUME DaemonInv, NEW m \in Commands, NEW answered \in BOOLEAN, StopDelivered(m, answered)
  PROVE  DaemonInv'
<1> USE DEF DaemonInv, Names, Memos, Locks, Flags, Processes
<1>1. Shape'
  <2>1. States' = States /\ UNCHANGED <<disk, launched, where, memory, killed, crashes, orphaned>>
    BY DEF States, daemonVars, StopDelivered, Goto
  <2>2. Names'
    BY DEF Shape, Positions, Lifecycles, States, commandVars, StopDelivered, Goto
  <2>3. Memos'
    BY <2>1 DEF Shape, States, Lifecycles, NoState, commandVars, StopDelivered, Goto
  <2>4. Locks'
    BY DEF Shape, lockVars, StopDelivered, Goto
  <2>5. Flags'
    BY DEF Shape, commandVars, daemonVars, StopDelivered, Goto
  <2>6. QED
    BY ONLY Shape, <2>1, <2>2, <2>3, <2>4, <2>5 DEF Shape
<1>2. CommandFrame(m)
  BY Distinct DEF Shape, CommandFrame, lockVars, commandVars, daemonVars, StopDelivered, Goto
<1>3. CommandConduct(m)
  BY Distinct DEF Shape, Serial, Alone, Launching, CommandConduct, lockVars, commandVars,
    StopDelivered, Goto
<1>4. ~orphaned' /\ HasFoundNobody(m)' => Quiet
  BY DEF Shape, Serial, Births, Deserted, HasFoundNobody, commandVars, StopDelivered, Goto
<1>5. QED
  BY <1>1, <1>2, <1>3, <1>4, CommandStep

LEMMA RequestFailsStep == ASSUME DaemonInv, NEW m \in Commands, RequestFails(m) PROVE DaemonInv'
<1> USE DEF DaemonInv, Names, Memos, Locks, Flags, Processes
<1>1. Shape'
  <2>1. States' = States /\ UNCHANGED <<disk, launched, where, memory, killed, crashes, orphaned>>
    BY DEF States, daemonVars, RequestFails, Reports, Goto
  <2>2. Names'
    BY DEF Shape, Positions, Lifecycles, States, commandVars, RequestFails, Reports, Goto
  <2>3. Memos'
    BY <2>1 DEF Shape, States, Lifecycles, NoState, commandVars, RequestFails, Reports, Goto
  <2>4. Locks'
    BY DEF Shape, lockVars, RequestFails, Reports, Goto
  <2>5. Flags'
    BY DEF Shape, commandVars, daemonVars, RequestFails, Reports, Goto
  <2>6. QED
    BY ONLY Shape, <2>1, <2>2, <2>3, <2>4, <2>5 DEF Shape
<1>2. CommandFrame(m)
  BY Distinct DEF Shape, CommandFrame, lockVars, commandVars, daemonVars, RequestFails, Reports,
    Goto
<1>3. CommandConduct(m)
  BY Distinct DEF Shape, Serial, Alone, Launching, CommandConduct, lockVars, commandVars,
    RequestFails, Reports, Goto
<1>4. ~orphaned' /\ HasFoundNobody(m)' => Quiet
  BY DEF Shape, Serial, Births, Deserted, HasFoundNobody, commandVars, RequestFails, Reports, Goto
<1>5. QED
  BY <1>1, <1>2, <1>3, <1>4, CommandStep

LEMMA JudgeFailedStep == ASSUME DaemonInv, NEW m \in Commands, JudgeFailed(m) PROVE DaemonInv'
<1> USE DEF DaemonInv, Names, Memos, Locks, Flags, Processes
<1>1. Shape'
  <2>1. States' = States /\ UNCHANGED <<disk, launched, where, memory, killed, crashes, orphaned>>
    BY DEF States, daemonVars, JudgeFailed, Reports, Goto
  <2>2. Names'
    BY DEF Shape, Positions, Lifecycles, States, commandVars, JudgeFailed, Reports, Goto
  <2>3. Memos'
    BY <2>1 DEF Shape, States, Lifecycles, NoState, commandVars, JudgeFailed, Reports, Goto
  <2>4. Locks'
    BY DEF Shape, lockVars, JudgeFailed, Reports, Goto
  <2>5. Flags'
    BY DEF Shape, commandVars, daemonVars, JudgeFailed, Reports, Goto
  <2>6. QED
    BY ONLY Shape, <2>1, <2>2, <2>3, <2>4, <2>5 DEF Shape
<1>2. CommandFrame(m)
  BY Distinct DEF Shape, CommandFrame, lockVars, commandVars, daemonVars, JudgeFailed, Reports, Goto
<1>3. CommandConduct(m)
  BY Distinct DEF Shape, Serial, Alone, Launching, CommandConduct, lockVars, commandVars,
    JudgeFailed, Reports, Goto
<1>4. ~orphaned' /\ HasFoundNobody(m)' => Quiet
  BY DEF Shape, Serial, Births, Deserted, HasFoundNobody, commandVars, JudgeFailed, Reports, Goto
<1>5. QED
  BY <1>1, <1>2, <1>3, <1>4, CommandStep

LEMMA WaitReadyStep == ASSUME DaemonInv, NEW m \in Commands, WaitReady(m) PROVE DaemonInv'
<1> USE DEF DaemonInv, Names, Memos, Locks, Flags, Processes
<1>1. Shape'
  <2>1. States' = States /\ UNCHANGED <<disk, launched, where, memory, killed, crashes, orphaned>>
    BY DEF States, daemonVars, WaitReady, Serving, Reports, Goto
  <2>2. Names'
    BY DEF Shape, Positions, Lifecycles, States, commandVars, WaitReady, Serving, Reports, Goto
  <2>3. Memos'
    BY <2>1 DEF Shape, States, Lifecycles, NoState, commandVars, WaitReady, Serving, Reports, Goto
  <2>4. Locks'
    BY DEF Shape, lockVars, WaitReady, Serving, Reports, Goto
  <2>5. Flags'
    BY DEF Shape, commandVars, daemonVars, WaitReady, Serving, Reports, Goto
  <2>6. QED
    BY ONLY Shape, <2>1, <2>2, <2>3, <2>4, <2>5 DEF Shape
<1>2. CommandFrame(m)
  BY Distinct DEF Shape, CommandFrame, lockVars, commandVars, daemonVars, WaitReady, Serving,
    Reports, Goto
<1>3. CommandConduct(m)
  BY Distinct DEF Shape, Serial, Alone, Launching, CommandConduct, lockVars, commandVars,
    WaitReady, Serving, Reports, Goto
<1>4. ~orphaned' /\ HasFoundNobody(m)' => Quiet
  BY DEF Shape, Serial, Births, Deserted, HasFoundNobody, commandVars, WaitReady, Serving,
    Reports, Goto
<1>5. QED
  BY <1>1, <1>2, <1>3, <1>4, CommandStep

LEMMA FailReadStep == ASSUME DaemonInv, NEW m \in Commands, FailRead(m) PROVE DaemonInv'
<1> USE DEF DaemonInv, Names, Memos, Locks, Flags, Processes
<1>1. Shape'
  <2>1. States' = States /\ UNCHANGED <<disk, launched, where, memory, killed, crashes, orphaned>>
    BY DEF States, daemonVars, FailRead, Goto
  <2>2. Names'
    BY DEF Shape, Positions, Lifecycles, States, commandVars, FailRead, Goto
  <2>3. Memos'
    BY <2>1 DEF Shape, States, Lifecycles, NoState, commandVars, FailRead, Goto
  <2>4. Locks'
    BY DEF Shape, lockVars, FailRead, Goto
  <2>5. Flags'
    BY DEF Shape, commandVars, daemonVars, FailRead, Goto
  <2>6. QED
    BY ONLY Shape, <2>1, <2>2, <2>3, <2>4, <2>5 DEF Shape
<1>2. CommandFrame(m)
  BY Distinct DEF Shape, CommandFrame, lockVars, commandVars, daemonVars, FailRead, Goto
<1>3. CommandConduct(m)
  BY Distinct DEF Shape, Serial, Alone, Launching, CommandConduct, lockVars, commandVars,
    FailRead, Goto
<1>4. ~orphaned' /\ HasFoundNobody(m)' => Quiet
  BY DEF Shape, Serial, Births, Deserted, HasFoundNobody, commandVars, FailRead, Goto
<1>5. QED
  BY <1>1, <1>2, <1>3, <1>4, CommandStep

LEMMA ReapStep == ASSUME DaemonInv, NEW m \in Commands, Reap(m) PROVE DaemonInv'
<1> USE DEF DaemonInv, Names, Memos, Locks, Flags, Processes
<1>1. Shape'
  <2>1. States' = States /\ UNCHANGED <<disk, launched, where, memory, killed, crashes, orphaned>>
    BY DEF States, daemonVars, Reap, Reports, Goto
  <2>2. Names'
    BY DEF Shape, Positions, Lifecycles, States, commandVars, Reap, Reports, Goto
  <2>3. Memos'
    BY <2>1 DEF Shape, States, Lifecycles, NoState, commandVars, Reap, Reports, Goto
  <2>4. Locks'
    BY DEF Shape, lockVars, Reap, Reports, Goto
  <2>5. Flags'
    BY DEF Shape, commandVars, daemonVars, Reap, Reports, Goto
  <2>6. QED
    BY ONLY Shape, <2>1, <2>2, <2>3, <2>4, <2>5 DEF Shape
<1>2. CommandFrame(m)
  BY Distinct DEF Shape, CommandFrame, lockVars, commandVars, daemonVars, Reap, Reports, Goto
<1>3. CommandConduct(m)
  BY Distinct DEF Shape, Serial, Alone, Launching, CommandConduct, lockVars, commandVars, Reap,
    Reports, Goto
<1>4. ~orphaned' /\ HasFoundNobody(m)' => Quiet
  BY DEF Shape, Serial, Births, Deserted, HasFoundNobody, commandVars, Reap, Reports, Goto
<1>5. QED
  BY <1>1, <1>2, <1>3, <1>4, CommandStep

LEMMA WaitStoppedStep == ASSUME DaemonInv, NEW m \in Commands, WaitStopped(m) PROVE DaemonInv'
<1> USE DEF DaemonInv, Names, Memos, Locks, Flags, Processes
<1>1. Shape'
  <2>1. States' = States /\ UNCHANGED <<disk, launched, where, memory, killed, crashes, orphaned>>
    BY DEF States, daemonVars, WaitStopped, Goto
  <2>2. Names'
    BY DEF Shape, Positions, Lifecycles, States, commandVars, WaitStopped, Goto
  <2>3. Memos'
    BY <2>1 DEF Shape, States, Lifecycles, NoState, commandVars, WaitStopped, Goto
  <2>4. Locks'
    BY DEF Shape, lockVars, WaitStopped, Goto
  <2>5. Flags'
    BY DEF Shape, commandVars, daemonVars, WaitStopped, Goto
  <2>6. QED
    BY ONLY Shape, <2>1, <2>2, <2>3, <2>4, <2>5 DEF Shape
<1>2. CommandFrame(m)
  BY Distinct DEF Shape, CommandFrame, lockVars, commandVars, daemonVars, WaitStopped, Goto
<1>3. CommandConduct(m)
  BY Distinct DEF Shape, Serial, Alone, Launching, CommandConduct, lockVars, commandVars,
    WaitStopped, Goto
<1>4. ~orphaned' /\ HasFoundNobody(m)' => Quiet
  BY DEF Shape, Serial, Births, Deserted, HasFoundNobody, commandVars, WaitStopped, Goto
<1>5. QED
  BY <1>1, <1>2, <1>3, <1>4, CommandStep

LEMMA JudgeJoinedStep == ASSUME DaemonInv, NEW m \in Commands, JudgeJoined(m) PROVE DaemonInv'
<1> USE DEF DaemonInv, Names, Memos, Locks, Flags, Processes
<1>1. Shape'
  <2>1. States' = States /\ UNCHANGED <<disk, launched, where, memory, killed, crashes, orphaned>>
    BY DEF States, daemonVars, JudgeJoined, NoDaemon, Reports, Goto
  <2>2. Names'
    BY DEF Shape, Positions, Lifecycles, States, commandVars, JudgeJoined, NoDaemon, Reports, Goto
  <2>3. Memos'
    BY <2>1 DEF Shape, States, Lifecycles, NoState, commandVars, JudgeJoined, NoDaemon, Reports,
      Goto
  <2>4. Locks'
    BY DEF Shape, lockVars, JudgeJoined, NoDaemon, Reports, Goto
  <2>5. Flags'
    BY DEF Shape, commandVars, daemonVars, JudgeJoined, NoDaemon, Reports, Goto
  <2>6. QED
    BY ONLY Shape, <2>1, <2>2, <2>3, <2>4, <2>5 DEF Shape
<1>2. CommandFrame(m)
  BY Distinct DEF Shape, CommandFrame, lockVars, commandVars, daemonVars, JudgeJoined, NoDaemon,
    Reports, Goto
<1>3. CommandConduct(m)
  BY Distinct DEF Shape, Serial, Alone, Launching, CommandConduct, lockVars, commandVars,
    JudgeJoined, NoDaemon, Reports, Goto
<1>4. ~orphaned' /\ HasFoundNobody(m)' => Quiet
  BY DEF Shape, Serial, Births, Deserted, HasFoundNobody, commandVars, JudgeJoined, NoDaemon,
    Reports, Goto
<1>5. QED
  BY <1>1, <1>2, <1>3, <1>4, CommandStep

LEMMA NotStoppedStep == ASSUME DaemonInv, NEW m \in Commands, NotStopped(m) PROVE DaemonInv'
<1> USE DEF DaemonInv, Names, Memos, Locks, Flags, Processes
<1>1. Shape'
  <2>1. States' = States /\ UNCHANGED <<disk, launched, where, memory, killed, crashes, orphaned>>
    BY DEF States, daemonVars, NotStopped, Reports, Goto
  <2>2. Names'
    BY DEF Shape, Positions, Lifecycles, States, commandVars, NotStopped, Reports, Goto
  <2>3. Memos'
    BY <2>1 DEF Shape, States, Lifecycles, NoState, commandVars, NotStopped, Reports, Goto
  <2>4. Locks'
    BY DEF Shape, lockVars, NotStopped, Reports, Goto
  <2>5. Flags'
    BY DEF Shape, commandVars, daemonVars, NotStopped, Reports, Goto
  <2>6. QED
    BY ONLY Shape, <2>1, <2>2, <2>3, <2>4, <2>5 DEF Shape
<1>2. CommandFrame(m)
  BY Distinct DEF Shape, CommandFrame, lockVars, commandVars, daemonVars, NotStopped, Reports, Goto
<1>3. CommandConduct(m)
  BY Distinct DEF Shape, Serial, Alone, Launching, CommandConduct, lockVars, commandVars,
    NotStopped, Reports, Goto
<1>4. ~orphaned' /\ HasFoundNobody(m)' => Quiet
  BY DEF Shape, Serial, Births, Deserted, HasFoundNobody, commandVars, NotStopped, Reports, Goto
<1>5. QED
  BY <1>1, <1>2, <1>3, <1>4, CommandStep

LEMMA ReturnsStep == ASSUME DaemonInv, NEW m \in Commands, Returns(m) PROVE DaemonInv'
<1> USE DEF DaemonInv, Names, Memos, Locks, Flags, Processes
<1>1. Shape'
  <2>1. States' = States /\ UNCHANGED <<disk, launched, where, memory, killed, crashes, orphaned>>
    BY DEF States, daemonVars, Returns, Leaves, NoState, Goto
  <2>2. Names'
    BY DEF Shape, Positions, Lifecycles, States, commandVars, Returns, Leaves, NoState, Goto
  <2>3. Memos'
    BY <2>1 DEF Shape, States, Lifecycles, NoState, commandVars, Returns, Leaves, NoState, Goto
  <2>4. Locks'
    BY DEF Shape, lockVars, Returns, Leaves, NoState, Goto
  <2>5. Flags'
    BY DEF Shape, commandVars, daemonVars, Returns, Leaves, NoState, Goto
  <2>6. QED
    BY ONLY Shape, <2>1, <2>2, <2>3, <2>4, <2>5 DEF Shape
<1>2. CommandFrame(m)
  BY Distinct DEF Shape, CommandFrame, lockVars, commandVars, daemonVars, Returns, Leaves,
    NoState, Goto
<1>3. CommandConduct(m)
  BY Distinct DEF Shape, Serial, Alone, Launching, CommandConduct, lockVars, commandVars, Returns,
    Leaves, NoState, Goto
<1>4. ~orphaned' /\ HasFoundNobody(m)' => Quiet
  BY DEF Shape, Serial, Births, Deserted, HasFoundNobody, commandVars, Returns, Leaves, NoState,
    Goto
<1>5. QED
  BY <1>1, <1>2, <1>3, <1>4, CommandStep

LEMMA ProbeStep == ASSUME DaemonInv, NEW m \in Commands, NEW from, NEW to, Probe(m, from, to),
         <<from, to>> \in {<<"probe", "judge">>, <<"probeFailed", "judgeFailed">>,
                           <<"probeJoined", "judgeJoined">>} PROVE  DaemonInv'
<1> USE DEF DaemonInv, Names, Memos, Locks, Flags, Processes
<1>1. Shape'
  <2>1. States' = States /\ UNCHANGED <<disk, launched, where, memory, killed, crashes, orphaned>>
    BY DEF States, daemonVars, Probe, Goto
  <2>2. Names'
    BY DEF Shape, Positions, Lifecycles, States, commandVars, Probe, Goto
  <2>3. Memos'
    BY <2>1 DEF Shape, States, Lifecycles, NoState, commandVars, Probe, Goto
  <2>4. Locks'
    BY DEF Shape, lockVars, Probe, Goto
  <2>5. Flags'
    BY DEF Shape, commandVars, daemonVars, Probe, Goto
  <2>6. QED
    BY ONLY Shape, <2>1, <2>2, <2>3, <2>4, <2>5 DEF Shape
<1>2. CommandFrame(m)
  BY Distinct DEF Shape, CommandFrame, lockVars, commandVars, daemonVars, Probe, Goto
<1>3. CommandConduct(m)
  BY Distinct DEF Shape, Serial, Alone, Launching, CommandConduct, lockVars, commandVars, Probe,
    Goto
<1>4. ~orphaned' /\ HasFoundNobody(m)' => Quiet
  <2> SUFFICES ASSUME ~orphaned, op[m] # "status", lifetime = Nobody
               PROVE  Quiet
    BY DEF Shape, HasFoundNobody, Probe, Goto
  <2>1. \A k \in Commands : at[k] # "waitReady"
    BY DEF Serial, Alone, Probe
  <2>2. \A n \in Daemons : where[n] \in {"new", "boot", "exited"}
    BY Distinct DEF Births
  <2>3. QED
    BY <2>1, <2>2 DEF Deserted, Quiet, Dead
<1>5. QED
  BY <1>1, <1>2, <1>3, <1>4, CommandStep

(* The command that launches, or knows that nobody is there, is the only one. *)
LEMMA Lonely ==
  ASSUME DaemonInv, NEW m \in Commands, NEW k \in Commands,
         at[m] \in Launching \/ HasFoundNobody(m), at[k] \in Launching \/ HasFoundNobody(k)
  PROVE  k = m
  BY DEF DaemonInv, Serial, Alone, Launching, HasFoundNobody

LEMMA LaunchStateStep == ASSUME DaemonInv, NEW m \in Commands, LaunchState(m) PROVE DaemonInv'
<1> USE DEF DaemonInv, Names, Memos, Locks, Flags, Processes
<1>1. /\ launched + 1 \in Daemons /\ launched \in Nat /\ launched' = launched + 1
      /\ 0..launched \subseteq 0..launched' /\ launched' \in 0..MaxStarts
      /\ UNCHANGED <<where, memory, killed, stopReq, crashes, orphaned, startLock, lifetime, op, result>>
  BY Distinct DEF Shape, LaunchState, Daemons, lockVars, daemonVars
<1>2. States \subseteq States' /\ disk' \in States' /\ NoState \in States'
  BY <1>1 DEF States, Lifecycles, NoState, LaunchState, WriteState
<1>3. Shape'
  <2>1. at' \in [Commands -> Positions] /\ saw' \in [Commands -> States']
    BY <1>2 DEF Shape, LaunchState, Goto, Positions
  <2>2. mine' \in [Commands -> 0..launched']
    BY <1>1 DEF Shape, LaunchState
  <2>3. held' \in [Commands -> BOOLEAN]
    BY DEF Shape, LaunchState
  <2>4. QED
    BY ONLY Shape, <1>1, <1>2, <2>1, <2>2, <2>3 DEF Shape
<1>4. Serial'
  BY <1>1 DEF Shape, Serial, Alone, LaunchState, Goto
<1>5. \A k \in Commands : k # m => at'[k] = at[k] /\ held'[k] = held[k] /\ mine'[k] = mine[k]
  BY DEF Shape, LaunchState, Goto
<1>6. at[m] = "launch" /\ at'[m] = "spawn" /\ mine'[m] = launched + 1
  BY DEF Shape, LaunchState, Goto
<1>7. HasFoundNobody(m) /\ ~HasFoundNobody(m)'
  BY <1>6 DEF HasFoundNobody
<1>8. Births'
  <2>1. /\ \A n \in Daemons : n > launched' => where'[n] = "new"
        /\ where[launched + 1] = "new"
    BY <1>1 DEF Births, Daemons
  <2>2. /\ \A n \in Daemons : where'[n] \notin {"new", "boot", "exited"} => lifetime' = n
        /\ \A n \in Daemons : killed'[n] => where'[n] \notin {"new", "exited"}
    BY <1>1 DEF Births
  <2>3. ASSUME NEW k \in Commands
        PROVE  /\ at'[k] \in Launching => mine'[k] \in Daemons
               /\ at'[k] = "spawn" => where'[mine'[k]] = "new"
               /\ at'[k] = "waitReady" => where'[mine'[k]] # "new"
               /\ at'[k] \in {"failRead", "failWrite", "reap"} =>
                    where'[mine'[k]] \in {"new", "exited"} \/ killed'[mine'[k]]
    <3>1. CASE k = m
      BY <1>1, <1>6, <2>1, <3>1
    <3>2. CASE k # m
      BY <1>1, <1>5, <3>2 DEF Births, Launching
    <3>3. QED
      BY <3>1, <3>2
  <2>4. QED
    BY ONLY <2>1, <2>2, <2>3 DEF Births
<1>9. ASSUME ~orphaned PROVE Deserted' /\ StateIsOwned'
  <2>1. Quiet /\ Quiet'
    BY <1>1, <1>7, <1>9 DEF Deserted, Quiet, Dead
  <2>2. \A n \in Daemons : Dead(n)'
    BY <2>1 DEF Quiet
  <2>3. \A n \in Daemons : OwnedBy(n)'
    BY <2>2 DEF Dead, Owns, OwnedBy
  <2>4. \A n \in Daemons : ~(where'[n] = "boot" /\ ~killed'[n])
    BY <2>2 DEF Dead
  <2>5. QED
    BY <2>1, <2>2, <2>3, <2>4 DEF Deserted, StateIsOwned
<1>10. QED
  BY <1>1, <1>3, <1>4, <1>8, <1>9

LEMMA SpawnStep ==
  ASSUME DaemonInv, NEW m \in Commands, NEW ok \in BOOLEAN, Spawn(m, ok) PROVE DaemonInv'
<1> USE DEF DaemonInv, Names, Memos, Locks, Flags, Processes
<1>1. /\ UNCHANGED <<disk, startLock, lifetime, launched, op, saw, held, mine, result>>
      /\ UNCHANGED <<memory, stopReq, killed, crashes, orphaned>> /\ States' = States
  BY DEF Spawn, lockVars, States
<1>2. /\ at[m] = "spawn" /\ at'[m] \in {"waitReady", "failRead"}
      /\ \A k \in Commands : k # m => at'[k] = at[k]
      /\ at' \in [Commands -> Positions]
  BY DEF Shape, Spawn, Goto, Positions
<1>3. mine[m] \in Daemons /\ where[mine[m]] = "new" /\ mine[m] <= launched /\ ~killed[mine[m]]
  BY <1>2, Distinct DEF Shape, Births, Launching
<1>4. /\ \A n \in Daemons : n # mine[m] => where'[n] = where[n]
      /\ at'[m] = "waitReady" => where'[mine[m]] = "boot"
      /\ at'[m] = "failRead" => where'[mine[m]] = "new"
      /\ where' \in [Daemons -> Stations]
  BY <1>2, <1>3 DEF Shape, Spawn, Goto, Moves, Stations
<1>5. Shape'
  BY ONLY Shape, <1>1, <1>2, <1>4 DEF Shape
<1>6. Serial'
  BY <1>1, <1>2 DEF Serial, Alone
<1>7. \A k \in Commands : k # m => at[k] \notin Launching /\ ~HasFoundNobody(k)
  BY <1>2, Lonely DEF Launching
<1>8. Births'
  <2>1. \A n \in Daemons : n > launched' => where'[n] = "new"
    BY <1>1, <1>3, <1>4 DEF Births, Daemons, Shape
  <2>2. /\ \A n \in Daemons : where'[n] \notin {"new", "boot", "exited"} => lifetime' = n
        /\ \A n \in Daemons : killed'[n] => where'[n] \notin {"new", "exited"}
    BY <1>1, <1>2, <1>3, <1>4 DEF Births
  <2>3. ASSUME NEW k \in Commands
        PROVE  /\ at'[k] \in Launching => mine'[k] \in Daemons
               /\ at'[k] = "spawn" => where'[mine'[k]] = "new"
               /\ at'[k] = "waitReady" => where'[mine'[k]] # "new"
               /\ at'[k] \in {"failRead", "failWrite", "reap"} =>
                    where'[mine'[k]] \in {"new", "exited"} \/ killed'[mine'[k]]
    BY <1>1, <1>2, <1>3, <1>4, <1>7 DEF Launching
  <2>4. QED
    BY ONLY <2>1, <2>2, <2>3 DEF Births
<1>9. ASSUME ~orphaned PROVE Deserted' /\ StateIsOwned'
  <2>1. \A n \in Daemons : n # mine[m] => Dead(n)'
    BY <1>1, <1>2, <1>4, <1>9 DEF Deserted, Dead, Launching
  <2>2. \A k \in Commands : ~HasFoundNobody(k)'
    BY <1>1, <1>2, <1>7 DEF HasFoundNobody
  <2>3. \A n \in Daemons : OwnedBy(n)'
    BY <1>2, <1>4, <2>1 DEF Dead, Owns, OwnedBy
  <2>4. \A k \in Commands : at'[k] \in Launching => \A n \in Daemons : n # mine'[k] => Dead(n)'
    BY <1>1, <1>2, <1>7, <2>1
  <2>5. \A n \in Daemons : where'[n] = "boot" /\ ~killed'[n] =>
          \E k \in Commands : at'[k] = "waitReady" /\ mine'[k] = n
    BY <1>1, <1>2, <1>4, <2>1 DEF Dead
  <2>6. QED
    BY <2>2, <2>3, <2>4, <2>5 DEF Deserted, StateIsOwned
<1>10. QED
  BY <1>1, <1>5, <1>6, <1>8, <1>9

LEMMA NotReadyStep == ASSUME DaemonInv, NEW m \in Commands, NotReady(m) PROVE DaemonInv'
<1> USE DEF DaemonInv, Names, Memos, Locks, Flags, Processes
<1>1. /\ UNCHANGED <<disk, startLock, lifetime, launched, op, saw, held, mine, result>>
      /\ UNCHANGED <<where, memory, stopReq, crashes, orphaned>> /\ States' = States
  BY DEF NotReady, lockVars, States
<1>2. /\ at[m] = "waitReady" /\ at'[m] = "failRead"
      /\ \A k \in Commands : k # m => at'[k] = at[k]
      /\ at' \in [Commands -> Positions]
  BY DEF Shape, NotReady, Goto, Positions
<1>3. mine[m] \in Daemons /\ where[mine[m]] # "new"
  BY <1>2 DEF Births, Launching
<1>4. /\ \A n \in Daemons : n # mine[m] => killed'[n] = killed[n]
      /\ killed'[mine[m]] = (where[mine[m]] # "exited")
      /\ killed' \in [Daemons -> BOOLEAN]
  BY <1>2, <1>3 DEF Shape, NotReady
<1>5. Shape'
  BY ONLY Shape, <1>1, <1>2, <1>4 DEF Shape
<1>6. Serial'
  BY <1>1, <1>2 DEF Serial, Alone
<1>7. \A k \in Commands : k # m => at[k] \notin Launching /\ ~HasFoundNobody(k)
  BY <1>2, Lonely DEF Launching
<1>8. Births'
  BY <1>1, <1>2, <1>3, <1>4, <1>7 DEF Births, Launching
<1>9. ASSUME ~orphaned PROVE Deserted' /\ StateIsOwned'
  <2>1. \A n \in Daemons : n # mine[m] => Dead(n)'
    BY <1>1, <1>2, <1>4, <1>9 DEF Deserted, Dead, Launching
  <2>2. \A k \in Commands : ~HasFoundNobody(k)'
    BY <1>1, <1>2, <1>7 DEF HasFoundNobody
  <2>3. \A n \in Daemons : OwnedBy(n)'
    BY <1>1, <1>4, <2>1 DEF Dead, Owns, OwnedBy
  <2>4. \A k \in Commands : at'[k] \in Launching => \A n \in Daemons : n # mine'[k] => Dead(n)'
    BY <1>1, <1>2, <1>7, <2>1
  <2>5. \A n \in Daemons : ~(where'[n] = "boot" /\ ~killed'[n])
    BY <1>1, <1>4, <2>1 DEF Dead
  <2>6. QED
    BY <2>2, <2>3, <2>4, <2>5 DEF Deserted, StateIsOwned
<1>10. QED
  BY <1>1, <1>5, <1>6, <1>8, <1>9

(* A command writes the state: nobody owns it. *)
LEMMA WriterStep ==
  ASSUME DaemonInv, NEW m \in Commands, at[m] \in {"failWrite", "write"}, Shape',
         UNCHANGED <<lockVars, launched, saw, held, mine, daemonVars, orphaned>>,
         \A k \in Commands : k # m => at'[k] = at[k] /\ op'[k] = op[k] /\ result'[k] = result[k],
         op[m] # "status", op'[m] # "status",
         \/ at[m] = "failWrite" /\ at'[m] = "reap"
         \/ at[m] = "write" /\ at'[m] \in {"read", "return"}
  PROVE  DaemonInv' /\ (~orphaned => \A n \in Daemons : ~(Owns(n) /\ ~killed[n]))
<1> USE DEF DaemonInv, Names, Memos, Locks, Flags, Processes
<1>1. UNCHANGED <<startLock, lifetime, where, memory, stopReq, killed>>
  BY DEF lockVars, daemonVars
<1>2. Serial'
  BY <1>1 DEF Serial, Alone
<1>3. Births'
  BY <1>1 DEF Births, Launching
<1>4. ASSUME ~orphaned
      PROVE  /\ Deserted' /\ StateIsOwned'
             /\ \A n \in Daemons : ~(Owns(n) /\ ~killed[n])
  <2>1. /\ \A n \in Daemons : at[m] = "failWrite" /\ n # mine[m] => Dead(n)
        /\ at[m] = "write" => Quiet
    BY <1>4 DEF Deserted, Launching, HasFoundNobody
  <2>2. \A n \in Daemons : ~(Owns(n) /\ ~killed[n])
    BY <2>1 DEF Owns, Dead, Quiet, Births
  <2>3. StateIsOwned'
    BY <1>1, <2>2 DEF StateIsOwned, OwnedBy, Owns
  <2>4. Deserted'
    <3>1. \A n : Dead(n)' = Dead(n)
      BY <1>1 DEF Dead
    <3>2. Quiet' = Quiet
      BY <3>1 DEF Quiet
    <3>3. \A k \in Commands : HasFoundNobody(k)' => Quiet'
      BY <1>4, <2>1, <3>2 DEF Deserted, HasFoundNobody
    <3>4. \A k \in Commands : at'[k] \in Launching => \A n \in Daemons : n # mine'[k] => Dead(n)'
      BY <1>4, <3>1 DEF Deserted, Launching
    <3>5. \A n \in Daemons : where'[n] = "boot" /\ ~killed'[n] =>
            \E k \in Commands : at'[k] = "waitReady" /\ mine'[k] = n
      BY <1>1, <1>4 DEF Deserted
    <3>6. QED
      BY <3>3, <3>4, <3>5 DEF Deserted
  <2>5. QED
    BY <2>2, <2>3, <2>4
<1>5. QED
  BY <1>2, <1>3, <1>4

LEMMA FailWriteStep ==
  ASSUME DaemonInv, NEW m \in Commands, FailWrite(m)
  PROVE  DaemonInv' /\ disk'.lc = "failed"
<1> USE DEF DaemonInv, Names, Memos, Locks, Flags, Processes
<1>1. Shape'
  <2>1. States' = States /\ UNCHANGED <<startLock, lifetime, launched, where, memory, stopReq, killed>>
    BY DEF States, FailWrite, lockVars, daemonVars
  <2>2. at' \in [Commands -> Positions] /\ disk' \in States
    BY DEF Shape, FailWrite, Goto, WriteState, Positions, States, Lifecycles
  <2>3. UNCHANGED <<op, saw, held, mine, result, crashes, orphaned>>
    BY DEF FailWrite
  <2>4. QED
    BY ONLY Shape, <2>1, <2>2, <2>3 DEF Shape
<1>2. /\ \A k \in Commands : k # m => at'[k] = at[k] /\ op'[k] = op[k] /\ result'[k] = result[k]
      /\ op[m] # "status" /\ op'[m] # "status"
      /\ at[m] = "failWrite" /\ at'[m] = "reap"
      /\ UNCHANGED <<lockVars, launched, saw, held, mine, daemonVars, orphaned>>
  BY DEF Shape, FailWrite, Goto, Serial, Alone
<1>3. DaemonInv'
  BY <1>1, <1>2, WriterStep
<1>4. QED
  BY <1>3 DEF FailWrite, WriteState

LEMMA WriteStoppedStep ==
  ASSUME DaemonInv, NEW m \in Commands, WriteStopped(m)
  PROVE  DaemonInv' /\ disk'.lc = "stopped"
<1> USE DEF DaemonInv, Names, Memos, Locks, Flags, Processes
<1>1. Shape'
  <2>1. States' = States /\ UNCHANGED <<startLock, lifetime, launched, where, memory, stopReq, killed>>
    BY DEF States, WriteStopped, lockVars, daemonVars
  <2>2. Names'
    BY DEF Shape, WriteStopped, NoDaemon, Reports, Goto, Positions, Lifecycles
  <2>3. disk' \in States
    BY DEF Shape, WriteStopped, WriteState, States, Lifecycles
  <2>4. UNCHANGED <<saw, held, mine, crashes, orphaned>>
    BY DEF WriteStopped
  <2>5. QED
    BY ONLY Shape, <2>1, <2>2, <2>3, <2>4 DEF Shape
<1>2. /\ \A k \in Commands : k # m => at'[k] = at[k] /\ op'[k] = op[k] /\ result'[k] = result[k]
      /\ op[m] # "status" /\ op'[m] # "status"
      /\ at[m] = "write" /\ at'[m] \in {"read", "return"}
      /\ UNCHANGED <<lockVars, launched, saw, held, mine, daemonVars, orphaned>>
  BY DEF Shape, WriteStopped, NoDaemon, Reports, Goto, Serial, Alone
<1>3. DaemonInv'
  BY <1>1, <1>2, WriterStep
<1>4. QED
  BY <1>3 DEF WriteStopped, WriteState

LEMMA ClientCrashesStep == ASSUME DaemonInv, NEW m \in Commands, ClientCrashes(m) PROVE DaemonInv'
<1> USE DEF DaemonInv, Names, Memos, Locks, Flags, Processes
<1>1. Shape'
  <2>1. States' = States /\ UNCHANGED <<disk, launched, where, memory, killed>>
    BY DEF States, daemonVars, ClientCrashes, Leaves, NoState, Goto
  <2>2. Names'
    BY DEF Shape, Positions, Lifecycles, States, commandVars, ClientCrashes, Leaves, NoState, Goto
  <2>3. Memos'
    BY <2>1 DEF Shape, States, Lifecycles, NoState, commandVars, ClientCrashes, Leaves, NoState,
      Goto
  <2>4. Locks'
    BY DEF Shape, lockVars, ClientCrashes, Leaves, NoState, Goto
  <2>5. Flags'
    BY DEF Shape, commandVars, daemonVars, ClientCrashes, Leaves, NoState, Goto
  <2>6. crashes' \in 0..MaxCrashes /\ orphaned' \in BOOLEAN
    <3>1. crashes' \in 0..MaxCrashes
      BY DaemonBounds DEF Shape, ClientCrashes
    <3>2. QED
      BY <3>1 DEF ClientCrashes
  <2>7. QED
    BY ONLY Shape, <2>1, <2>2, <2>3, <2>4, <2>5, <2>6 DEF Shape
<1>2. CommandFrame(m)
  BY Distinct DEF Shape, CommandFrame, lockVars, commandVars, daemonVars, ClientCrashes, Leaves,
    NoState, Goto
<1>3. CommandConduct(m)
  BY Distinct DEF Shape, Serial, Alone, Launching, CommandConduct, lockVars, commandVars,
    ClientCrashes, Leaves, NoState, Goto
<1>4. ~orphaned' /\ HasFoundNobody(m)' => Quiet
  BY DEF Shape, Serial, Births, Deserted, HasFoundNobody, commandVars, ClientCrashes, Leaves,
    NoState, Goto
<1>5. QED
  BY <1>1, <1>2, <1>3, <1>4, CommandStep

-----------------------------------------------------------------------------
(* The daemons. *)
LEMMA Writes ==
  ASSUME DaemonInv, NEW n \in Daemons, where[n] # "new",
         NEW lc \in Lifecycles, NEW endpoint \in BOOLEAN
  PROVE  [lc |-> lc, nonce |-> n, endpoint |-> endpoint] \in States
  BY Distinct DEF DaemonInv, Shape, Births, States

LEMMA RunLocksStep == ASSUME DaemonInv, NEW n \in Daemons, RunLocks(n) PROVE DaemonInv'
<1> USE DEF DaemonInv, Names, Memos, Locks, Flags, Processes
<1>1. UNCHANGED <<startLock, launched, at, op, saw, held, mine, result, orphaned>>
  BY DEF commandVars, commandFrame, RunLocks, Exits, Moves
<1>2. Shape'
  <2>1. States' = States /\ disk' \in States
    BY <1>1, Writes DEF States, Shape, Lifecycles, RunLocks, Exits, Moves
  <2>2. Processes'
    BY DEF Shape, Stations, Lifecycles, RunLocks, Exits, Moves
  <2>3. stopReq' \in [Daemons -> BOOLEAN] /\ killed' \in [Daemons -> BOOLEAN]
    BY DEF Shape, RunLocks, Exits, Moves
  <2>4. lifetime' \in Commands \cup Daemons \cup {Nobody} /\ crashes' \in 0..MaxCrashes
    BY Distinct, DaemonBounds DEF Shape, commandFrame, RunLocks, Exits, Moves
  <2>5. QED
    BY ONLY Shape, <1>1, <2>1, <2>2, <2>3, <2>4 DEF Shape
<1>3. DaemonConduct(n)
  BY Distinct DEF DaemonConduct, Shape, Births, Dead, Stations, RunLocks, Exits, Moves
<1>4. ~orphaned => OwnedBy(n)'
  BY DEF Shape, StateIsOwned, OwnedBy, Owns, Serving, RunLocks, Exits, Moves
<1>5. QED
  BY <1>1, <1>2, <1>3, <1>4, DaemonStep DEF commandVars

LEMMA RunChecksStep == ASSUME DaemonInv, NEW n \in Daemons, RunChecks(n) PROVE DaemonInv'
<1> USE DEF DaemonInv, Names, Memos, Locks, Flags, Processes
<1>1. UNCHANGED <<startLock, launched, at, op, saw, held, mine, result, orphaned>>
  BY DEF commandVars, commandFrame, RunChecks, Exits, Moves
<1>2. Shape'
  <2>1. States' = States /\ disk' \in States
    BY <1>1, Writes DEF States, Shape, Lifecycles, RunChecks, Exits, Moves
  <2>2. Processes'
    BY DEF Shape, Stations, Lifecycles, RunChecks, Exits, Moves
  <2>3. stopReq' \in [Daemons -> BOOLEAN] /\ killed' \in [Daemons -> BOOLEAN]
    BY DEF Shape, RunChecks, Exits, Moves
  <2>4. lifetime' \in Commands \cup Daemons \cup {Nobody} /\ crashes' \in 0..MaxCrashes
    BY Distinct, DaemonBounds DEF Shape, commandFrame, RunChecks, Exits, Moves
  <2>5. QED
    BY ONLY Shape, <1>1, <2>1, <2>2, <2>3, <2>4 DEF Shape
<1>3. DaemonConduct(n)
  BY Distinct DEF DaemonConduct, Shape, Births, Dead, Stations, RunChecks, Exits, Moves
<1>4. ~orphaned => OwnedBy(n)'
  BY DEF Shape, StateIsOwned, OwnedBy, Owns, Serving, RunChecks, Exits, Moves
<1>5. QED
  BY <1>1, <1>2, <1>3, <1>4, DaemonStep DEF commandVars

LEMMA RunBindsStep == ASSUME DaemonInv, NEW n \in Daemons, RunBinds(n) PROVE DaemonInv'
<1> USE DEF DaemonInv, Names, Memos, Locks, Flags, Processes
<1>1. UNCHANGED <<startLock, launched, at, op, saw, held, mine, result, orphaned>>
  BY DEF commandVars, commandFrame, RunBinds, Persist, WriteState, Moves
<1>2. Shape'
  <2>1. States' = States /\ disk' \in States
    <3>1. /\ [lc |-> "starting", nonce |-> n, endpoint |-> TRUE] \in States
          /\ [lc |-> "failed", nonce |-> n, endpoint |-> FALSE] \in States
      BY Writes DEF Shape, Lifecycles, RunBinds
    <3>2. \/ disk' = [lc |-> "starting", nonce |-> n, endpoint |-> TRUE]
          \/ disk' = [lc |-> "failed", nonce |-> n, endpoint |-> FALSE]
      BY DEF RunBinds, Persist, WriteState
    <3>3. QED
      BY <1>1, <3>1, <3>2 DEF States
  <2>2. Processes'
    BY DEF Shape, Stations, Lifecycles, RunBinds, Persist, WriteState, Moves
  <2>3. stopReq' \in [Daemons -> BOOLEAN] /\ killed' \in [Daemons -> BOOLEAN]
    BY DEF Shape, RunBinds, Persist, WriteState, Moves
  <2>4. lifetime' \in Commands \cup Daemons \cup {Nobody} /\ crashes' \in 0..MaxCrashes
    BY Distinct, DaemonBounds DEF Shape, commandFrame, RunBinds, Persist, WriteState, Moves
  <2>5. QED
    BY ONLY Shape, <1>1, <2>1, <2>2, <2>3, <2>4 DEF Shape
<1>3. DaemonConduct(n)
  BY Distinct DEF DaemonConduct, Shape, Births, Dead, Stations, RunBinds, Persist, WriteState, Moves
<1>4. ~orphaned => OwnedBy(n)'
  <2>1. CASE Persist(n, "starting") /\ Moves(n, "starting")
    BY <2>1 DEF Shape, OwnedBy, Persist, WriteState, Moves
  <2>2. CASE WriteState("failed", n, FALSE) /\ Moves(n, "unlock")
    BY <2>2 DEF Shape, OwnedBy, Serving, WriteState, Moves
  <2>3. QED
    BY <2>1, <2>2 DEF RunBinds
<1>5. QED
  BY <1>1, <1>2, <1>3, <1>4, DaemonStep DEF commandVars

LEMMA RunStartsStep == ASSUME DaemonInv, NEW n \in Daemons, RunStarts(n) PROVE DaemonInv'
<1> USE DEF DaemonInv, Names, Memos, Locks, Flags, Processes
<1>1. UNCHANGED <<startLock, launched, at, op, saw, held, mine, result, orphaned>>
  BY DEF commandVars, commandFrame, RunStarts, Moves
<1>2. Shape'
  <2>1. States' = States /\ disk' \in States
    BY <1>1, Writes DEF States, Shape, Lifecycles, RunStarts, Moves
  <2>2. Processes'
    BY DEF Shape, Stations, Lifecycles, RunStarts, Moves
  <2>3. stopReq' \in [Daemons -> BOOLEAN] /\ killed' \in [Daemons -> BOOLEAN]
    BY DEF Shape, RunStarts, Moves
  <2>4. lifetime' \in Commands \cup Daemons \cup {Nobody} /\ crashes' \in 0..MaxCrashes
    BY Distinct, DaemonBounds DEF Shape, commandFrame, RunStarts, Moves
  <2>5. QED
    BY ONLY Shape, <1>1, <2>1, <2>2, <2>3, <2>4 DEF Shape
<1>3. DaemonConduct(n)
  BY Distinct DEF DaemonConduct, Shape, Births, Dead, Stations, RunStarts, Moves
<1>4. ~orphaned => OwnedBy(n)'
  BY DEF Shape, StateIsOwned, OwnedBy, Owns, Serving, RunStarts, Moves
<1>5. QED
  BY <1>1, <1>2, <1>3, <1>4, DaemonStep DEF commandVars

LEMMA RunAbortsStep == ASSUME DaemonInv, NEW n \in Daemons, RunAborts(n) PROVE DaemonInv'
<1> USE DEF DaemonInv, Names, Memos, Locks, Flags, Processes
<1>1. UNCHANGED <<startLock, launched, at, op, saw, held, mine, result, orphaned>>
  BY DEF commandVars, commandFrame, RunAborts, Persist, WriteState, Moves
<1>2. Shape'
  <2>1. States' = States /\ disk' \in States
    BY <1>1, Writes DEF States, Shape, Lifecycles, RunAborts, Persist, WriteState, Moves
  <2>2. Processes'
    BY DEF Shape, Stations, Lifecycles, RunAborts, Persist, WriteState, Moves
  <2>3. stopReq' \in [Daemons -> BOOLEAN] /\ killed' \in [Daemons -> BOOLEAN]
    BY DEF Shape, RunAborts, Persist, WriteState, Moves
  <2>4. lifetime' \in Commands \cup Daemons \cup {Nobody} /\ crashes' \in 0..MaxCrashes
    BY Distinct, DaemonBounds DEF Shape, commandFrame, RunAborts, Persist, WriteState, Moves
  <2>5. QED
    BY ONLY Shape, <1>1, <2>1, <2>2, <2>3, <2>4 DEF Shape
<1>3. DaemonConduct(n)
  BY Distinct DEF DaemonConduct, Shape, Births, Dead, Stations, RunAborts, Persist, WriteState,
    Moves
<1>4. ~orphaned => OwnedBy(n)'
  BY DEF Shape, StateIsOwned, OwnedBy, Owns, Serving, RunAborts, Persist, WriteState, Moves
<1>5. QED
  BY <1>1, <1>2, <1>3, <1>4, DaemonStep DEF commandVars

LEMMA RunReadyStep == ASSUME DaemonInv, NEW n \in Daemons, RunReady(n) PROVE DaemonInv'
<1> USE DEF DaemonInv, Names, Memos, Locks, Flags, Processes
<1>1. UNCHANGED <<startLock, launched, at, op, saw, held, mine, result, orphaned>>
  BY DEF commandVars, commandFrame, RunReady, Persist, WriteState, Moves
<1>2. Shape'
  <2>1. States' = States /\ disk' \in States
    BY <1>1, Writes DEF States, Shape, Lifecycles, RunReady, Persist, WriteState, Moves
  <2>2. Processes'
    BY DEF Shape, Stations, Lifecycles, RunReady, Persist, WriteState, Moves
  <2>3. stopReq' \in [Daemons -> BOOLEAN] /\ killed' \in [Daemons -> BOOLEAN]
    BY DEF Shape, RunReady, Persist, WriteState, Moves
  <2>4. lifetime' \in Commands \cup Daemons \cup {Nobody} /\ crashes' \in 0..MaxCrashes
    BY Distinct, DaemonBounds DEF Shape, commandFrame, RunReady, Persist, WriteState, Moves
  <2>5. QED
    BY ONLY Shape, <1>1, <2>1, <2>2, <2>3, <2>4 DEF Shape
<1>3. DaemonConduct(n)
  BY Distinct DEF DaemonConduct, Shape, Births, Dead, Stations, RunReady, Persist, WriteState, Moves
<1>4. ~orphaned => OwnedBy(n)'
  <2>1. CASE Persist(n, "ready") /\ Moves(n, "serving")
    BY <2>1 DEF Shape, OwnedBy, Persist, WriteState, Moves
  <2>2. CASE Moves(n, "ending") /\ UNCHANGED <<disk, memory>>
    BY <2>2 DEF Shape, StateIsOwned, OwnedBy, Owns, Serving, RunReady, Moves
  <2>3. QED
    BY <2>1, <2>2 DEF RunReady
<1>5. QED
  BY <1>1, <1>2, <1>3, <1>4, DaemonStep DEF commandVars

LEMMA RunRefreshesStep == ASSUME DaemonInv, NEW n \in Daemons, RunRefreshes(n) PROVE DaemonInv'
<1> USE DEF DaemonInv, Names, Memos, Locks, Flags, Processes
<1>1. UNCHANGED <<startLock, launched, at, op, saw, held, mine, result, orphaned>>
  BY DEF commandVars, commandFrame, RunRefreshes, Persist, WriteState
<1>2. Shape'
  <2>1. States' = States /\ disk' \in States
    BY <1>1, Writes DEF States, Shape, Lifecycles, RunRefreshes, Persist, WriteState
  <2>2. Processes'
    BY DEF Shape, Stations, Lifecycles, RunRefreshes, Persist, WriteState
  <2>3. stopReq' \in [Daemons -> BOOLEAN] /\ killed' \in [Daemons -> BOOLEAN]
    BY DEF Shape, RunRefreshes, Persist, WriteState
  <2>4. lifetime' \in Commands \cup Daemons \cup {Nobody} /\ crashes' \in 0..MaxCrashes
    BY Distinct, DaemonBounds DEF Shape, commandFrame, RunRefreshes, Persist, WriteState
  <2>5. QED
    BY ONLY Shape, <1>1, <2>1, <2>2, <2>3, <2>4 DEF Shape
<1>3. DaemonConduct(n)
  BY Distinct DEF DaemonConduct, Shape, Births, Dead, Stations, RunRefreshes, Persist, WriteState
<1>4. ~orphaned => OwnedBy(n)'
  BY DEF Shape, StateIsOwned, OwnedBy, Owns, Serving, RunRefreshes, Persist, WriteState
<1>5. QED
  BY <1>1, <1>2, <1>3, <1>4, DaemonStep DEF commandVars

LEMMA RunStopsStep ==
  ASSUME DaemonInv, NEW n \in Daemons, NEW signal \in BOOLEAN, RunStops(n, signal)
  PROVE  DaemonInv'
<1> USE DEF DaemonInv, Names, Memos, Locks, Flags, Processes
<1>1. UNCHANGED <<startLock, launched, at, op, saw, held, mine, result, orphaned>>
  BY DEF commandVars, commandFrame, RunStops, Persist, WriteState, Moves
<1>2. Shape'
  <2>1. States' = States /\ disk' \in States
    BY <1>1, Writes DEF States, Shape, Lifecycles, RunStops, Persist, WriteState, Moves
  <2>2. Processes'
    BY DEF Shape, Stations, Lifecycles, RunStops, Persist, WriteState, Moves
  <2>3. stopReq' \in [Daemons -> BOOLEAN] /\ killed' \in [Daemons -> BOOLEAN]
    BY DEF Shape, RunStops, Persist, WriteState, Moves
  <2>4. lifetime' \in Commands \cup Daemons \cup {Nobody} /\ crashes' \in 0..MaxCrashes
    BY Distinct, DaemonBounds DEF Shape, commandFrame, RunStops, Persist, WriteState, Moves
  <2>5. QED
    BY ONLY Shape, <1>1, <2>1, <2>2, <2>3, <2>4 DEF Shape
<1>3. DaemonConduct(n)
  BY Distinct DEF DaemonConduct, Shape, Births, Dead, Stations, RunStops, Persist, WriteState, Moves
<1>4. ~orphaned => OwnedBy(n)'
  BY DEF Shape, StateIsOwned, OwnedBy, Owns, Serving, RunStops, Persist, WriteState, Moves
<1>5. QED
  BY <1>1, <1>2, <1>3, <1>4, DaemonStep DEF commandVars

LEMMA RunFailsStep == ASSUME DaemonInv, NEW n \in Daemons, RunFails(n) PROVE DaemonInv'
<1> USE DEF DaemonInv, Names, Memos, Locks, Flags, Processes
<1>1. UNCHANGED <<startLock, launched, at, op, saw, held, mine, result, orphaned>>
  BY DEF commandVars, commandFrame, RunFails, Persist, WriteState, Moves
<1>2. Shape'
  <2>1. States' = States /\ disk' \in States
    BY <1>1, Writes DEF States, Shape, Lifecycles, RunFails, Persist, WriteState, Moves
  <2>2. Processes'
    BY DEF Shape, Stations, Lifecycles, RunFails, Persist, WriteState, Moves
  <2>3. stopReq' \in [Daemons -> BOOLEAN] /\ killed' \in [Daemons -> BOOLEAN]
    BY DEF Shape, RunFails, Persist, WriteState, Moves
  <2>4. lifetime' \in Commands \cup Daemons \cup {Nobody} /\ crashes' \in 0..MaxCrashes
    BY Distinct, DaemonBounds DEF Shape, commandFrame, RunFails, Persist, WriteState, Moves
  <2>5. QED
    BY ONLY Shape, <1>1, <2>1, <2>2, <2>3, <2>4 DEF Shape
<1>3. DaemonConduct(n)
  BY Distinct DEF DaemonConduct, Shape, Births, Dead, Stations, RunFails, Persist, WriteState, Moves
<1>4. ~orphaned => OwnedBy(n)'
  BY DEF Shape, StateIsOwned, OwnedBy, Owns, Serving, RunFails, Persist, WriteState, Moves
<1>5. QED
  BY <1>1, <1>2, <1>3, <1>4, DaemonStep DEF commandVars

LEMMA RunShutsDownStep == ASSUME DaemonInv, NEW n \in Daemons, RunShutsDown(n) PROVE DaemonInv'
<1> USE DEF DaemonInv, Names, Memos, Locks, Flags, Processes
<1>1. UNCHANGED <<startLock, launched, at, op, saw, held, mine, result, orphaned>>
  BY DEF commandVars, commandFrame, RunShutsDown, Moves
<1>2. Shape'
  <2>1. States' = States /\ disk' \in States
    BY <1>1, Writes DEF States, Shape, Lifecycles, RunShutsDown, Moves
  <2>2. Processes'
    BY DEF Shape, Stations, Lifecycles, RunShutsDown, Moves
  <2>3. stopReq' \in [Daemons -> BOOLEAN] /\ killed' \in [Daemons -> BOOLEAN]
    BY DEF Shape, RunShutsDown, Moves
  <2>4. lifetime' \in Commands \cup Daemons \cup {Nobody} /\ crashes' \in 0..MaxCrashes
    BY Distinct, DaemonBounds DEF Shape, commandFrame, RunShutsDown, Moves
  <2>5. QED
    BY ONLY Shape, <1>1, <2>1, <2>2, <2>3, <2>4 DEF Shape
<1>3. DaemonConduct(n)
  BY Distinct DEF DaemonConduct, Shape, Births, Dead, Stations, RunShutsDown, Moves
<1>4. ~orphaned => OwnedBy(n)'
  BY DEF Shape, StateIsOwned, OwnedBy, Owns, Serving, RunShutsDown, Moves
<1>5. QED
  BY <1>1, <1>2, <1>3, <1>4, DaemonStep DEF commandVars

LEMMA RunClosesStep == ASSUME DaemonInv, NEW n \in Daemons, RunCloses(n) PROVE DaemonInv'
<1> USE DEF DaemonInv, Names, Memos, Locks, Flags, Processes
<1>1. UNCHANGED <<startLock, launched, at, op, saw, held, mine, result, orphaned>>
  BY DEF commandVars, commandFrame, RunCloses, Persist, WriteState, Moves
<1>2. Shape'
  <2>1. States' = States /\ disk' \in States
    <3>1. /\ [lc |-> "stopped", nonce |-> n, endpoint |-> FALSE] \in States
          /\ [lc |-> "failed", nonce |-> n, endpoint |-> TRUE] \in States
      BY Writes DEF Shape, Lifecycles, RunCloses
    <3>2. \/ disk' = [lc |-> "stopped", nonce |-> n, endpoint |-> FALSE]
          \/ disk' = [lc |-> "failed", nonce |-> n, endpoint |-> TRUE]
      BY DEF RunCloses, Persist, WriteState
    <3>3. QED
      BY <1>1, <3>1, <3>2 DEF States
  <2>2. Processes'
    BY DEF Shape, Stations, Lifecycles, RunCloses, Persist, WriteState, Moves
  <2>3. stopReq' \in [Daemons -> BOOLEAN] /\ killed' \in [Daemons -> BOOLEAN]
    BY DEF Shape, RunCloses, Persist, WriteState, Moves
  <2>4. lifetime' \in Commands \cup Daemons \cup {Nobody} /\ crashes' \in 0..MaxCrashes
    BY Distinct, DaemonBounds DEF Shape, commandFrame, RunCloses, Persist, WriteState, Moves
  <2>5. QED
    BY ONLY Shape, <1>1, <2>1, <2>2, <2>3, <2>4 DEF Shape
<1>3. DaemonConduct(n)
  BY Distinct DEF DaemonConduct, Shape, Births, Dead, Stations, RunCloses, Persist, WriteState,
    Moves
<1>4. ~orphaned => OwnedBy(n)'
  BY DEF Shape, StateIsOwned, OwnedBy, Owns, Serving, RunCloses, Persist, WriteState, Moves
<1>5. QED
  BY <1>1, <1>2, <1>3, <1>4, DaemonStep DEF commandVars

LEMMA RunUnlocksStep == ASSUME DaemonInv, NEW n \in Daemons, RunUnlocks(n) PROVE DaemonInv'
<1> USE DEF DaemonInv, Names, Memos, Locks, Flags, Processes
<1>1. UNCHANGED <<startLock, launched, at, op, saw, held, mine, result, orphaned>>
  BY DEF commandVars, commandFrame, RunUnlocks, Exits, Moves
<1>2. Shape'
  <2>1. States' = States /\ disk' \in States
    BY <1>1, Writes DEF States, Shape, Lifecycles, RunUnlocks, Exits, Moves
  <2>2. Processes'
    BY DEF Shape, Stations, Lifecycles, RunUnlocks, Exits, Moves
  <2>3. stopReq' \in [Daemons -> BOOLEAN] /\ killed' \in [Daemons -> BOOLEAN]
    BY DEF Shape, RunUnlocks, Exits, Moves
  <2>4. lifetime' \in Commands \cup Daemons \cup {Nobody} /\ crashes' \in 0..MaxCrashes
    BY Distinct, DaemonBounds DEF Shape, commandFrame, RunUnlocks, Exits, Moves
  <2>5. QED
    BY ONLY Shape, <1>1, <2>1, <2>2, <2>3, <2>4 DEF Shape
<1>3. DaemonConduct(n)
  BY Distinct DEF DaemonConduct, Shape, Births, Dead, Stations, RunUnlocks, Exits, Moves
<1>4. ~orphaned => OwnedBy(n)'
  BY DEF Shape, StateIsOwned, OwnedBy, Owns, Serving, RunUnlocks, Exits, Moves
<1>5. QED
  BY <1>1, <1>2, <1>3, <1>4, DaemonStep DEF commandVars

LEMMA DaemonDiesStep == ASSUME DaemonInv, NEW n \in Daemons, DaemonDies(n) PROVE DaemonInv'
<1> USE DEF DaemonInv, Names, Memos, Locks, Flags, Processes
<1>1. UNCHANGED <<startLock, launched, at, op, saw, held, mine, result, orphaned>>
  BY DEF commandVars, commandFrame, DaemonDies, Exits, Moves
<1>2. Shape'
  <2>1. States' = States /\ disk' \in States
    BY <1>1, Writes DEF States, Shape, Lifecycles, DaemonDies, Exits, Moves
  <2>2. Processes'
    BY DEF Shape, Stations, Lifecycles, DaemonDies, Exits, Moves
  <2>3. stopReq' \in [Daemons -> BOOLEAN] /\ killed' \in [Daemons -> BOOLEAN]
    BY DEF Shape, DaemonDies, Exits, Moves
  <2>4. lifetime' \in Commands \cup Daemons \cup {Nobody} /\ crashes' \in 0..MaxCrashes
    BY Distinct, DaemonBounds DEF Shape, commandFrame, DaemonDies, Exits, Moves
  <2>5. QED
    BY ONLY Shape, <1>1, <2>1, <2>2, <2>3, <2>4 DEF Shape
<1>3. DaemonConduct(n)
  BY Distinct DEF DaemonConduct, Shape, Births, Dead, Stations, DaemonDies, Exits, Moves
<1>4. ~orphaned => OwnedBy(n)'
  BY DEF Shape, StateIsOwned, OwnedBy, Owns, Serving, DaemonDies, Exits, Moves
<1>5. QED
  BY <1>1, <1>2, <1>3, <1>4, DaemonStep DEF commandVars

LEMMA DaemonCrashesStep == ASSUME DaemonInv, NEW n \in Daemons, DaemonCrashes(n) PROVE DaemonInv'
<1> USE DEF DaemonInv, Names, Memos, Locks, Flags, Processes
<1>1. UNCHANGED <<startLock, launched, at, op, saw, held, mine, result, orphaned>>
  BY DEF commandVars, commandFrame, DaemonCrashes, Exits, Moves
<1>2. Shape'
  <2>1. States' = States /\ disk' \in States
    BY <1>1, Writes DEF States, Shape, Lifecycles, DaemonCrashes, Exits, Moves
  <2>2. Processes'
    BY DEF Shape, Stations, Lifecycles, DaemonCrashes, Exits, Moves
  <2>3. stopReq' \in [Daemons -> BOOLEAN] /\ killed' \in [Daemons -> BOOLEAN]
    BY DEF Shape, DaemonCrashes, Exits, Moves
  <2>4. lifetime' \in Commands \cup Daemons \cup {Nobody} /\ crashes' \in 0..MaxCrashes
    BY Distinct, DaemonBounds DEF Shape, commandFrame, DaemonCrashes, Exits, Moves
  <2>5. QED
    BY ONLY Shape, <1>1, <2>1, <2>2, <2>3, <2>4 DEF Shape
<1>3. DaemonConduct(n)
  BY Distinct DEF DaemonConduct, Shape, Births, Dead, Stations, DaemonCrashes, Exits, Moves
<1>4. ~orphaned => OwnedBy(n)'
  BY DEF Shape, StateIsOwned, OwnedBy, Owns, Serving, DaemonCrashes, Exits, Moves
<1>5. QED
  BY <1>1, <1>2, <1>3, <1>4, DaemonStep DEF commandVars

-----------------------------------------------------------------------------
LEMMA CommandNextStep ==
  ASSUME DaemonInv, NEW m \in Commands, CommandNext(m) PROVE DaemonInv'
<1>1. CASE \E what \in {"start", "stop", "restart", "status"} : Call(m, what)
  BY <1>1, CallStep
<1>2. CASE TakeStartLock(m) \/ ReadState(m) \/ ProbeReleases(m) \/ Judge(m)
  BY <1>2, TakeStartLockStep, ReadStateStep, ProbeReleasesStep, JudgeStep
<1>3. CASE Probe(m, "probe", "judge") \/ Probe(m, "probeFailed", "judgeFailed")
           \/ Probe(m, "probeJoined", "judgeJoined")
  BY <1>3, ProbeStep
<1>4. CASE StatusAnswered(m) \/ (\E answered \in BOOLEAN : StopDelivered(m, answered))
           \/ RequestFails(m) \/ JudgeFailed(m)
  BY <1>4, StatusAnsweredStep, StopDeliveredStep, RequestFailsStep, JudgeFailedStep
<1>5. CASE LaunchState(m) \/ \E ok \in BOOLEAN : Spawn(m, ok)
  BY <1>5, LaunchStateStep, SpawnStep
<1>6. CASE WaitReady(m) \/ NotReady(m) \/ FailRead(m) \/ FailWrite(m) \/ Reap(m)
  BY <1>6, WaitReadyStep, NotReadyStep, FailReadStep, FailWriteStep, ReapStep
<1>7. CASE WriteStopped(m) \/ WaitStopped(m) \/ JudgeJoined(m) \/ NotStopped(m)
  BY <1>7, WriteStoppedStep, WaitStoppedStep, JudgeJoinedStep, NotStoppedStep
<1>8. CASE Returns(m) \/ ClientCrashes(m)
  BY <1>8, ReturnsStep, ClientCrashesStep
<1>9. QED
  BY <1>1, <1>2, <1>3, <1>4, <1>5, <1>6, <1>7, <1>8 DEF CommandNext

LEMMA DaemonNextStep ==
  ASSUME DaemonInv, NEW n \in Daemons,
         RunStep(n) \/ RunRefreshes(n) \/ RunStops(n, TRUE) \/ RunFails(n) \/ DaemonCrashes(n)
  PROVE  DaemonInv'
<1>1. CASE RunLocks(n) \/ RunChecks(n) \/ RunBinds(n) \/ RunStarts(n) \/ RunAborts(n)
  BY <1>1, RunLocksStep, RunChecksStep, RunBindsStep, RunStartsStep, RunAbortsStep
<1>2. CASE RunReady(n) \/ RunShutsDown(n) \/ RunCloses(n) \/ RunUnlocks(n)
  BY <1>2, RunReadyStep, RunShutsDownStep, RunClosesStep, RunUnlocksStep
<1>3. CASE RunStops(n, FALSE) \/ RunStops(n, TRUE)
  BY <1>3, RunStopsStep
<1>4. CASE RunRefreshes(n) \/ RunFails(n) \/ DaemonDies(n) \/ DaemonCrashes(n)
  BY <1>4, RunRefreshesStep, RunFailsStep, DaemonDiesStep, DaemonCrashesStep
<1>5. QED
  BY <1>1, <1>2, <1>3, <1>4 DEF RunStep

LEMMA DaemonStutters == ASSUME DaemonInv, UNCHANGED vars PROVE DaemonInv'
<1>1. UNCHANGED <<disk, startLock, lifetime, launched, at, op, saw, held, mine, result>>
  BY DEF vars, lockVars, commandVars
<1>2. UNCHANGED <<where, memory, stopReq, killed, crashes, orphaned>>
  BY DEF vars, daemonVars
<1>3. Shape'
  BY <1>1, <1>2 DEF DaemonInv, Shape, States, Names, Memos, Locks, Flags, Processes
<1>4. Serial' /\ Births'
  BY <1>1, <1>2 DEF DaemonInv, Serial, Births
<1>5. ASSUME ~orphaned PROVE Deserted' /\ StateIsOwned'
  <2>1. \A n : Dead(n)' = Dead(n)
    BY <1>2 DEF Dead
  <2>2. Quiet' = Quiet
    BY <2>1 DEF Quiet
  <2>3. \A k : HasFoundNobody(k)' = HasFoundNobody(k)
    BY <1>1 DEF HasFoundNobody
  <2>4. Deserted'
    BY <1>1, <1>2, <1>5, <2>1, <2>2, <2>3 DEF DaemonInv, Deserted
  <2>5. StateIsOwned'
    BY <1>1, <1>2, <1>5 DEF DaemonInv, StateIsOwned, OwnedBy, Owns, Serving
  <2>6. QED
    BY <2>4, <2>5
<1>6. QED
  BY <1>2, <1>3, <1>4, <1>5 DEF DaemonInv

LEMMA DaemonInvariant == Spec => []DaemonInv
<1>1. ASSUME DaemonInv, [Next]_vars PROVE DaemonInv'
  BY <1>1, CommandNextStep, DaemonNextStep, DaemonStutters DEF Next
<1>2. QED
  BY <1>1, DaemonInit, PTL DEF Spec

(* TypeOK for every set of commands and any number of launches and crashes:
   no nonce is invented, and a daemon that owns the project has lifetime.lock
   (service.go:Run). *)
THEOREM DaemonTypesCorrect == Spec => []TypeOK
<1>1. DaemonInv => TypeOK
  <2> SUFFICES ASSUME DaemonInv PROVE TypeOK
    OBVIOUS
  <2>1. /\ disk \in [lc : Lifecycles, nonce : 0..launched, endpoint : BOOLEAN]
        /\ \A m \in Commands : saw[m].nonce \in 0..launched /\ mine[m] \in 0..launched
    BY DEF DaemonInv, Shape, Memos, States
  <2>2. \A n \in Daemons : Owns(n) => lifetime = n
    BY DEF DaemonInv, Births, Owns
  <2>3. /\ at \in [Commands -> Positions]
        /\ result \in [Commands -> {"error", "starting", "ready", "stopping", "stopped", "failed"}]
        /\ memory \in [Daemons -> {"starting", "ready", "stopping", "stopped", "failed"}]
    BY DEF DaemonInv, Shape, Names, Processes, Lifecycles
  <2>4. Shape
    BY DEF DaemonInv
  <2>5. QED
    BY ONLY <2>1, <2>2, <2>3, <2>4 DEF TypeOK, Shape, Names, Memos, Locks, Flags, Processes,
      Lifecycles, Positions
<1>2. QED
  BY <1>1, DaemonInvariant, PTL

(* OwnerIsReachable: as long as no command dies between a launch and the
   daemon's lock, state.json leads to the one daemon that has lifetime.lock. *)
THEOREM OwnerCanBeAsked == Spec => []OwnerIsReachable
<1>1. DaemonInv => OwnerIsReachable
  BY DEF DaemonInv, Births, Owns, StateIsOwned, OwnedBy, OwnerIsReachable
<1>2. QED
  BY <1>1, DaemonInvariant, PTL

(* StopLeavesNoDaemon: a Stop that reports "stopped" (manager.go:Stop) leaves
   no daemon alive, and none on its way. *)
THEOREM StopIsFinal == Spec => []StopLeavesNoDaemon
<1>1. DaemonInv => StopLeavesNoDaemon
  BY DEF DaemonInv, Deserted, HasFoundNobody, Quiet, Dead, StopLeavesNoDaemon
<1>2. QED
  BY <1>1, DaemonInvariant, PTL

(* LifecycleMovesForward: whoever writes the state of one daemon, its
   lifecycle never goes back (state.go:writeState and its callers). *)
THEOREM LifecycleIsMonotone == Spec => LifecycleMovesForward
<1> DEFINE Forward == ~orphaned /\ disk'.nonce = disk.nonce => Rank[disk'.lc] >= Rank[disk.lc]
<1>1. ASSUME DaemonInv, [Next]_vars PROVE Forward
  <2>0. disk.lc \in Lifecycles /\ disk.nonce \in 0..launched
    BY <1>1 DEF DaemonInv, Shape, Memos, States
  <2>1. ASSUME disk' = disk PROVE Forward
    BY <2>0, <2>1 DEF Rank, Lifecycles
  <2>2. ASSUME disk'.lc \in {"failed", "stopped"} PROVE Forward
    BY <2>0, <2>2 DEF Rank, Lifecycles
  <2>3. ASSUME NEW m \in Commands, CommandNext(m) PROVE Forward
    <3>1. CASE LaunchState(m)
      <4>1. launched \in Nat /\ disk'.nonce = launched + 1
        BY <1>1, <3>1, Distinct DEF DaemonInv, Shape, LaunchState, WriteState
      <4>2. QED
        BY <2>0, <4>1
    <3>2. CASE FailWrite(m) \/ WriteStopped(m)
      BY <1>1, <2>2, <3>2, FailWriteStep, WriteStoppedStep
    <3>3. CASE ~(LaunchState(m) \/ FailWrite(m) \/ WriteStopped(m))
      <4>1. disk' = disk
        BY <2>3, <3>3 DEF CommandNext, Call, TakeStartLock, ReadState, Probe, ProbeReleases, Judge,
          StatusAnswered, StopDelivered, RequestFails, JudgeFailed, Spawn, WaitReady, NotReady,
          FailRead, Reap, WaitStopped, JudgeJoined, NotStopped, Returns, ClientCrashes
      <4>2. QED
        BY <2>1, <4>1
    <3>4. QED
      BY <3>1, <3>2, <3>3
  <2>4. ASSUME NEW n \in Daemons, ~orphaned,
               RunStep(n) \/ RunRefreshes(n) \/ RunStops(n, TRUE) \/ RunFails(n) \/ DaemonCrashes(n)
        PROVE  Forward
    <3>1. CASE RunLocks(n) \/ RunChecks(n) \/ RunStarts(n) \/ RunShutsDown(n) \/ RunUnlocks(n)
               \/ DaemonDies(n) \/ DaemonCrashes(n)
      <4>1. disk' = disk
        BY <3>1 DEF RunLocks, RunChecks, RunStarts, RunShutsDown, RunUnlocks, DaemonDies,
          DaemonCrashes
      <4>2. QED
        BY <2>1, <4>1
    <3>2. CASE RunAborts(n) \/ RunFails(n) \/ RunCloses(n)
      <4>1. disk'.lc \in {"failed", "stopped"}
        BY <3>2 DEF RunAborts, RunFails, RunCloses, Persist, WriteState
      <4>2. QED
        BY <2>2, <4>1
    <3>3. OwnedBy(n)
      BY <1>1, <2>4 DEF DaemonInv, StateIsOwned
    <3>4. CASE RunBinds(n)
      <4>1. disk.lc = "starting" /\ disk'.lc \in {"starting", "failed"}
        BY <3>3, <3>4 DEF RunBinds, OwnedBy, Owns, Persist, WriteState
      <4>2. QED
        BY <4>1 DEF Rank
    <3>5. CASE RunReady(n)
      <4>1. disk.lc = "starting" /\ (disk'.lc = "ready" \/ disk' = disk)
        BY <3>3, <3>5 DEF RunReady, OwnedBy, Owns, Persist, WriteState
      <4>2. QED
        BY <4>1 DEF Rank
    <3>6. CASE RunRefreshes(n) \/ RunStops(n, FALSE) \/ RunStops(n, TRUE)
      <4>1. disk.lc = "ready" /\ disk'.lc \in {"ready", "stopping"}
        BY <3>3, <3>6 DEF RunRefreshes, RunStops, OwnedBy, Owns, Persist, WriteState
      <4>2. QED
        BY <4>1 DEF Rank
    <3>7. QED
      BY <2>4, <3>1, <3>2, <3>4, <3>5, <3>6 DEF RunStep
  <2>5. CASE UNCHANGED vars
    <3>1. disk' = disk
      BY <2>5 DEF vars
    <3>2. QED
      BY <2>1, <3>1
  <2>6. QED
    BY <1>1, <2>3, <2>4, <2>5 DEF Next
<1>2. QED
  BY <1>1, DaemonInvariant, PTL DEF Spec, LifecycleMovesForward
=============================================================================
