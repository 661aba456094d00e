------------------------------ MODULE FileLock ------------------------------
(***************************************************************************)
(* lock.FileLock (lock/lock.go): the PID file that lets one process write  *)
(* the index.  Acquire and Release are several system calls each, and      *)
(* every other process may act between any two of them: each call is an    *)
(* action.                                                                 *)
(*                                                                         *)
(* One process has one FileLock here and takes it in one goroutine at a    *)
(* time (Indexer.mu).  A restarted process may get its old PID again.      *)
(* The clock is one fact about a lock file: it is older than StaleTimeout. *)
(***************************************************************************)
EXTENDS Naturals

CONSTANTS
  Procs,       \* processes, by PID
  NoPid,       \* the content of a lock file that names no process (yet)
  MaxLocks,    \* bound: lock files ever created
  MaxCrashes   \* bound: crashes

ASSUME PidsAreNamed == NoPid \notin Procs
ASSUME LockBounds == MaxLocks \in Nat /\ MaxCrashes \in Nat

VARIABLES
  file,     \* the lock file: 0, or the number of the file at the path
  content,  \* the PID in it
  old,      \* its mtime is StaleTimeout ago
  maker,    \* history: the process that created it
  made,     \* number of lock files created so far
  at,       \* where each process is in Acquire or Release; "dead"
  mine,     \* the lock file each process has created
  seen,     \* handleExistingLock: the PID it has read, and (history) of which file
  crashes,
  trespass, \* history: some process removed another file than the one it meant
  expired   \* history: the age rule took the lock file of a live process

fileVars == <<file, content, old, maker, made>>
histVars == <<trespass, expired>>
lockVars == <<fileVars, at, mine, seen, crashes, histVars>>

Absent == file = 0
Alive(p) == at[p] # "dead"
Holders == {p \in Procs : at[p] = "critical"}

LockInit ==
  /\ file = 0 /\ content = NoPid /\ old = FALSE /\ maker = NoPid /\ made = 0
  /\ at = [p \in Procs |-> "idle"]
  /\ mine = [p \in Procs |-> 0]
  /\ seen = [p \in Procs |-> [pid |-> NoPid, file |-> 0]]
  /\ crashes = 0
  /\ trespass = FALSE /\ expired = FALSE

Goto(p, label) == at' = [at EXCEPT ![p] = label]

(* os.Remove by path: whatever file is there goes. *)
Unlink ==
  /\ file' = 0 /\ content' = NoPid /\ old' = FALSE /\ maker' = NoPid
  /\ UNCHANGED made

-----------------------------------------------------------------------------
(* Acquire. *)

(* os.Stat: is there a lock file? *)
AcquireStat(p) ==
  /\ at[p] = "idle"
  /\ Goto(p, IF Absent THEN "open" ELSE "read")
  /\ UNCHANGED <<fileVars, mine, seen, crashes, histVars>>

(* handleExistingLock: os.ReadFile ... *)
ReadExisting(p) ==
  /\ at[p] = "read"
  /\ \/ /\ Absent
        /\ Goto(p, "open")
        /\ UNCHANGED seen
     \/ /\ ~Absent
        /\ seen' = [seen EXCEPT ![p] = [pid |-> content, file |-> file]]
        /\ Goto(p, "age")
  /\ UNCHANGED <<fileVars, mine, crashes, histVars>>

(* Mutant of JudgeAge: age is no reason. *)
JudgeAgeless(p) ==
  /\ at[p] = "age"
  /\ Goto(p, IF Absent THEN "open" ELSE "owner")
  /\ seen' = IF seen[p].file = file THEN seen ELSE [seen EXCEPT ![p].file = 0]
  /\ UNCHANGED <<fileVars, mine, crashes, histVars>>

(* ... os.Stat again for the mtime, which is enough when it is too old.  It may
   be the mtime of a later file than the content came from. *)
JudgeAge(p) ==
  /\ at[p] = "age"
  /\ Goto(p, IF Absent THEN "open" ELSE IF old THEN "remove" ELSE "owner")
  /\ seen' = IF seen[p].file = file THEN seen ELSE [seen EXCEPT ![p].file = 0]
  /\ UNCHANGED <<fileVars, mine, crashes, histVars>>

(* Mutant of OwnerIsDead: content that names nobody is stale at once. *)
OwnerIsUnknown(pid) == pid = NoPid \/ ~Alive(pid)

(* The content names a process, and that is not alive. *)
OwnerIsDead(pid) == pid # NoPid /\ ~Alive(pid)

(* ... the signal-0 probe of a younger one. *)
JudgeOwner(p) ==
  /\ at[p] = "owner"
  /\ Goto(p, IF OwnerIsDead(seen[p].pid) THEN "remove" ELSE "idle")
  /\ UNCHANGED <<fileVars, mine, seen, crashes, histVars>>

(* ... and os.Remove of what was found stale. *)
RemoveStale(p) ==
  /\ at[p] = "remove"
  /\ Goto(p, "open")
  /\ Unlink
  /\ trespass' = (trespass \/ (~Absent /\ file # seen[p].file))
  /\ expired' = (expired \/ (old /\ at[maker] \in {"write", "critical"} /\ mine[maker] = file))
  /\ UNCHANGED <<mine, seen, crashes>>

(* Mutant of CreateExclusive: without O_EXCL an existing file is taken over. *)
CreateShared(p) ==
  /\ at[p] = "open"
  /\ made < MaxLocks
  /\ made' = made + 1
  /\ file' = made + 1 /\ content' = NoPid /\ old' = FALSE /\ maker' = p
  /\ mine' = [mine EXCEPT ![p] = made + 1]
  /\ Goto(p, "write")
  /\ UNCHANGED <<seen, crashes, histVars>>

(* os.OpenFile with O_CREATE|O_EXCL: one process wins. *)
CreateExclusive(p) ==
  /\ at[p] = "open"
  /\ \/ /\ ~Absent
        /\ Goto(p, "idle")
        /\ UNCHANGED <<fileVars, mine>>
     \/ /\ Absent
        /\ made < MaxLocks
        /\ made' = made + 1
        /\ file' = made + 1 /\ content' = NoPid /\ old' = FALSE /\ maker' = p
        /\ mine' = [mine EXCEPT ![p] = made + 1]
        /\ Goto(p, "write")
  /\ UNCHANGED <<seen, crashes, histVars>>

(* Mutant of WritePid: the PID is written to the path. *)
WritePidByPath(p) ==
  /\ at[p] = "write"
  /\ content' = IF Absent THEN content ELSE p
  /\ Goto(p, "critical")
  /\ UNCHANGED <<file, old, maker, made, mine, seen, crashes, histVars>>

(* The PID is written, to its own file: that may not be at the path any more. *)
WritePid(p) ==
  /\ at[p] = "write"
  /\ content' = IF file = mine[p] THEN p ELSE content
  /\ Goto(p, "critical")
  /\ UNCHANGED <<file, old, maker, made, mine, seen, crashes, histVars>>

(* Or the write fails, and the path is removed. *)
WriteFails(p) ==
  /\ at[p] = "write"
  /\ Unlink
  /\ Goto(p, "idle")
  /\ trespass' = (trespass \/ (~Absent /\ file # mine[p]))
  /\ UNCHANGED <<mine, seen, crashes, expired>>

-----------------------------------------------------------------------------
(* Release. *)

(* The file is there and names us. *)
IsOurs(p) == ~Absent /\ content = p

ReleaseRead(p) ==
  /\ at[p] = "critical"
  /\ Goto(p, IF IsOurs(p) THEN "unlink" ELSE "idle")
  /\ UNCHANGED <<fileVars, mine, seen, crashes, histVars>>

ReleaseUnlink(p) ==
  /\ at[p] = "unlink"
  /\ Unlink
  /\ Goto(p, "idle")
  /\ trespass' = (trespass \/ (~Absent /\ file # mine[p]))
  /\ UNCHANGED <<mine, seen, crashes, expired>>

-----------------------------------------------------------------------------
(* The world. *)

(* Two minutes pass. *)
FileAges ==
  /\ ~Absent /\ ~old
  /\ old' = TRUE
  /\ UNCHANGED <<file, content, maker, made, at, mine, seen, crashes, histVars>>

Die(p) ==
  /\ Alive(p) /\ crashes < MaxCrashes
  /\ crashes' = crashes + 1
  /\ Goto(p, "dead")
  /\ UNCHANGED <<fileVars, mine, seen, histVars>>

Restart(p) ==
  /\ ~Alive(p)
  /\ Goto(p, "idle")
  /\ mine' = [mine EXCEPT ![p] = 0]
  /\ seen' = [seen EXCEPT ![p] = [pid |-> NoPid, file |-> 0]]
  /\ UNCHANGED <<fileVars, crashes, histVars>>

Step(p) ==
  \/ AcquireStat(p) \/ ReadExisting(p) \/ JudgeAge(p) \/ JudgeOwner(p) \/ RemoveStale(p)
  \/ CreateExclusive(p) \/ WritePid(p) \/ WriteFails(p)
  \/ ReleaseRead(p) \/ ReleaseUnlink(p)

LockNext ==
  \/ \E p \in Procs : Step(p) \/ Die(p) \/ Restart(p)
  \/ FileAges

LockSpec == LockInit /\ [][LockNext]_lockVars

(* A live process goes on, tries again when it was refused (the watcher's
   retry), and releases what it holds; time passes.  No process has to come
   back to life. *)
LockFairness == WF_lockVars(FileAges) /\ \A p \in Procs : WF_lockVars(Step(p))

FairLockSpec == LockSpec /\ LockFairness

-----------------------------------------------------------------------------
(* Properties. *)

(* Types; a lock file names nobody but the process that created it. *)
LockTypeOK ==
  /\ made \in 0..MaxLocks /\ file \in 0..made /\ old \in BOOLEAN
  /\ maker \in IF Absent THEN {NoPid} ELSE Procs
  /\ content \in {NoPid, maker}
  /\ at \in [Procs -> {"idle", "read", "age", "owner", "remove", "open",
                       "write", "critical", "unlink", "dead"}]
  /\ mine \in [Procs -> 0..made]
  /\ seen \in [Procs -> [pid : Procs \cup {NoPid}, file : 0..made]]
  /\ crashes \in 0..MaxCrashes
  /\ trespass \in BOOLEAN /\ expired \in BOOLEAN

(* Acquire, Release: one process holds the lock.  Two things break it and no
   other interleaving does, half-written locks and crashes included: a remove
   that hits a newer file than the one it was meant for (KNOWN-BUGS.md D-1),
   and the age rule. *)
MutualExclusion == ~trespass /\ ~expired => \A p, q \in Holders : p = q

(* Release, WritePid: as long as the same holds, the lock file of a holder is at
   the path and names it, so the others are told who holds it. *)
HolderIsNamed ==
  ~trespass /\ ~expired => \A p \in Holders : file = mine[p] /\ content = p

(* handleExistingLock: what a crashed process has left, named or half-written,
   is taken away at last. *)
OrphanIsReclaimed ==
  \A p \in Procs :
    (~Absent /\ maker = p /\ ~Alive(p)) ~> (Absent \/ maker # p \/ Alive(p) \/ \A q \in Procs : ~Alive(q))
=============================================================================
