----------------------------- MODULE WatchTree ------------------------------
(***************************************************************************)
(* The directories under watch: watchTreeLocked and handleFSNotifyEvent    *)
(* (watch/watcher.go) against a file system that changes under them, and   *)
(* SyncFiles (indexer/sync.go), which turns the accepted paths into an     *)
(* index.                                                                  *)
(*                                                                         *)
(* fsnotify has no recursive watch: each directory needs one of its own,   *)
(* and what happens in it before the watch exists is reported by nobody.   *)
(* The file system and fsnotify are external: a watch belongs to one       *)
(* directory and ends with it, events arrive in order, and a full queue    *)
(* is reported as an error.                                                *)
(*                                                                         *)
(* Generations, debouncing and retries are module FileWatcher's: here the  *)
(* accepted events are a set, and a batch that fails goes back into it.    *)
(*                                                                         *)
(* Left out: ignore rules (every directory and file is admitted), symbolic *)
(* links, a path that turns from a file into a directory.                  *)
(***************************************************************************)
EXTENDS Naturals, Sequences, FiniteSets

CONSTANTS
  Root,           \* the project's root directory
  Dirs, Files,    \* paths of directories and of files
  Parent,         \* the directory a directory is in (the root's is the root)
  Below,          \* the directories at or below a directory
  DirOf,          \* the directory a file is in
  WholeTree,      \* the whole-tree marker, as an accepted hint
  NoDir,          \* no directory
  MaxDirWatches,  \* Options.MaxDirWatches
  QueueCap,       \* length of the native event queue
  MaxOps,         \* bound: file system operations
  Recreate        \* whether a removed directory's path may be used again

ASSUME TreeIsATree ==
  /\ Root \in Dirs /\ NoDir \notin Dirs
  /\ Dirs \cap Files = {} /\ WholeTree \notin Dirs \cup Files
  /\ Parent \in [Dirs -> Dirs] /\ Parent[Root] = Root
  /\ DirOf \in [Files -> Dirs]
  /\ Below \in [Dirs -> SUBSET Dirs]
  /\ \A d \in Dirs : Below[d] = {d} \cup UNION {Below[c] : c \in {e \in Dirs \ {Root} : Parent[e] = d}}
  /\ \A d \in Dirs : Root \in Below[d] => d = Root
  /\ \A d \in Dirs : \A e \in Below[d] : Below[e] \subseteq Below[d] /\ (e # d => Parent[e] \in Below[d])
  /\ \A S \in SUBSET (Dirs \ {Root}) : S # {} => \E e \in S : Parent[e] \notin S
  /\ MaxDirWatches \in Nat /\ QueueCap \in Nat /\ MaxOps \in Nat
  /\ Recreate \in BOOLEAN

VARIABLES
  exists, onDisk,  \* the directories and files there are
  gone,            \* directories removed since the watcher was started
  ops,             \* number of file system operations so far
  live,            \* directories whose fsnotify watch is alive
  queue,           \* events fsnotify has not delivered yet
  overflow,        \* fsnotify has an error to deliver: its queue was full
  watchedDirs,     \* fw.watchedDirs
  mode,            \* "starting", "running", or "failed" for good
  walk,            \* watchTreeLocked: directories to visit, the one it is in
  dirty,           \* accepted hints that no reconciliation has taken up
  sync,            \* SyncFiles: the hints it was given, and what it has to look at
  startup,         \* files the startup reconciliation has to look at
  hand,            \* of each file: what a reconciliation has read, and not stored yet
  index            \* of each file: "absent", "current", or the content is "old"

diskVars  == <<exists, onDisk, gone, ops>>
queueVars == <<queue, overflow>>
watchVars == <<watchedDirs, mode, walk>>
syncVars  == <<dirty, sync, startup>>
vars == <<diskVars, live, queueVars, watchVars, syncVars, hand, index>>

NoWalk == [on |-> FALSE, todo |-> {}, at |-> NoDir, mark |-> FALSE]
WalkFrom(d, mark) == [on |-> TRUE, todo |-> {d}, at |-> NoDir, mark |-> mark]
NoSync == [pc |-> "idle", batch |-> {}, files |-> {}, missing |-> {}, failed |-> FALSE]

In(d) == {f \in Files : DirOf[f] \in Below[d]}
Tracked == {f \in Files : index[f] # "absent"}

(* The index shows the file as it is on disk. *)
UpToDate(f) == index[f] = IF f \in onDisk THEN "current" ELSE "absent"

Walking == walk.on
Active  == mode = "running"

Init ==
  /\ exists \in {ds \in SUBSET Dirs : Root \in ds /\ \A d \in ds : Parent[d] \in ds}
  /\ onDisk \in SUBSET {f \in Files : DirOf[f] \in exists}
  /\ gone = {} /\ ops = 0
  /\ live = {} /\ queue = <<>> /\ overflow = FALSE
  /\ watchedDirs = {} /\ mode = "starting"
  /\ walk = WalkFrom(Root, FALSE)
  /\ dirty = {} /\ sync = NoSync /\ startup = {}
  /\ hand = [f \in Files |-> "nothing"]
  /\ index = [f \in Files |-> "absent"]

-----------------------------------------------------------------------------
(* The file system (external). *)

(* An operation in a directory under watch is reported, once, unless the queue
   is full.  A directory that goes is reported by its own watch as well. *)
Report(watches, op, path) ==
  IF watches \cap live = {} THEN UNCHANGED queueVars
  ELSE IF Len(queue) < QueueCap
       THEN queue' = Append(queue, [op |-> op, path |-> path]) /\ UNCHANGED overflow
       ELSE overflow' = TRUE /\ UNCHANGED queue

DiskStep == ops < MaxOps /\ ops' = ops + 1
Outside  == <<watchVars, syncVars>>

(* What was seen of files whose content has just changed. *)
Outdated(seen, fs) == [f \in Files |-> IF f \in fs /\ seen[f] = "current" THEN "old" ELSE seen[f]]

(* The content of files changes: what the index has of them, and what was read, is old. *)
Changed(fs) == index' = Outdated(index, fs) /\ hand' = Outdated(hand, fs)

WriteFile(f) ==
  /\ DiskStep
  /\ DirOf[f] \in exists
  /\ onDisk' = onDisk \cup {f}
  /\ Changed({f})
  /\ Report({DirOf[f]}, "change", f)
  /\ UNCHANGED <<exists, gone, live, Outside>>

RemoveFile(f) ==
  /\ DiskStep
  /\ f \in onDisk
  /\ onDisk' = onDisk \ {f}
  /\ Changed({f})
  /\ Report({DirOf[f]}, "change", f)
  /\ UNCHANGED <<exists, gone, live, Outside>>

(* A directory with some content arrives: mkdir when there is none, or a move
   into the tree. *)
AddDir(d, ds, fs) ==
  /\ DiskStep
  /\ d \notin exists /\ Parent[d] \in exists
  /\ Recreate \/ Below[d] \cap gone = {}
  /\ d \in ds /\ ds \subseteq Below[d]
  /\ \A e \in ds \ {d} : Parent[e] \in ds
  /\ \A f \in fs : DirOf[f] \in ds
  /\ exists' = exists \cup ds
  /\ onDisk' = onDisk \cup fs
  /\ Changed(fs)
  /\ Report({Parent[d]}, "create", d)
  /\ UNCHANGED <<gone, live, Outside>>

(* A directory leaves: rmdir when it is empty, or a move out of the tree. *)
RemoveDir(d, op) ==
  /\ DiskStep
  /\ d \in exists \ {Root}
  /\ op = "change" => Below[d] \cap exists = {d} /\ In(d) \cap onDisk = {}
  /\ exists' = exists \ Below[d]
  /\ onDisk' = onDisk \ In(d)
  /\ gone' = gone \cup (Below[d] \cap exists)
  /\ live' = live \ Below[d]
  /\ Changed(In(d))
  /\ Report({d, Parent[d]}, op, d)
  /\ UNCHANGED Outside

-----------------------------------------------------------------------------
(* watchTreeLocked, which keeps fw.mu while the file system goes on. *)

(* Mutant of CapReached: off by one. *)
CapExceeded == Cardinality(watchedDirs) > MaxDirWatches

CapReached == Cardinality(watchedDirs) >= MaxDirWatches

(* It enters a directory: fsw.Add, unless fw.watchedDirs has the path already.
   A directory that is not there any more is passed over. *)
WalkAdd(d) ==
  /\ walk.at = NoDir /\ d \in walk.todo
  /\ \/ /\ d \in watchedDirs
        /\ walk' = [walk EXCEPT !.todo = @ \ {d}, !.at = d]
        /\ UNCHANGED <<watchedDirs, live>>
     \/ /\ d \notin watchedDirs /\ ~CapReached
        /\ d \in exists
        /\ watchedDirs' = watchedDirs \cup {d}
        /\ live' = live \cup {d}
        /\ walk' = [walk EXCEPT !.todo = @ \ {d}, !.at = d]
     \/ /\ d \notin watchedDirs /\ ~CapReached
        /\ d \notin exists
        /\ walk' = [walk EXCEPT !.todo = @ \ {d}]
        /\ UNCHANGED <<watchedDirs, live>>
  /\ UNCHANGED <<diskVars, queueVars, mode, syncVars, hand, index>>

(* The cap is reached, at the start or later: the watcher fails. *)
WalkFails(d) ==
  /\ walk.at = NoDir /\ d \in walk.todo
  /\ d \notin watchedDirs /\ CapReached
  /\ mode' = "failed"
  /\ walk' = NoWalk
  /\ UNCHANGED <<diskVars, live, queueVars, watchedDirs, syncVars, hand, index>>

(* Mutant of Subdirs: the walk does not descend. *)
NoSubdirs(d) == {}

Subdirs(d) == {c \in exists \ {Root} : Parent[c] = d}

(* Mutant of Found: files that are there already are not recorded. *)
NothingFound(d) == {}

(* Files the walk records, in a directory that is new to a running watcher. *)
Found(d) == IF walk.mark THEN {f \in onDisk : DirOf[f] = d} ELSE {}

(* os.ReadDir: subdirectories are visited, files recorded. *)
WalkRead ==
  /\ walk.at # NoDir
  /\ walk' = [walk EXCEPT !.todo = @ \cup Subdirs(walk.at), !.at = NoDir]
  /\ dirty' = dirty \cup Found(walk.at)
  /\ UNCHANGED <<diskVars, live, queueVars, watchedDirs, mode, sync, startup, hand, index>>

(* The walk is over.  Start's is followed by the startup reconciliation. *)
WalkDone ==
  /\ Walking /\ walk.at = NoDir /\ walk.todo = {}
  /\ walk' = NoWalk
  /\ mode' = "running"
  /\ startup' = IF mode = "starting" THEN Files ELSE startup
  /\ UNCHANGED <<diskVars, live, queueVars, watchedDirs, dirty, sync, hand, index>>

-----------------------------------------------------------------------------
(* handleFSNotifyEvent: what the path is now decides, not what it was. *)

(* A directory: a new one is walked, any other event on it is ignored. *)
HandleDirEvent(event) ==
  /\ event.path \in exists
  /\ walk' = IF event.op = "create" THEN WalkFrom(event.path, TRUE) ELSE NoWalk
  /\ UNCHANGED dirty

(* A file, or nothing at all: the path is a hint, a rename makes it the marker. *)
HandleHint(event) ==
  /\ event.path \notin exists
  /\ dirty' = dirty \cup {IF event.op = "rename" THEN WholeTree ELSE event.path}
  /\ UNCHANGED walk

HandleFSNotifyEvent ==
  /\ Active /\ ~Walking
  /\ queue # <<>>
  /\ queue' = Tail(queue)
  /\ HandleDirEvent(Head(queue)) \/ HandleHint(Head(queue))
  /\ UNCHANGED <<diskVars, live, overflow, watchedDirs, mode, sync, startup, hand, index>>

(* readEvents receives the overflow error instead, and stops the watcher. *)
NativeError ==
  /\ Active /\ ~Walking
  /\ overflow
  /\ mode' = "failed"
  /\ UNCHANGED <<diskVars, live, queueVars, watchedDirs, walk, syncVars, hand, index>>

-----------------------------------------------------------------------------
(* Reconciliation: the one of Start, and the ones flush starts. *)

(* A file is read; what was read is stored later, and the file may have changed. *)
LookAt(f) ==
  /\ hand[f] = "nothing"
  /\ hand' = [hand EXCEPT ![f] = IF f \in onDisk THEN "current" ELSE "absent"]

(* The index takes over what was read of the file. *)
Keep(f) ==
  /\ hand[f] # "nothing"
  /\ index' = [index EXCEPT ![f] = hand[f]]
  /\ hand' = [hand EXCEPT ![f] = "nothing"]

StartupRead(f) ==
  /\ Active
  /\ f \in startup
  /\ LookAt(f)
  /\ UNCHANGED <<diskVars, live, queueVars, watchVars, syncVars, index>>

StartupStore(f) ==
  /\ Active
  /\ f \in startup
  /\ Keep(f)
  /\ startup' = startup \ {f}
  /\ UNCHANGED <<diskVars, live, queueVars, watchVars, dirty, sync>>

(* flush takes all hints; SyncFiles expands directories before it takes idx.mu. *)
SyncBegin ==
  /\ Active /\ ~Walking
  /\ sync.pc = "idle" /\ dirty # {}
  /\ sync' = [NoSync EXCEPT !.pc = "begun", !.batch = dirty]
  /\ dirty' = {}
  /\ UNCHANGED <<diskVars, live, queueVars, watchVars, startup, hand, index>>

(* expandSyncCandidates: a directory stands for its files, on disk or tracked. *)
SyncExpand ==
  /\ sync.pc = "begun"
  /\ sync' = [sync EXCEPT
       !.pc = "reading",
       !.files = IF WholeTree \in sync.batch THEN Files
                 ELSE (sync.batch \cap Files) \cup
                      UNION {In(d) \cap (onDisk \cup Tracked) : d \in sync.batch \cap exists},
       !.missing = IF WholeTree \in sync.batch THEN {} ELSE (sync.batch \cap Dirs) \ exists]
  /\ UNCHANGED <<diskVars, live, queueVars, watchVars, dirty, startup, hand, index>>

(* One candidate is read ... *)
SyncRead(f) ==
  /\ sync.pc = "reading" /\ startup = {}
  /\ f \in sync.files
  /\ LookAt(f)
  /\ UNCHANGED <<diskVars, live, queueVars, watchVars, syncVars, index>>

(* ... and extracted, or deleted ... *)
SyncStore(f) ==
  /\ sync.pc = "reading" /\ startup = {}
  /\ f \in sync.files
  /\ Keep(f)
  /\ sync' = [sync EXCEPT !.files = @ \ {f}]
  /\ UNCHANGED <<diskVars, live, queueVars, watchVars, dirty, startup>>

(* ... or reading or storing it fails. *)
SyncFails(f) ==
  /\ sync.pc = "reading" /\ startup = {}
  /\ f \in sync.files
  /\ sync' = [sync EXCEPT !.files = @ \ {f}, !.failed = TRUE]
  /\ hand' = [hand EXCEPT ![f] = "nothing"]
  /\ UNCHANGED <<diskVars, live, queueVars, watchVars, dirty, startup, index>>

(* A hint that is no file in the index: deleteTrackedPrefix, if it is not a
   directory by now. *)
SyncMissing(d) ==
  /\ sync.pc = "reading" /\ startup = {}
  /\ d \in sync.missing
  /\ sync' = [sync EXCEPT !.missing = @ \ {d}]
  /\ index' = [f \in Files |-> IF d \notin exists /\ f \in In(d) THEN "absent" ELSE index[f]]
  /\ UNCHANGED <<diskVars, live, queueVars, watchVars, dirty, startup, hand>>

(* Mutant of SyncDone: a failed batch is forgotten. *)
SyncDropped ==
  /\ sync.pc = "reading" /\ ~Walking
  /\ sync.files = {} /\ sync.missing = {}
  /\ sync' = NoSync
  /\ UNCHANGED <<diskVars, live, queueVars, watchVars, dirty, startup, hand, index>>

(* Back in flush, under fw.mu: a failed batch stays dirty. *)
SyncDone ==
  /\ sync.pc = "reading" /\ ~Walking
  /\ sync.files = {} /\ sync.missing = {}
  /\ dirty' = IF sync.failed THEN dirty \cup sync.batch ELSE dirty
  /\ sync' = NoSync
  /\ UNCHANGED <<diskVars, live, queueVars, watchVars, startup, hand, index>>

-----------------------------------------------------------------------------
DiskNext ==
  \/ \E f \in Files : WriteFile(f) \/ RemoveFile(f)
  \/ \E d \in Dirs : \E ds \in SUBSET Below[d], fs \in SUBSET In(d) : AddDir(d, ds, fs)
  \/ \E d \in Dirs, op \in {"change", "rename"} : RemoveDir(d, op)

WatchNext ==
  \/ \E d \in Dirs : WalkAdd(d) \/ WalkFails(d)
  \/ WalkRead \/ WalkDone
  \/ HandleFSNotifyEvent \/ NativeError

SyncNext ==
  \/ \E f \in Files : StartupRead(f) \/ StartupStore(f) \/ SyncRead(f) \/ SyncStore(f) \/ SyncFails(f)
  \/ \E d \in Dirs : SyncMissing(d)
  \/ SyncBegin \/ SyncExpand \/ SyncDone

Next == DiskNext \/ WatchNext \/ SyncNext

Spec == Init /\ [][Next]_vars

-----------------------------------------------------------------------------
(* Properties. *)

(* Types; the files on disk hang together, a watch is on a directory that is
   there, and no more paths are watched than the cap allows. *)
TypeOK ==
  /\ exists \subseteq Dirs /\ Root \in exists
  /\ \A d \in exists : Parent[d] \in exists
  /\ onDisk \subseteq Files /\ \A f \in onDisk : DirOf[f] \in exists
  /\ gone \subseteq Dirs /\ ops \in 0..MaxOps
  /\ live \subseteq watchedDirs \cap exists
  /\ queue \in Seq([op : {"create", "change", "rename"}, path : Dirs \cup Files])
  /\ Len(queue) <= QueueCap /\ overflow \in BOOLEAN
  /\ watchedDirs \subseteq Dirs /\ Cardinality(watchedDirs) <= MaxDirWatches
  /\ mode \in {"starting", "running", "failed"}
  /\ walk \in [on : BOOLEAN, todo : SUBSET Dirs, at : Dirs \cup {NoDir}, mark : BOOLEAN]
  /\ dirty \subseteq Dirs \cup Files \cup {WholeTree}
  /\ sync \in [pc : {"idle", "begun", "reading"}, batch : SUBSET (Dirs \cup Files \cup {WholeTree}),
               files : SUBSET Files, missing : SUBSET Dirs, failed : BOOLEAN]
  /\ startup \subseteq Files
  /\ index \in [Files -> {"absent", "current", "old"}]
  /\ hand \in [Files -> {"nothing", "absent", "current", "old"}]

(* The watcher runs, and has nothing left to read. *)
CaughtUp == Active /\ ~Walking /\ queue = <<>> /\ ~overflow

(* watchTreeLocked: a watcher that has read every event watches every directory,
   however they came into being around the walk; partial coverage ends it. *)
CoverageIsComplete == CaughtUp => exists \subseteq live

(* Nothing is left to reconcile either. *)
Settled == CaughtUp /\ dirty = {} /\ sync.pc = "idle" /\ startup = {}

(* handleFSNotifyEvent, SyncFiles: when nothing is left to reconcile, the index
   has the present content of every file there is.  No write falls between a
   walk, a watch and an event. *)
IndexShowsDisk == Settled => \A f \in onDisk : UpToDate(f)
=============================================================================
