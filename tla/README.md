# Codegrapher in TLA+

Codegrapher indexes the source files of a project into SQLite graphs and keeps
them fresh: a watcher turns file system events into reconciliations, an owner
reports whether the index is current, a lock file keeps two writers apart, and
a background daemon runs all of it for the user.  What is indexed is made by
language walkers over syntax trees and by a resolver that matches names; what is
asked is answered by bounded walks over the stored graph.  The modules here
specify that machinery, as the Go code does it, and check and prove what it
promises.

The paths below are relative to `src/`; `spec/...` names the repository's own
feature specification, whose requirements several properties quote.

## 1. The system

| Part | State | Operations | What makes it correct |
|---|---|---|---|
| **File watcher** (`watch/watcher.go`) | `eventSeq`, `completedEventSeq`, the whole-tree marker `fullReconcileEventSeq`, `pendingFiles`, the debounce timer and its sequence, `syncing`, `ready`, `stopped`, `stopDone`, `fatalErr`, `fatalCh` | events from fsnotify, walks of new directories, timers, `flush`, `Drain`, `StartWithError`, `Stop`, `finishStop`, `reportFatal` | no accepted event is forgotten or left without a wakeup; a drain means what it says; a stop joins everything and cannot deadlock |
| **Directory coverage** (`watchTreeLocked`, `handleFSNotifyEvent`) | `watchedDirs`, the kernel's watches and event queue | walk, event, native error | a watcher that claims to be active sees every directory; what is indexed converges to what is on disk |
| **Freshness owner** (`freshness/owner.go`) | `watchReady`, `indexCurrent`, the open index, the watcher | `Start`, `observe`, `Status`, `Wait`, `Close` | "current" is only reported when it is true; failures end the service; the index outlives its writers |
| **Index write lock** (`lock/lock.go`) | a PID file | `Acquire`, `Release` | one writer; orphans are reclaimed |
| **Daemon** (`daemon/*.go`) | `state.json`, `start.lock`, `lifetime.lock`, the daemon's memory | the commands start, stop, restart, status; `Run` | one daemon, always reachable; stop leaves none; start means ready |
| **Indexer** (`indexer/*.go`) | one store per scope, version stamp, Git HEAD certificate | `Sync`, `SyncFiles`, `IndexAll`, `Rebuild`, `RefreshForRead` | an incremental sync ends where a clean index would, after errors and crashes too |
| **Graph store** (`store/*.go`) | nodes, edges, files, unresolved references | one SQL transaction per call | foreign keys, cascades |
| **Extraction** (`internal/extract`, `internal/tsparse`) | per file: `nodes`, `edges`, `unresolvedRefs`, `nodeStack`, `seenNodeIDs`, `dartPendingMember` | one handler per kind of syntax node, in each of twenty-six languages | nothing hangs from a node that was not made; calls and members belong to the innermost declaration around them |
| **Resolution** (`resolve`) | edges and unresolved references of the stores | `Resolve`: match references, interfaces, overrides; consume the references | nothing is guessed among equals; near declarations win; heuristic edges are complete |
| **Queries** (`query`, `mcp/backend.go`, `browserapi/graph.go`, `internal/cli/path.go`) | none of their own | bounded walks over the stored graph | what is found is there, and what is there is found up to the limit |
| **Browser API** (`browserapi`) | none of its own; the client keeps a revision | repository, tree, file, symbol, search, graph | an answer is of the one revision it names |
| Semantic and trace graphs (`semantic`, `trace`) | projections of the stores | rebuilt by each sync | a function of the extracted graph |
| Coverage (`coverage`) | none | parse, encode ranges, attribute, merge | pure algorithms over line ranges |
| MCP tools (`mcp`), command line (`internal/cli`) | none of their own | read the stores, format answers | |
| Snapshots (`snapshot`) | files in a repository | export, import | one conversion at a time |

How they interact: fsnotify's channels feed the watcher's reader goroutine; the
reader records events under `fw.mu` and arms a timer; the timer's goroutine
calls `flush`, which calls the indexer (`SyncFiles`, or `Sync` for a whole tree)
outside the mutex; the indexer takes its own mutex and then the lock file, which
other processes take as well; the results go to the owner's `observe`, outside
the watcher's mutex; the daemon runs one owner and tells other processes about
it through `state.json` and a loopback endpoint.  A sync extracts each changed
file on its own, stores the result in several transactions, and then lets the
resolver turn the stored references of all files into edges; readers (the MCP
server, the browser API, the command line) query the stores meanwhile.

What is hard: five kinds of goroutine meet in the watcher, two of its three
interesting states (a fired timer that waits for the mutex, a flush between two
critical sections) last for microseconds; `Stop` may be called from any of the
goroutines it joins; a watch is established on a tree that changes meanwhile;
each system call of the lock file may be followed by somebody else's; the three
writers of `state.json` share no lock; every process may die anywhere; a reader
of the stores is between two statements when the indexer commits; a walker that
pushes one scope too few moves every call below it to another function.
`PROJECT.json` lists the hazards line by line, with the properties that answer
them.

## 2. The modules

    GenerationLedger          what a watcher promises about generations
         ^  implements (checked and proved)
    FileWatcher               watch/watcher.go            FreshnessProofs
         ^  EXTENDS
    Freshness                 freshness/owner.go, with the whole watcher
                                                          FreshnessProofs

    WatchTree                 watch/watcher.go, indexer/sync.go, the file system
                                                          WatchTreeProofs
    FileLock                  lock/lock.go                IndexSyncProofs
    IndexSync                 indexer/{sync,init,store}.go, store/, resolve/resolve.go
                                                          IndexSyncProofs
    Daemon                    daemon/{manager,service,state,lock}.go
                                                          DaemonProofs

    SyntaxTree                internal/tsparse, and the steps walkers are made of
         ^  EXTENDS
    ScriptWalkers, SystemWalkers, ObjectWalkers, FunctionalWalkers
         ^  EXTENDS           internal/extract/walk_*.go
    Extraction                internal/extract/extract.go
                                                          ExtractionProofs

    ResolutionRules           resolve/*.go: which node a name stands for
         ^  EXTENDS
    Resolution                resolve/resolve.go: Resolve, sync after sync
                                                          ResolutionProofs

    GraphTraversal            mcp/backend.go, browserapi/graph.go, internal/cli/path.go
                                                          GraphTraversalProofs
    BrowserApi                browserapi/{server,repository,graph}.go
                                                          BrowserApiProofs

Each has an `MC` module with the constants TLC needs.  A definition whose
comment says "Mutant of" belongs to no specification: it is a plausible bug in
the definition after it, kept to show that some property would notice.

### GenerationLedger and FileWatcher

`GenerationLedger` is the contract between the watcher and those who rely on
its counters: events are accepted one generation at a time, completion moves to
a generation no accepted event up to which is still owed, and only a stop starts
again from zero.

`FileWatcher` has one action per critical section of `fw.mu` and per step
between two of them.

| Code | Actions |
|---|---|
| `readEvents`, `handleChange`, `recordPendingLocked`, `markWholeTreeDirtyLocked` | `HandleChange`, with `RecordPending` (path, storm, or under the marker) and `ScheduleSync` |
| `watchTreeLocked` of a new directory, which keeps `fw.mu` | `WalkRecord`, `WalkEnd`; `MuFree` is false meanwhile |
| `reportFatal` and the observation before it | `NativeError`, `ObserveWatcherError`, `ReportFatal`, `SendFatal`, `StopAfterFatal` |
| `time.AfterFunc` and `flush` | `TimerFires`, `FlushStale`, `FlushWhileSyncing`, `FlushBegin`, `ObserveStarted`, `FlushRecheck`, `SyncSucceeds`, `SyncFails`, `ObserveResult` |
| `StartWithError`, `Stop`, `finishStop` | `Start`, `StartFails`, `Stop`, `FinishStop` |
| `Drain` | `DrainCall`, `DrainCheck`, `DrainCancelled` |

`StartWithError` locks `fw.mu` twice, once to look at `stopDone` and once to start, and
is one step here.  Between the two nothing of the watcher runs, because `finishStop` has
joined all of it before it clears `stopDone`, and nobody stops it, because
`freshness.Start` does not return the owner before the watcher runs.

A timer is `none`, `armed`, or `fired`: its goroutine runs and waits for the
mutex.  A fired timer that a newer one replaced is counted in `staleTimers`.
`unabsorbed` is a history variable: the accepted events that no successful flush
that could have seen them has covered.  The properties relate the code's
counters to it.

### Freshness

The owner composed with the watcher: the watcher's actions that call back are
conjoined with what `observe` does, the owner's `Start` and `Close` call the
watcher's actions, and the rest of the watcher runs unchanged.  `Status` reads in
three critical sections (the dirty state, the flags, `IsActive`), which are three
actions, so that events, results and stops may come between.

### WatchTree

Directories and files that appear and go while `watchTreeLocked` enters them one
by one.  fsnotify is external: a watch belongs to one directory and ends with
it, events come in order, a full queue becomes an error.  Generations and retries
are FileWatcher's, so here the accepted hints are a set, and a failed batch goes
back into it.  `SyncFiles` is modelled as far as hints become an index: expansion
of directories, per-file compare, and `deleteTrackedPrefix`.  A file is read in one step
and stored in a later one (`hand` is what was read and not stored yet), so that it may
change in between; several files may be read before the first is stored, as the workers
of `extractAndStore` do.  The code reads a changed file twice, for its hash and for
extraction, and stores what the second read saw: the two are one read here, and are
apart in IndexSync, where the record's hash matters.

### FileLock

Every system call of `Acquire` and `Release` is an action: stat, read, stat
again, the signal-0 probe, remove, exclusive create, write, read, unlink.  Lock
files are numbered, so that a remove by path can hit a newer file than the one
that was judged (`trespass`), and the age rule can hit the file of a live
process (`expired`).  Both are history variables; the repository acknowledges
both (`KNOWN-BUGS.md` D-1), and the properties say that nothing else goes wrong.
`Release` reads the file and unlinks it by path as well, and what it hits between the two
is a `trespass` too: that window, which D-1 does not name, is excluded, not checked.

### IndexSync

One writer's sync as the sequence of its SQL transactions, in one scope, and a
reader's `RefreshForRead` beside it.  `rec`, `nodes`, `edges` and `unresolved` are
the four tables; cascades are part of the operators that delete (`DeleteFile`,
`InsertNodes`, because a node is inserted with `INSERT OR REPLACE`).

| Code | Actions |
|---|---|
| `Sync`, `SyncFiles`: lock, invalidated stamp, comparison, removals | `Called`, `Compare`, `CompareFails` |
| `captureIncomingEdges`, `restoreIncomingEdges` | `Compared`, `Restore` |
| `Rebuild`, `Store.Clear`, `indexAllLocked` | `Called`, `ClearRefs`, `ClearEdges`, `ClearNodes`, `ClearFiles`, `Scan` |
| `extractOne`, `extractAndStore`, `storeExtractionResult` | `Read`, `StoreNothing`, `StoreDelete`, `StoreNodes`, `StoreRefs`, `StoreRecord`, `StoreFails` |
| `resolveAll`, `Resolve` | `Extracted`, `Resolve`, `ClearReferences` |
| `refreshForRead`, `changedFilesForRead`, `markGitHeadIfCurrent` | `Refresh`, `Inspect`, `RefreshFiles`, `RefreshBusy`, `Mark`, `ReaderLeaves` |
| errors of the store, a process that dies | `StoreError`, `Crash` |

A content is a model value that may define its file's symbol, in a way that has a name
(`Definition`: its kind, qualified name, signature, return type and type parameters), and
may refer to other files' symbols; that is all resolution can tell of it.  An edge
remembers the definition it leads to, and `Restore` puts it back only if the file
defines the symbol in that way again (`IsBack`).  `touched`, `quiet`,
`before`, `tried` and `torn` are history variables.  `Inspect` looks at the stamp,
the revisions and the files in one step, and the real one in several: the
properties about refreshes speak of those nobody disturbs.

### Daemon

Commands are processes that take `start.lock`, read `state.json`, probe
`lifetime.lock` by taking it, ask the endpoint, launch, wait, kill and write; the
daemon is `Run`, from its one try for the lock to its last write.  A read and a
rename of `state.json` are one step each, and nothing ties them together.
SIGKILL, crashes of daemons and of commands end a process anywhere, and the
operating system drops its locks.  `orphaned` marks the one window nobody can
close: a command that dies between the launch and the daemon's lock.

### Extraction and the walkers

A syntax tree is a record of its kind, its text as a sequence of names, its
place, its line, its field and its named children.  A walker's handler at a node
is the sequence of steps the Go function takes there: visit a child, declare (a
`createNode`, with the steps that follow only if it returns a node), refer, take
steps inside of a scope (a push, the steps, and the pop), enter one for good.  `Extraction` takes the steps one at a time, so that each sees the nodes
and the stack that the ones before it have left, as the code does.

| Code | Actions |
|---|---|
| `walkPython`, `visitNodePython`, ... of twenty-six languages | `VisitNode`, by `Handler` |
| `createNode`, its two early returns, `buildQualifiedName` | `CreateNode`, `CreateNothing` |
| `append(e.unresolvedRefs, ...)` | `AddReference` |
| `nodeStack` pushed, and popped after what is inside | `GoInside`, `LeaveNode` |
| `nodeStack` pushed for the rest of the file (`extractPerlPackage`, a file-scoped C# namespace); `walkPerl` at a package statement | `EnterNode`, `ResetStack` |
| `addReceiverContains` (Go, Rust, Swift) | `AddContains` |
| `dartPendingMember` | `SetPending` |

The four walker modules have one operator per `extract...` function:
`ScriptWalkers` (Python, Lua, Bash, Ruby, Perl, R, Julia, PowerShell, SQL),
`SystemWalkers` (C, Rust, C++, Objective-C, Go as `go/ast` gives it),
`ObjectWalkers` (PHP, TypeScript and JavaScript, Java, C#, Kotlin, Swift, Dart),
`FunctionalWalkers` (Scala, Elixir, Erlang, Haskell, F#).  What the code does by
recursion over a tree (`Walk`, the unfolding of lists in lists) is a function of the
depth here, up to `Height`, so that it can be proved about; `ProgramsAssumption` says
that a program's tree is what such a walk from its root comes by.  `ConstantNames`,
`Capitalized` and `Builtin` stand for tests on the spelling of names.

### ResolutionRules and Resolution

`ResolutionRules` is the matching of one reference by the rules of its file's
language, for all of them: candidate sets, proximity, ambiguity guards, what a
receiver is taken to be.  A rule yields a set of at most one edge, empty where
the code returns nil.  `Resolution` is `Resolve` around it, one transaction per
action (`InsertResolved`, `InsertImplements`, `InsertOverrides`,
`ClearUnresolved`, `Fails` before any of them), in a store that syncs extract into
(`Sync`, with the incoming edges that are put back).  The tables are sets of rows;
`row` is SQLite's rowid, on which the code depends where it reads without an order.
`ProjectAssumption` says what extraction guarantees of a file's content: owners and
places of references are symbols of the file, and names are not empty
(`insertNode` skips such nodes).  Two symbols of one kind, name and line share an id,
and the table keeps the last of them.

### GraphTraversal

Five walks, each over every small graph: `getImpactRecursive`, the type
hierarchy (`stack`), the breadth-first subgraph, the browser's neighbourhood and
the call path (`queue`, `next`).  Each is compared with reachability, stated
without a queue, over the same graph: `Reached(S, R, k)`, what `k` steps of a relation
`R` reach from `S`.  A graph is a set of rows of the `edges` table, so that two rows may
tell the same (`Shown`: ends, kind and place), which nothing forbids.  A query with a
LIMIT returns any of the rows (`Rows`), and the neighbourhood counts what it has not seen
yet.  For the subgraph a depth of 0 is none at all (`MaxDepth`), a limit of 0 is 1000
(`MaxNodes`), and only edges of the wanted kinds are followed (`Followed`).

### BrowserApi

A client that asks with the revision it knows, the queries of each request, and
the confirming digest, against an indexer that deletes, inserts and records files
and changes metadata, one transaction at a time, between any two of them.
`left` and `back` are history variables for the one exception: a record that
changed and came back between two digests.

## 3. What is checked

| Run | Bounds | Shows |
|---|---|---|
| `watcher` | 2 paths, storm threshold 2, 4 events per session, 2 sessions, 2 stale timers, 2 late observers | safety of the watcher, and that it implements the ledger |
| `freshness` | 1 path, threshold 1, 3 events | watching and current implies current; the index outlives its writers; a failed watcher stays stopped; dirty events are absorbed; `Start` and every stop return |
| `freshness_current` | as above, 2 events | **violated**: after a failure during startup, `Status` reports a current index although accepted events were dropped |
| `tree` | root, d, d/e, g; a file in d and one in d/e; 3 watches; queue of 2; 4 operations; every path used once | complete coverage and fresh contents |
| `file_lock` | 2 processes, 3 lock files, 2 crashes | one holder, named at the path; orphans are reclaimed |
| `index` | 2 files, one refers to the other's symbol; 4 contents, 2 signatures, 2 revisions; 2 changes of the working tree, 1 crash or error | what a record vouches for; edges survive where the signature stays; a sync and a full scan end as on disk |
| `index_fresh` | 2 changes, none during a refresh; only refreshes, no faults | **violated**: a file restored to HEAD after a refresh is not noticed |
| `browser` | 2 files in 2 stores, a calling and another content, 2 changes, 1 change of metadata | an answer is of its revision; no conflict without a write; a client that asks again is served |
| `traversal` | 4 symbols, of which 2 may contain others; every graph of up to 2 to 4 edges of the kinds that matter to the walk, in a neighbourhood or a path also with one of them twice; depths 0 to 3, small limits and, for the subgraph, none | soundness and completeness of the answers up to the limits, that paths are paths, and the limits themselves |
| `resolution` | 29 small projects of 3 files in 2 directories, in 27 languages; 2 syncs with a change each, 1 failure at any transaction | calls through unknown receivers are not bound to one of several methods; an own declaration comes first; interface and override edges are complete after a complete resolution |
| `extraction` | every file of two constructs, on one line or on two, of each of 26 languages: 2840 files | references and edges have ends; calls and members are those of the innermost declaration |
| `daemon` | 2 concurrent commands, 2 launches, 1 crash of any process | the state leads to the owner; stop leaves no daemon; the lifecycle never goes back |

Besides these there are configurations of the same modules that end in a
counterexample and are kept to show it (section 5): `MCFreshnessWait.cfg`
(`FailureIsReported`), `MCWatchTreeRecreate.cfg` (`IndexShowsDisk` with paths used
again), `MCIndexSyncParity.cfg` (`CleanParity`), `MCIndexSyncCallers.cfg` (`CallersSurvive`),
`MCGraphTraversalTwins.cfg` (`TruncationIsTold`), `MCDaemonStart.cfg`
(`StartWaits`), `MCResolutionExtends.cfg` (`ExtendsReachesTheBase`),
`MCResolutionStale.cfg` (`ImplementsIsStructural`), `MCResolutionTwice.cfg`
(`DuplicatesAreDropped`), `MCResolutionInherited.cfg`
(`InheritedMembersAreFound`), `MCExtractionErlang.cfg` (`ReferencesHaveSources` of
one more file).

Why the bounds are enough.

- *Watcher.*  With threshold 2 the third event of a batch is the storm, the
  fourth arrives under the marker; two sessions show what a stop leaves to the
  next start; two stale timers and two observers let a second replaced timer and
  a second late result overlap with the first.  The invariants relate one event
  to the counters, so two paths tell "mine" from "another's".  What the
  invariants say is proved for all values besides.
- *Freshness.*  One path is enough, because the owner never looks at paths; three
  events give a batch, its follow-up, and one that arrives between two reads of
  `Status`.
- *WatchTree.*  A chain of two directories under the root has every position a
  walk can be in relative to a change (above, at, below); a sibling lets the cap
  of 3 be reached at start and in the middle of a walk; a queue of 2 overflows.
- *FileLock.*  Two processes suffice for every pair of system calls; three lock
  files give one that is judged, its successor, and one more.  Again the
  invariants are proved for any number.
- *IndexSync.*  An edge needs two files; the callee has two contents that define
  its symbol alike (an edge that must survive the change), one with another signature
  (an edge that is lost) and one that does not define it.  Two
  changes fall anywhere in a sync, or in two.  One fault is a crash or error at
  any transaction, and the syncs after it show whether it was repaired.
- *BrowserApi.*  Two stores let a commit fall between two statements of one
  digest; an edge joins two files of one store; two changes are one away and one
  back, which is the case the digest cannot see.
- *GraphTraversal.*  Four symbols give a root, two ways to a third, and one
  beyond the limit; all graphs are tried, so every order of edges, every cycle
  and every container is.  One row that is there twice, with a limit of one edge or more,
  is the case in which the row that would tell of more is used up.
- *Resolution.*  One file asks, one in its directory and one elsewhere have what
  it asks for, which is what proximity and ambiguity tell apart; the change
  between two syncs makes a name appear, move or go.  Names are imported one by one,
  in Kotlin all at once; a line of Go may register one route twice.
- *Extraction.*  The constructs of a language are nested where its walker looks
  into them and where it does not, so that most files have three or four levels;
  two constructs suffice for what one leaves behind for the next (a stack, a
  pending member, with the body of a getter after the method it belongs to, a type that a receiver names, a name that is taken on the
  line).
- *Daemon.*  Every race in question is between two commands and one daemon, or
  one command and two generations of daemon.

`CHECK_DEADLOCK FALSE` stands where the system may really stop: an owner that is
closed, a watcher that has failed for good and a disk nobody changes any more, a
lock whose processes are used up by `MaxLocks`, commands that wait for a launch
`MaxStarts` does not allow, a file that has been walked, a question that has been
answered, a client whose `MaxEdits` changes are used up.

### Fairness

Weak fairness is on what a goroutine or process does when it can: the scheduler
runs it, a timer fires, a callback returns, a system call returns.  Strong
fairness is on two things.  `SyncSucceeds`: a reconciliation that is retried
again and again is not refused the lock for ever.  `OwnerLocks`: a goroutine
that waits for `o.mu` gets it although `Status` may be polled without pause,
because a `sync.Mutex` hands itself over to a starving waiter.  Nobody has to
start, stop, cancel, write a file or come back to life, and in `FileLock` no
process has to try again once it is dead.  In `BrowserApi` the indexer and the
request under way go on, and the client asks again.

`EventuallyAbsorbed` depends on the bound on events: a burst that never pauses
for as long as the debounce window pushes the timer back for ever, in the code
too.

## 4. What is proved

For all values of the constants, under the named assumptions of the modules:
bounds are natural numbers (`BoundsAreNatural`, `LockBounds`), no process is
called `NoPid` (`PidsAreNamed`), commands, daemons and `Nobody` are different
(`DaemonBounds`), directories form a finite tree (`TreeIsATree`: `Below` is
transitive, closed under parents, and nothing but the root is above itself),
symbols and rows are finitely many and a question is of its type, a neighbourhood's
depth and limits not 0, as the browser's parameters are checked (`GraphBounds`), and those of `IndexSync` and `BrowserApi` about contents, stores and bounds.

**FreshnessProofs, the watcher.**  The invariants of the `watcher` run, its action property
and the refinement.  The argument has four layers, each inductive relative to
the ones before it.

1. `Typing`: `TypeOK` with three facts about idleness (a flush that does not run
   holds nothing, a reader lives only while the watcher is ready, a watcher that
   is not ready has accepted nothing).
2. `Coverage`: `NoEventForgotten` is not inductive, because it says nothing about
   a flush that is about to clear what it captured.  `BatchCovers` does: every
   unabsorbed event up to the captured generation is covered by the captured
   paths or marker.  With `MarkerReplacesPaths` and the fact that an unabsorbed
   event has been accepted, the four are inductive, and `DrainIsSound` follows.
3. `Wakeup`: `NoLostWakeup`, `EveryFlushHasWork`, and between them `TimerHasWork`:
   a timer is only armed when something is dirty.
4. `StepQuiet`: `StoppedIsQuiet` on top of `Typing`.

`WatcherImplementsLedger` maps `FlushBegin ... SyncSucceeds` to the ledger's
`Complete`, events to `Accept`, `FinishStop` to `Reset`, everything else to a
stutter; it needs `Coverage` for `Complete`.

**IndexSyncProofs, the write lock.**  `LockTypeOK`, `MutualExclusion` and `HolderIsNamed`, from
`LockInv`: `OwnFile` (a lock file and its maker know each other), `WhatWasSeen` (what
a process remembers of a file is that file's maker), `Condemned` (a file that is
about to be removed belongs to nobody alive, unless it aged or was replaced), and
`Owned` (a holder's file is at the path).  `Condemned` is the heart: it carries
the judgement of `handleExistingLock` over the calls between the probe and the
remove.

**IndexSyncProofs.**  The five invariants of the `index` run, from one
invariant: `Shape` (types, and a job's fields in each of its phases), `Keys`
(edges and references belong to nodes that are there), `Jobs` (what a sync holds
in memory between two transactions), `RecordedIsStored`, `Progress` (which files of
a batch are done, and with what content), `Refreshing` (what a reader has found
out), and `Loopless`, `EdgesAreKept`, `EdgesAreRebuilt` about the edges that a
sync takes out and puts back: a backed-up edge is in the table at the end, if its target
has a definition that `IsBack` accepts.  `Progress` is why `RecordedIsStored` survives a
crash: between `StoreDelete` and `StoreRecord` the file has no record.

**FreshnessProofs, the owner.**  The watcher's actions run inside the owner's, so its
invariant is carried over, and four parts are added: `OwnerTypes`, `Owned` (which
of the watcher's states go with a phase of `Start` and `Close`), `Life` (the index
is open while anything may write to it) and `Reporting` (what `Status` has read so
far, and what has changed since).  `HealthIsTrue` and `IndexClosesLast` follow.

**BrowserApiProofs.**  `AnswersMatchRevision` and `NoFalseConflict`.  An answer is
protected in three phases, one conjunct of `ApiInv` each.  While the first revision
is computed, a file that was read is as the draft says or has been left by the index
since (`FirstReading`); while the answer is put together the same holds of the
revision the client asked for (`Answering`); what was read under that condition
agrees with the revision for good, or its file is one the second computation will
find changed, or changed and back (`Protected`).  `NoFalseConflict` needs only that a
draft put together while nothing is written is the revision (`DraftIsTrue`).

**WatchTreeProofs.**  `CoverageIsComplete` and `IndexShowsDisk` when no path is used
again (`~Recreate`; with paths used again both are false, section 5).  Neither is
inductive: both speak of a watcher that has nothing left to read.  `Watching` says of
every moment that a directory is watched, or below one the walk has yet to visit
(`OnTheWay`), or below one whose creation is in the queue (`Announced`), unless an
event was lost.  `Indexing` says that a file the index shows wrongly, or will because an
earlier content of it has been read and not stored yet (`Fresh`), is excused: it is dirty,
to be read by a reconciliation, in one that has failed, announced, or in a directory the
walk has yet to read (`Coming`).  `Hands` says whose the unstored contents are.

**DaemonProofs.**  `TypeOK`, `OwnerIsReachable`, `StopLeavesNoDaemon` and the action
property `LifecycleMovesForward`, for any number of commands, launches and crashes.
`Serial`: whoever may change anything has `start.lock`.  `Births`: a daemon between
boot and exit has `lifetime.lock`, and where a launch is goes with where its daemon
is.  `Deserted` is the heart: a command that took `lifetime.lock` for a moment
(`daemonLockHeld`) knows that nobody is there, and as long as it has `start.lock`
nobody comes but the daemon it launches.  So nobody but the owner writes
`state.json` while there is one (`StateIsOwned`), although the writes themselves are
not guarded.  All of it stops at a command that dies while its daemon boots
(`orphaned`), which is the exception the properties name.

**GraphTraversalProofs.**  Everything the `traversal` run checks.  `WalkInv` comes
first: what a walk still has to do stems from what it has found (a call on the stack
holds edges of a found symbol, a queue holds found symbols, the trail of a path is made
of calls), which gives `LimitsHold` and that no answer has an edge without its ends.
`AnswerIsSound`, `AnswerIsComplete` and `PathIsTrue` compare the answer with a
reference, `Reached`, that is a recursive function, and need one invariant per walk:

- *Impact, hierarchy* (`ImpactInv`, `HierarchyInv`): of every edge that waits on no call
  of the stack (`Unread`), what it leads to has been expanded, if where it comes from has;
  a call on the stack is about a symbol affected at its depth (`AffectedFrames`), or of
  the lineage walked (`LineageFrames`).
- *Subgraph* (`SubgraphInv`): the queue is sorted by depth and spans two levels at most;
  everything as near as the symbol being expanded is visited or in the queue.
- *Neighbourhood* (`NeighbourInv`): unless the answer is truncated, it has the levels
  done and the frontier of the next one, with every edge of what has left the frontier,
  or more edges than the limit are pending already: that is what the one row more than
  the limit is for (`MostRows`).  It needs that no symbol within the depth is `Crowded`,
  that is, has more rows than its query returns and two that tell the same: the code does
  leave an edge out there (section 5, 12), and `AnswerIsComplete` excepts it.
- *Path* (`PathInv`): the hops of the trail are distances; all that is nearer than the
  symbol being expanded is found, unless the limits forbid that anything more is
  (`Spent`); unless something was left out, the calls of whatever has left the queue are
  followed.

At the end of a walk its invariant leaves a set that has the root and the next step of
whatever it has, and such a set has all that can be reached (`ClosedHasAll`).  The facts
about `Reached`, that it is defined at all (`Iteration`), grows, and stops at
`Far = Cardinality(Nodes)` (`FarIsClosed`), are induction over the natural numbers,
stated for sets of numbers and proved from their well-foundedness (`LeastNumber`,
`Induction`).

**ResolutionProofs.**  The three invariants of the `resolution` run, for any files,
any contents that keep to `ProjectAssumption`, any test of spelling (`Words`,
`Capitals`, ...) and any number of syncs and failures.  The rules come first, as
lemmas about one reference and the nodes as they are: every rule yields edges of that
reference and none that says what contains what (`ResolvedIsPlain`); a bare name the
file itself defines leads into the file, in each language and whatever kinds its rule
looks for (`ResolvedIsOwn`); a call on a variable leads to the variable's class
(`ClassKnown`), or where there is none to the only callable of the name
(`ClassUnknown`, by the cardinality of a finite set).  `ResolutionInv` then carries
them over the tables:

- `NodesHold`: nodes are the symbols of the contents and an id is one node, so that an
  edge's ends and a reference's place mean something.
- `EdgesHold`: both ends of every edge are nodes, through `Insert`, the cascade and
  `Restored`.
- `ReferencesHold`, `ReceiversHold`: an edge that a call on a variable led to remembers
  its reference and starts where that was made.  This is what makes
  `ReceiversAreNotGuessed` inductive: an edge is only put back when its source was
  not deleted, so the variable is still what it was (`InferStays`), and only to a symbol
  of the same qualified name.
- `HeuristicsHold`: when the implements edges are inserted, and after them the
  overrides, all that the tables ask for is there (`ImplementsStand`, `OverridesStand`),
  because neither insertion changes who has which methods (`InsertEdgesHold`).

**ExtractionProofs.**  `ReferencesHaveSources` of every file in 25 of the 26 languages,
whatever its size and nesting (`NothingDangles`).  Erlang is excluded because its walker
breaks the property (section 5, 11); it is the only one.  What a handler is about to do
is data in the model, so the invariant speaks of the future: a step is *good* for a set of
nodes if it names nodes of that set only, and what follows a declaration names those and
the declared one (`GoodStep`, stated by the set of all steps below it, because a recursive
definition could not be reasoned about).  There is one lemma for each handler of each
walker: at any node of a tree, with any stack and any nodes of the file so far, its steps
are good.  `IInv` then says that

- the ends of the edges, the sources of the references, the stack and the pending member
  are nodes of the file, not only when the file is walked but at every step;
- every step to come is good for the nodes there are (`Fine`), so a `createNode` that
  returns nil takes with it whatever would have named its node;
- the pops to come have something to pop: they can be numbered, each by the height of the
  stack it leaves behind, and none is left when a package statement resets the stack
  (`Balanced`).

That walks and unfoldings yield nodes of the tree (`WalkInTree`, `RustUsesInTree`, ...)
is induction over the depth, from the same two lemmas as in GraphTraversalProofs.

Only model-checked: all liveness and fairness (the prover has no `ENABLED`),
`FailureEndsCoverage` among them; and two invariants of Extraction, `CallsStayInside` and
`MembersBelongToTheirClass`.  They compare places in the text, so that an inductive
invariant would have to say of every step to come where in the tree its node is relative to
everything on the stack, through every handler of every language, and of what a walker
skips, that there is nothing in it.

## 5. Where the code and its documents disagree

The runs `freshness_current` and `index_fresh` end in a counterexample, and
`PROJECT.json` quotes the lines; so do the other configurations named in
section 3.

1. A watcher that fails during the startup reconciliation resets its
   generations; the drain that follows has nothing to wait for, and the owner
   starts as "current" with accepted events lost (`freshness_current`).
   `HealthyIsCurrent` shows how far this goes: `watchReady /\ IsActive` is false
   in that state, so a reader of both flags is not misled.
2. `Wait` picks up the fatal channel when it is called, and `finishStop` may have
   replaced it by then (`MCFreshnessWait.cfg`).
3. A directory that is removed and created again keeps its entry in
   `watchedDirs` and gets no new watch (`MCWatchTreeRecreate.cfg`).
4. A refresh stamps HEAD on records that may show a dirty working tree.  When
   the tree is restored to HEAD, neither the stamp nor Git gives the file away,
   and later refreshes answer from the discarded content, until some sync looks
   at the file (`index_fresh`).
   `ScannedIsFresh` shows that the comparison itself is sound: a refresh without
   a stamp is fresh.
5. Resolution consumes references that found nothing, so a symbol that appears
   after its users is never connected to them, unless they change
   (`MCIndexSyncParity.cfg`).  `EdgesSurvive` shows what the backups do achieve: an edge
   that was there outlives the re-extraction of its target, as long as the symbol is
   defined as before.  A change of its signature costs the unchanged callers their edges,
   for good, although `sync.go:521-523` says "restore only edges whose definition still
   exists after the update; renames deliberately remain gone" (`MCIndexSyncCallers.cfg`):
   `restoreIncomingEdges` compares signature, return type and type parameters too.
6. A second start joins a daemon that is still starting, and reports success
   (`MCDaemonStart.cfg`).

7. A Python class that extends an imported name gets an `extends` edge to its own
   file's import node, because `resolveGenericRef` takes the nearest node of the
   name, whatever its kind (`MCResolutionExtends.cfg`);
   `docs/superpowers/specs/2026-06-14-python-extraction-design.md:82` says "Class
   → base class".
8. `resolve.go:5003-5006` calls the implements edges structural, but a struct that
   lost a method keeps its edge: the edge was backed up as an incoming edge of
   the interface's file and restored (`MCResolutionStale.cfg`).
9. `store/edges.go:14` promises that duplicates are ignored; the table has no
   constraint by which two edges would be duplicates (`MCResolutionTwice.cfg`).
10. Inherited members are looked up through extends edges that are inserted only
    after all references of the batch, so a first index misses what
    `resolve.go:3736-3740` promises and a later sync finds
    (`MCResolutionInherited.cfg`).
11. Two Erlang functions of one name and different arity on one line share a node
    identifier; a later clause of the second refers from line 0
    (`erlangFirstClauseLine`), from a node that does not exist, and
    `storeExtractionResult` drops it without a word, because it keeps only the references
    of nodes it has inserted (`store.go:61-98`; `MCExtractionErlang.cfg`).  The files of
    the `extraction` run leave this out.
12. `spec/features/live-daemon-api/README.md:210` promises truthful truncation.  The
    browser's graph asks for one row more than `maxEdges` and collapses rows that tell the
    same; with rows A, A, B and `maxEdges` 1 it has fetched A twice, loses B and says
    that nothing was left out (`MCGraphTraversalTwins.cfg`).  Rows can be twice in the
    table, see 9.

Smaller things met on the way, with no run of their own: `addReceiverContains`
finds only the types that come before the method in the file, so methods above
their struct, or in another file, are not its members, and structural interfaces
miss them (Go, Rust, Swift); in `from a import b` the module `a` is emitted as an
import too, because `child == moduleField` compares two wrappers
(`walk_python.go:242-249`); a second declaration of one kind and name on a line is
dropped with all that is in it (`extract.go:658-667`); C++ methods defined outside
of their class are dropped with their calls (`cDeclaratorName` knows no qualified
name); the blocks of Elixir's `if`, `case` and `for` are not walked
(`walk_elixir.go:383-403`); an F# binding takes what follows it in its block; a
Haskell application to two arguments is two calls; a Dart getter's body belongs to
the class, because only methods set `dartPendingMember`, and the body of a getter that
follows `external int f();` at top level to `f`, whose signature has set
`dartPendingMember` and no body has cleared it (`walk_dart.go:412`; the files of the
`extraction` run leave this out); `pickBestGoNode` says
"same file > same directory > other" (`resolve.go:4753`) and takes the first of
the package; impact to a depth is incomplete where a symbol is first met at the
limit and later on a shorter way; ties between candidates are broken by the order
of rows; in a Java, Kotlin or Scala file that declares no package, a wildcard import
comes before the file's own function of the name (`resolve_jvm.go:232`, the exception
`ShadowedByImports` of `OwnFileComesFirst`); a file that another
reconciliation has indexed before its directory was watched, and that goes before
the watch is added, is reported by nobody and stays in the index; a crash inside
`Clear` leaves records without nodes, which incremental syncs believe (`torn` in
IndexSync); a late result of an
earlier flush leaves `indexCurrent` false although a later one succeeded, until
the next reconciliation; removed directories count against `MaxDirWatches`;
`watchReady` is set without looking whether the watcher has failed meanwhile
(harmless, because `Status` asks `IsActive`); a status command that probes
`lifetime.lock` can make a starting daemon's only try for it fail.

## 6. What is left out

In the modelled parts: times, error texts and counters that only feed
observations; the test-only inert mode of the watcher; ignore rules and symbolic
links; paths that turn from a file into a directory; the project path, the
`degraded` lifecycle and the browser API of the daemon; the Windows process
probe; several scopes, the version gate, policy skips, the stat filter and the
projections of the indexer.

In extraction: signatures, docstrings, visibility, modifiers, qualified names that
a walker gives itself, and the formats that are not programs (go.mod,
package.json, SQLite files, SpecScore artifacts, Go's HTTP routes).  In
resolution: names with two separators, directories of included paths, spelling.
In the queries: symbol lookup and its scoring, the lists of one level.

Not modelled at all: semantic and trace projections, search, formatting, the
choice of source text in the explore, context and node tools, argument parsing
and printing (pure functions of the stores), snapshots (one-shot conversions),
log rotation and file modes (I/O), generated clients.

## 7. Plan

Done: 1 FileWatcher with GenerationLedger, 2 Freshness, 3 WatchTree, 4 FileLock,
5 Daemon, 6 IndexSync, 7 BrowserApi, 8 GraphTraversal, 9 ResolutionRules and
Resolution, 10 Extraction with its walkers, 11 proofs about 1 to 10.

Left, in this order:

12. **IndexSync, the rest**: several scopes with their stamps, the version gate
    with `IndexAll`, `consistent_read`, the stat filter.
13. **CoverageRanges**: range encoding, attribution and merge as functions,
    against reference definitions over bounded inputs.
14. Extraction and Resolution composed: the references of `Extraction` as the
    input of `Resolution`, instead of small projects written by hand.
