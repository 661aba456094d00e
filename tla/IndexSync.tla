----------------------------- MODULE IndexSync ------------------------------
(***************************************************************************)
(* The indexer (indexer/sync.go, init.go, store.go): Sync, SyncFiles and   *)
(* Rebuild bring the store into line with the working tree, one SQL        *)
(* transaction after the other, and RefreshForRead decides from Git what   *)
(* has to be brought into line.  Files are edited, checked out and         *)
(* committed meanwhile, single files fail, and the process may die.        *)
(*                                                                         *)
(* A file's content is what the graph can tell of it: whether it defines   *)
(* its symbol, and how (kind, qualified name, signature, return type, type *)
(* parameters), and whether it refers to the other files' symbols.  An     *)
(* edge is from a file to a definition of another file's symbol here; a    *)
(* content's nodes have IDs of their own (kind, name and line).            *)
(*                                                                         *)
(* The lock file is module FileLock's: one writer at a time, whoever has   *)
(* called it.  Sync is SyncFiles of every file.  Left out: the version     *)
(* gate, several scopes (their revision stamps count only when they agree, *)
(* so they are one stamp here), the projections made after a sync, policy  *)
(* skips, and the stat filter of Sync (a file whose size or time has       *)
(* changed is hashed).                                                     *)
(***************************************************************************)
EXTENDS Naturals, FiniteSets, Functions

CONSTANTS
  Files, Contents,
  NoFile,              \* there is no such file, or no record of it
  Defining, Calling,   \* contents that define the symbol, that refer to the others
  Definition,          \* how each content of Defining defines it: its signature
  Writes,              \* bound: the contents the user may write to each file
  Heads, NoHead,       \* Git revisions, and no stamp
  Tree,                \* the content of each file in each revision
  Callers,             \* what others than the reader ask for: "files", "rebuild"
  UserWaits,           \* bound: nobody works on the files during a refresh
  MaxEdits, MaxFaults  \* bounds: changes of the working tree, crashes and failures

ASSUME IndexBounds ==
  /\ NoFile \notin Contents /\ NoHead \notin Heads
  /\ Defining \subseteq Contents /\ Calling \subseteq Contents
  /\ DOMAIN Definition = Defining
  /\ Writes \in [Files -> SUBSET Contents]
  /\ Tree \in [Heads -> [Files -> Contents \cup {NoFile}]]
  /\ Callers \subseteq {"files", "rebuild"}
  /\ UserWaits \in BOOLEAN /\ MaxEdits \in Nat /\ MaxFaults \in Nat

VARIABLES
  disk, head,       \* the working tree, and Git's HEAD
  edits, faults,    \* number of changes, of crashes and failures so far
  rec,              \* file records: the content (its hash) each file was indexed with
  nodes,            \* the contents whose nodes are in the store
  edges,            \* resolved references: file, file, and definition there
  unresolved,       \* references no resolution has looked at, as pairs of files
  stamp,            \* indexed_git_head, when all stores agree
  pc, call,         \* where the writer is, and what was called
  asked, todo,      \* the candidates, and those it has not compared yet
  changed,          \* filesToIndex, and then the files it has not stored yet
  job,              \* extractJob: the content read of each file, and how far it is stored
  backups,          \* captureIncomingEdges
  indexed, failed,  \* FilesIndexed > 0, and the files with an error
  reader,           \* RefreshForRead: where it is, and the HEAD it has observed
  touched, quiet,   \* history: files changed during the sync; none during the refresh
  before,           \* history: the edges when the sync began
  tried,            \* history: references a resolution has looked at
  torn              \* history: a Clear was cut off by a crash

diskVars  == <<disk, head, edits>>
graphVars == <<rec, nodes, edges, unresolved, tried>>
callVars  == <<call, asked, todo, changed, job, backups, indexed, failed, before>>
vars == <<diskVars, faults, graphVars, stamp, pc, callVars, reader, touched, quiet, torn>>

Calls(f, c) == IF c \in Calling THEN {<<f, g>> : g \in Files \ {f}} ELSE {}
Definitions(f) == {Definition[c] : c \in nodes[f] \cap Defining}
Defined(f)  == Definitions(f) # {}
Touching(f, refs) == {r \in refs : r[1] = f \/ r[2] = f}
Of(f, refs) == {r \in refs : r[1] = f}
Dirty(f)    == disk[f] # Tree[head][f]

NoJobs == [f \in Files |-> [content |-> NoFile, step |-> "unread"]]
NoReader == [pc |-> "idle", head |-> NoHead, scanned |-> FALSE, paths |-> {}]

Init ==
  /\ head \in Heads
  /\ disk = Tree[head]
  /\ edits = 0 /\ faults = 0
  /\ rec = [f \in Files |-> NoFile]
  /\ nodes = [f \in Files |-> {}]
  /\ edges = {} /\ unresolved = {} /\ tried = {}
  /\ stamp = NoHead
  /\ pc = "idle" /\ call = "none"
  /\ asked = {} /\ todo = {} /\ changed = {} /\ job = NoJobs /\ backups = {}
  /\ indexed = FALSE /\ failed = {} /\ before = {}
  /\ reader = NoReader
  /\ touched = {} /\ quiet = TRUE /\ torn = FALSE

-----------------------------------------------------------------------------
(* The user. *)

Works(new) ==
  /\ edits < MaxEdits
  /\ UserWaits => reader.pc = "idle"
  /\ edits' = edits + 1
  /\ disk' = new
  /\ touched' = IF pc = "idle" THEN {} ELSE touched \cup {f \in Files : new[f] # disk[f]}
  /\ quiet' = (reader.pc = "idle")
  /\ UNCHANGED <<faults, graphVars, stamp, pc, callVars, reader, torn>>

(* A file is written, removed, or restored from Git. *)
Edit(f, c) ==
  /\ c # disk[f]
  /\ Works([disk EXCEPT ![f] = c])
  /\ UNCHANGED head

(* git checkout: a dirty file stays if the revisions agree about it. *)
Checkout(h) ==
  /\ h # head
  /\ \A f \in Files : Dirty(f) => Tree[h][f] = Tree[head][f]
  /\ Works([f \in Files |-> IF Dirty(f) THEN disk[f] ELSE Tree[h][f]])
  /\ head' = h

(* git commit. *)
Commit(h) ==
  /\ h # head /\ Tree[h] = disk
  /\ Works(disk)
  /\ head' = h

-----------------------------------------------------------------------------
(* The store. *)

(* Mutant of DeleteFile: nothing is deleted with the nodes. *)
DeleteRows(f) ==
  /\ rec' = [rec EXCEPT ![f] = NoFile]
  /\ nodes' = [nodes EXCEPT ![f] = {}]
  /\ UNCHANGED <<edges, unresolved, tried>>

(* DeleteFile, one transaction: the record, the nodes, and what hangs on them. *)
DeleteFile(f) ==
  /\ rec' = [rec EXCEPT ![f] = NoFile]
  /\ nodes' = [nodes EXCEPT ![f] = {}]
  /\ edges' = edges \ Touching(f, edges)
  /\ unresolved' = unresolved \ Of(f, unresolved)
  /\ tried' = tried \ Of(f, tried)

(* InsertNodes: a node that is there is replaced, and what hung on it goes. *)
InsertNodes(f, c) ==
  /\ nodes' = [nodes EXCEPT ![f] = @ \cup {c}]
  /\ edges' = IF c \in nodes[f] THEN edges \ Touching(f, edges) ELSE edges
  /\ unresolved' = IF c \in nodes[f] THEN unresolved \ Of(f, unresolved) ELSE unresolved
  /\ UNCHANGED tried

-----------------------------------------------------------------------------
(* Sync, SyncFiles, Rebuild: the lock, the stamp, and the comparison. *)

(* Acquire and invalidateGitHead.  A rebuild goes on with Clear. *)
Begin(what, candidates) ==
  /\ pc = "idle"
  /\ stamp' = NoHead
  /\ call' = what
  /\ pc' = IF what = "rebuild" THEN "clear refs" ELSE "compare"
  /\ asked' = candidates /\ todo' = candidates
  /\ before' = edges
  /\ UNCHANGED <<diskVars, faults, graphVars, changed, job, backups, indexed, failed, touched, torn>>

Called(what, candidates) ==
  /\ what \in Callers
  /\ what = "rebuild" => candidates = Files
  /\ candidates # {}
  /\ Begin(what, candidates)
  /\ quiet' = (reader.pc = "idle")
  /\ UNCHANGED reader

frame == <<diskVars, stamp, call, asked, reader, touched, quiet, before>>

Fault == faults < MaxFaults /\ faults' = faults + 1

(* Mutant of IsChanged: only new files are indexed. *)
IsNew(f) == disk[f] # NoFile /\ rec[f] = NoFile

(* There is no record of the file, or it has another hash. *)
IsChanged(f) == disk[f] # NoFile /\ rec[f] # disk[f]

(* A candidate that is gone is deleted, one that has changed is indexed later. *)
Compare(f) ==
  /\ pc = "compare" /\ f \in todo
  /\ todo' = todo \ {f}
  /\ \/ /\ disk[f] = NoFile /\ rec[f] # NoFile
        /\ DeleteFile(f)
        /\ UNCHANGED changed
     \/ /\ disk[f] = NoFile => rec[f] = NoFile
        /\ changed' = IF IsChanged(f) THEN changed \cup {f} ELSE changed
        /\ UNCHANGED graphVars
  /\ UNCHANGED <<frame, faults, pc, job, backups, indexed, failed, torn>>

(* The file cannot be inspected, or not be deleted. *)
CompareFails(f) ==
  /\ pc = "compare" /\ f \in todo
  /\ Fault
  /\ todo' = todo \ {f}
  /\ failed' = failed \cup {f}
  /\ UNCHANGED <<frame, graphVars, pc, changed, job, backups, indexed, torn>>

(* Mutant of Incoming: nothing is kept. *)
NothingIncoming == {}

(* captureIncomingEdges: what unchanged files refer to in changed ones. *)
Incoming == {e \in edges : e[2] \in changed /\ e[1] \notin changed}

(* syncChangedFiles has nothing to do without a changed file. *)
Compared ==
  /\ pc = "compare" /\ todo = {}
  /\ backups' = Incoming
  /\ pc' = IF changed = {} THEN "done" ELSE "extract"
  /\ UNCHANGED <<frame, faults, graphVars, todo, changed, job, indexed, failed, torn>>

(* Clear: four statements, each for itself. *)
Clears(now, next) ==
  /\ pc = now
  /\ pc' = next
  /\ torn' = (next # "scan")
  /\ UNCHANGED <<frame, faults, todo, changed, job, backups, indexed, failed>>

ClearRefs ==
  /\ Clears("clear refs", "clear edges")
  /\ unresolved' = {} /\ tried' = {}
  /\ UNCHANGED <<rec, nodes, edges>>

ClearEdges ==
  /\ Clears("clear edges", "clear nodes")
  /\ edges' = {}
  /\ UNCHANGED <<rec, nodes, unresolved, tried>>

ClearNodes ==
  /\ Clears("clear nodes", "clear files")
  /\ nodes' = [f \in Files |-> {}]
  /\ UNCHANGED <<rec, edges, unresolved, tried>>

ClearFiles ==
  /\ Clears("clear files", "scan")
  /\ rec' = [f \in Files |-> NoFile]
  /\ UNCHANGED <<nodes, edges, unresolved, tried>>

(* ScanDirectory, for the files of a rebuild. *)
Scan ==
  /\ pc = "scan"
  /\ changed' = {f \in Files : disk[f] # NoFile}
  /\ todo' = {}
  /\ pc' = "extract"
  /\ UNCHANGED <<frame, faults, graphVars, job, backups, indexed, failed, torn>>

-----------------------------------------------------------------------------
(* extractAndStore: files are read in batches, and stored one after the other. *)

storeFrame == <<frame, todo, backups, torn>>

At(f, step) == pc = "extract" /\ f \in changed /\ job[f].step = step
Stored(f)   == changed' = changed \ {f} /\ job' = [job EXCEPT ![f] = NoJobs[f]]

(* extractOne; the content parsed is the content of now. *)
Read(f) ==
  /\ At(f, "unread")
  /\ IF disk[f] = NoFile
     THEN Stored(f) /\ failed' = failed \cup {f}
     ELSE /\ job' = [job EXCEPT ![f] = [content |-> disk[f], step |-> "read"]]
          /\ UNCHANGED <<changed, failed>>
  /\ UNCHANGED <<storeFrame, faults, graphVars, pc, indexed>>

(* storeExtractionResult returns at once if the record has this hash already. *)
StoreNothing(f) ==
  /\ At(f, "read") /\ rec[f] = job[f].content
  /\ Stored(f)
  /\ indexed' = TRUE
  /\ UNCHANGED <<storeFrame, faults, graphVars, pc, failed>>

Storing == {f \in changed : job[f].step \notin {"unread", "read"}}

Goes(f, step) ==
  /\ job' = [job EXCEPT ![f].step = step]
  /\ UNCHANGED <<storeFrame, faults, pc, changed, indexed, failed>>

StoreDelete(f) ==
  /\ At(f, "read") /\ rec[f] # job[f].content /\ Storing = {}
  /\ IF rec[f] # NoFile THEN DeleteFile(f) ELSE UNCHANGED graphVars
  /\ Goes(f, "deleted")

(* Mutant of StoreNodes: the record comes with the nodes. *)
StoreNodesAndRecord(f) ==
  /\ At(f, "deleted")
  /\ InsertNodes(f, job[f].content)
  /\ rec' = [rec EXCEPT ![f] = job[f].content]
  /\ Goes(f, "inserted")

StoreNodes(f) ==
  /\ At(f, "deleted")
  /\ InsertNodes(f, job[f].content)
  /\ UNCHANGED rec
  /\ Goes(f, "inserted")

StoreRefs(f) ==
  /\ At(f, "inserted")
  /\ unresolved' = unresolved \cup Calls(f, job[f].content)
  /\ UNCHANGED <<rec, nodes, edges, tried>>
  /\ Goes(f, "referring")

(* UpsertFile, the last step. *)
StoreRecord(f) ==
  /\ At(f, "referring")
  /\ rec' = [rec EXCEPT ![f] = job[f].content]
  /\ Stored(f)
  /\ indexed' = TRUE
  /\ UNCHANGED <<storeFrame, faults, nodes, edges, unresolved, tried, pc, failed>>

(* A read, parse or store error: the next file is tried. *)
StoreFails(f) ==
  /\ pc = "extract" /\ f \in changed
  /\ f \in Storing \/ Storing = {}
  /\ Fault
  /\ Stored(f)
  /\ failed' = failed \cup {f}
  /\ UNCHANGED <<storeFrame, graphVars, pc, indexed>>

-----------------------------------------------------------------------------
(* Resolution, and the end of a sync. *)

FinishFrame == <<frame, rec, nodes, todo, changed, job, backups, indexed, torn>>

(* A rebuild resolves only if every file was indexed. *)
Extracted ==
  /\ pc = "extract" /\ changed = {}
  /\ pc' = CASE call # "rebuild" -> "restore"
             [] call = "rebuild" /\ failed = {} /\ indexed -> "resolve"
             [] OTHER -> "done"
  /\ UNCHANGED <<FinishFrame, faults, edges, unresolved, tried, failed>>

(* The file still has a definition of the same kind, qualified name,          *)
(* signature, return type and type parameters.                                *)
IsBack(e) == e[3] \in Definitions(e[2])

(* restoreIncomingEdges, to what is defined as it was. *)
Restore ==
  /\ pc = "restore"
  /\ edges' = edges \cup {e \in backups : IsBack(e)}
  /\ pc' = IF indexed THEN "resolve" ELSE "done"
  /\ UNCHANGED <<FinishFrame, faults, unresolved, tried, failed>>

(* Resolve: one transaction inserts an edge to one definition for each        *)
(* reference that has one, a second one deletes every reference, resolved or  *)
(* not.                                                                       *)
Resolve ==
  /\ pc = "resolve"
  /\ LET resolved == {r \in unresolved : Defined(r[2])} IN
     \E found \in [resolved -> Range(Definition)] :
       /\ \A r \in resolved : found[r] \in Definitions(r[2])
       /\ edges' = edges \cup {<<r[1], r[2], found[r]>> : r \in resolved}
  /\ pc' = "clear references"
  /\ UNCHANGED <<FinishFrame, faults, unresolved, tried, failed>>

ClearReferences ==
  /\ pc = "clear references"
  /\ unresolved' = {}
  /\ tried' = tried \cup unresolved
  /\ pc' = "done"
  /\ UNCHANGED <<FinishFrame, faults, edges, failed>>

(* An error of the store ends the sync. *)
StoreError ==
  /\ \/ pc \in {"restore", "resolve", "clear references", "scan",
                "clear refs", "clear edges", "clear nodes", "clear files"}
     \/ pc = "compare" /\ todo = {} /\ changed # {}
  /\ Fault
  /\ failed' = Files
  /\ pc' = "done"
  /\ UNCHANGED <<FinishFrame, edges, unresolved, tried>>

Over ==
  /\ pc' = "idle" /\ call' = "none"
  /\ asked' = {} /\ todo' = {} /\ changed' = {} /\ job' = NoJobs /\ backups' = {}
  /\ indexed' = FALSE /\ failed' = {} /\ before' = {} /\ touched' = {}
  /\ UNCHANGED <<diskVars, graphVars, stamp, torn>>

(* Mutant of Outcome: the errors of the sync are not looked at. *)
AlwaysMark == "marking"

(* RefreshForRead gives an error if its sync had one. *)
Outcome == IF failed = {} THEN "marking" ELSE "error"

Return ==
  /\ pc = "done"
  /\ Over
  /\ reader' = IF call = "refresh" THEN [reader EXCEPT !.pc = Outcome] ELSE reader
  /\ UNCHANGED <<faults, quiet>>

(* The writer's process dies, between two transactions. *)
Crash ==
  /\ pc # "idle"
  /\ Fault
  /\ Over
  /\ reader' = IF call = "refresh" THEN NoReader ELSE reader
  /\ quiet' = (quiet \/ call = "refresh")

-----------------------------------------------------------------------------
(* RefreshForRead. *)

readFrame == <<diskVars, faults, graphVars, touched, torn>>

(* It observes HEAD. *)
Refresh ==
  /\ reader.pc = "idle"
  /\ reader' = [NoReader EXCEPT !.pc = "inspecting", !.head = head]
  /\ quiet' = (pc = "idle")
  /\ UNCHANGED <<readFrame, stamp, pc, callVars>>

(* getChangedFilesByScan: every file, and every record. *)
Scanned == {f \in Files : rec[f] # disk[f]}

(* gitChangedFilesSinceIndex: what differs between the revisions, what Git    *)
(* reports, and the records of files Git does not know.                       *)
GitCandidates ==
  {f \in Files : \/ Tree[stamp][f] # Tree[head][f]
                 \/ Dirty(f)
                 \/ Tree[head][f] = NoFile /\ disk[f] = NoFile}

ChangedFiles == IF stamp = NoHead THEN Scanned ELSE Scanned \cap GitCandidates

(* changedFilesForRead.  With no changes there is no sync, and no lock. *)
Inspect ==
  /\ reader.pc = "inspecting"
  /\ reader' = [reader EXCEPT !.pc = IF ChangedFiles = {} THEN "marking" ELSE "changed",
                              !.scanned = (stamp = NoHead),
                              !.paths = ChangedFiles]
  /\ stamp' = IF ChangedFiles = {} THEN stamp ELSE NoHead
  /\ UNCHANGED <<readFrame, pc, callVars, quiet>>

(* SyncFiles, by the reader. *)
RefreshFiles ==
  /\ reader.pc = "changed"
  /\ Begin("refresh", reader.paths)
  /\ reader' = [reader EXCEPT !.pc = "syncing"]
  /\ UNCHANGED quiet

(* The lock is held. *)
RefreshBusy ==
  /\ reader.pc = "changed" /\ pc # "idle"
  /\ reader' = [reader EXCEPT !.pc = "error"]
  /\ UNCHANGED <<readFrame, stamp, pc, callVars, quiet>>

(* markGitHeadIfCurrent, outside the lock. *)
Mark ==
  /\ reader.pc = "marking"
  /\ IF head = reader.head
     THEN stamp' = head /\ reader' = [reader EXCEPT !.pc = "answered"]
     ELSE UNCHANGED stamp /\ reader' = [reader EXCEPT !.pc = "error"]
  /\ UNCHANGED <<readFrame, pc, callVars, quiet>>

ReaderLeaves ==
  /\ reader.pc \in {"answered", "error"}
  /\ reader' = NoReader
  /\ quiet' = TRUE
  /\ UNCHANGED <<readFrame, stamp, pc, callVars>>

-----------------------------------------------------------------------------
User == \/ \E f \in Files : \E c \in Writes[f] \cup {NoFile} : Edit(f, c)
        \/ \E h \in Heads : Checkout(h) \/ Commit(h)

Writer == \/ \E what \in Callers, candidates \in SUBSET Files : Called(what, candidates)
          \/ \E f \in Files : \/ Compare(f) \/ CompareFails(f)
                              \/ Read(f) \/ StoreNothing(f) \/ StoreDelete(f) \/ StoreNodes(f)
                              \/ StoreRefs(f) \/ StoreRecord(f) \/ StoreFails(f)
          \/ ClearRefs \/ ClearEdges \/ ClearNodes \/ ClearFiles \/ Scan
          \/ Compared \/ Extracted \/ Restore \/ Resolve \/ ClearReferences
          \/ StoreError \/ Return \/ Crash

Reader == Refresh \/ Inspect \/ RefreshFiles \/ RefreshBusy \/ Mark \/ ReaderLeaves

Next == User \/ Writer \/ Reader

Spec == Init /\ [][Next]_vars

-----------------------------------------------------------------------------
(* Properties. *)

Exists(refs) == \A r \in refs : nodes[r[1]] # {}

(* Types, and the foreign keys: an edge has nodes at both ends, the definition *)
(* it leads to among them, and an unresolved reference has one.                *)
TypeOK ==
  /\ disk \in [Files -> Contents \cup {NoFile}] /\ head \in Heads
  /\ edits \in 0 .. MaxEdits /\ faults \in 0 .. MaxFaults
  /\ rec \in [Files -> Contents \cup {NoFile}]
  /\ nodes \in [Files -> SUBSET Contents]
  /\ unresolved \cup tried \subseteq Files \X Files
  /\ edges \cup backups \cup before \subseteq Files \X Files \X Range(Definition)
  /\ Exists(edges) /\ Exists(unresolved) /\ \A e \in edges : e[3] \in Definitions(e[2])
  /\ stamp \in Heads \cup {NoHead}
  /\ call \in {"none", "files", "rebuild", "refresh"} /\ (call = "none") = (pc = "idle")
  /\ todo \subseteq asked /\ asked \cup changed \cup failed \cup touched \subseteq Files
  /\ \A f \in Files : job[f].content \in Contents \cup {NoFile}
  /\ reader.head \in Heads \cup {NoHead} /\ reader.paths \subseteq Files

(* A record vouches for its file: whatever was cut off, or has failed, a file *)
(* that is recorded with a content has that content's nodes in the store, and *)
(* each of its references was looked at or still will be.  The next sync      *)
(* skips the file on the strength of the record.  The one exception is a      *)
(* Clear that has not come to its last statement, which deletes the records.  *)
RecordedIsStored ==
  ~torn => \A f \in Files : rec[f] # NoFile =>
             rec[f] \in nodes[f] /\ Calls(f, rec[f]) \subseteq unresolved \cup tried

Joined(refs) == {<<e[1], e[2]>> : e \in refs}

(* A sync costs no edge to a symbol that stays what it was: if f referred to  *)
(* g before it, f was not written meanwhile, both went through, f's record    *)
(* still refers to g's symbol, and g still defines it with the signature the  *)
(* edge had led to, then f has an edge to g at the end, although g may have   *)
(* been deleted and stored anew, and f's references are long gone.  Where the *)
(* signature has changed, the edge is lost (restoreIncomingEdges compares     *)
(* it): CallersSurvive is false.                                              *)
EdgesSurvive ==
  pc = "done" /\ (call = "rebuild" => failed = {}) =>
    \A e \in before :
      /\ e[1] \notin touched /\ {e[1], e[2]} \cap failed = {}
      /\ rec[e[1]] \in Calling /\ e[3] \in Definitions(e[2])
      => <<e[1], e[2]>> \in Joined(edges)

(* The same of every symbol that is still there, as the comment of            *)
(* incomingEdgeBackup has it: edges are restored whose definition still       *)
(* exists after the update (indexer/sync.go:521-523).                         *)
CallersSurvive ==
  pc = "done" /\ (call = "rebuild" => failed = {}) =>
    \A e \in before :
      /\ e[1] \notin touched /\ {e[1], e[2]} \cap failed = {}
      /\ rec[e[1]] \in Calling /\ Defined(e[2])
      => <<e[1], e[2]>> \in Joined(edges)

(* At the end of a sync every candidate that has no error, and that nobody    *)
(* has written meanwhile, is recorded as it is on disk, whatever happened to  *)
(* the other files, and wherever an earlier sync was cut off.                 *)
SyncSeesDisk ==
  pc = "done" => \A f \in asked \ (failed \cup touched) : rec[f] = disk[f]

(* A refresh without a stamp to go by, during which nobody else writes files  *)
(* or the index, answers from an index that shows the working tree.           *)
ScannedIsFresh ==
  reader.pc = "answered" /\ reader.scanned /\ quiet => rec = disk

(* The same of every refresh: RefreshForRead calls itself the strict          *)
(* freshness boundary of symbol consumers (indexer/sync.go:642).              *)
RefreshIsFresh == reader.pc = "answered" /\ quiet => rec = disk

(* An index at rest that has a record of every file, as it is on disk, has    *)
(* the edges a clean index would have                                         *)
(* (spec/features/automatic-index-freshness/README.md:405).                   *)
CleanParity ==
  pc = "idle" /\ rec = disk /\ ~torn =>
    edges = {<<r[1], r[2], Definition[disk[r[2]]]>> :
               r \in {s \in UNION {Calls(f, disk[f]) : f \in Files} : disk[s[2]] \in Defining}}
=============================================================================
