----------------------------- MODULE BrowserApi -----------------------------
(***************************************************************************)
(* The browser API (browserapi/server.go, graph.go, repository.go): every  *)
(* answer names the revision of the index it was made from.  A revision is *)
(* a digest of the file records, the counts of nodes and edges and the     *)
(* metadata of each store; it is computed from several queries, nothing    *)
(* is locked, and the watcher's syncs write between any two of them.  A    *)
(* request compares the revision it was asked for when it begins, reads    *)
(* what it needs, and compares again before it answers.                    *)
(*                                                                         *)
(* One request is under way at a time: requests only read.  Every file has *)
(* one symbol, and a calling content refers to the symbols of the other    *)
(* files of its store.  Left out: the credential and the origin, paths,    *)
(* ranking, limits (the limits of `graph` are in module GraphTraversal),   *)
(* and errors of the store.                                                *)
(***************************************************************************)
EXTENDS Integers, FiniteSets

CONSTANTS
  Files, Contents, NoFile,  \* contents of files, and no file, record or node
  Calling,                  \* contents that refer to the other symbols of the store
  LastStore,                \* stores are 1..LastStore, in the order of their keys
  StoreOf,                  \* the store of each file
  MaxEdits, MaxStamps       \* bounds: changes of files and of metadata

ASSUME ApiBounds ==
  /\ NoFile \notin Contents /\ Calling \subseteq Contents
  /\ LastStore \in Nat \ {0} /\ StoreOf \in [Files -> 1..LastStore]
  /\ MaxEdits \in Nat /\ MaxStamps \in Nat

VARIABLES
  disk,             \* the working tree
  rec, nodes,       \* per file: the content of its record, and of its node
  edges,            \* resolved references, as pairs of files
  stamp,            \* the metadata of each store, as the number of times it changed
  job,              \* the sync: which file it stores, with what content, and how far
  op, target,       \* the request, and the file whose symbol or content it wants
  at, store,        \* which query comes next, on which store
  confirming,       \* the revision is computed for the second time
  pending,          \* graph: neighbours to be looked up, with what names them
  draft,            \* the revision being put together
  asked,            \* the revision the client knows and asks for
  seen,             \* what the answer is made of, as pairs of file and content
  reply,            \* how the last request ended
  edits,            \* number of changes so far
  left, back,       \* history: records changed since they were read; changed and back
  quiet             \* history: nothing was written since a request for the true revision

indexVars   == <<rec, nodes, edges, stamp, job>>
requestVars == <<op, target, at, store, confirming, pending, draft, asked, seen, reply, back>>
vars == <<disk, edits, indexVars, requestVars, left, quiet>>

FilesOf(s) == {f \in Files : StoreOf[f] = s}
EdgesOf(s) == {e \in edges : StoreOf[e[1]] = s}
NodesOf(s) == {f \in FilesOf(s) : nodes[f] # NoFile}
Stores == 1..LastStore

AnyFile == CHOOSE f \in Files : TRUE
NoJob == [file |-> NoFile, content |-> NoFile, step |-> "none", incoming |-> {}]
NoRevision == [files |-> [f \in Files |-> NoFile],
               counts |-> [s \in Stores |-> <<0, 0>>],
               meta |-> [s \in Stores |-> -1]]

(* snapshotIndex, as if it were one query: the digest of the whole index. *)
TrueRevision ==
  [files |-> rec,
   counts |-> [s \in Stores |-> <<Cardinality(NodesOf(s)), Cardinality(EdgesOf(s))>>],
   meta |-> stamp]

(* An index that shows the working tree; every content is a calling one.   *)
Init ==
  /\ disk \in [Files -> Calling] /\ rec = disk /\ nodes = disk
  /\ edges = {e \in Files \X Files : /\ e[1] # e[2] /\ disk[e[1]] \in Calling
                                     /\ StoreOf[e[1]] = StoreOf[e[2]]}
  /\ stamp = [s \in Stores |-> 0] /\ job = NoJob
  /\ op = "none" /\ target = AnyFile /\ at = "idle" /\ store = 1
  /\ confirming = FALSE /\ pending = {}
  /\ draft = NoRevision /\ asked = NoRevision
  /\ seen = {} /\ reply = "none" /\ edits = 0
  /\ left = {} /\ back = {} /\ quiet = FALSE

-----------------------------------------------------------------------------
(* The user and the sync of the watcher, transaction by transaction.  The  *)
(* whole protocol of a sync is module IndexSync.                           *)

Edit(f, c) ==
  /\ edits < MaxEdits /\ c # disk[f]
  /\ disk' = [disk EXCEPT ![f] = c] /\ edits' = edits + 1
  /\ UNCHANGED <<indexVars, requestVars, left, quiet>>

(* What a transaction of the index does to the history. *)
Written(f) == left' = left \cup {f} /\ quiet' = FALSE

(* Mutant of Cascaded: edges from other files outlive the node they join.  *)
OwnEdgesCascaded(f) == {e \in edges : e[1] # f}

Cascaded(f) == {e \in edges : f \notin {e[1], e[2]}}

(* DeleteFile, after the incoming edges have been captured; a file without *)
(* a record has nothing to delete.                                         *)
SyncDelete(f) ==
  /\ job.step = "none" /\ disk[f] # rec[f]
  /\ rec' = [rec EXCEPT ![f] = NoFile]
  /\ nodes' = [nodes EXCEPT ![f] = NoFile]
  /\ edges' = Cascaded(f)
  /\ job' = IF disk[f] = NoFile THEN NoJob
            ELSE [file |-> f, content |-> disk[f], step |-> "deleted",
                  incoming |-> {e \in edges : e[2] = f}]
  /\ IF rec[f] = NoFile THEN UNCHANGED <<left, quiet>> ELSE Written(f)
  /\ UNCHANGED <<disk, edits, stamp, requestVars>>

SyncNodes ==
  /\ job.step = "deleted"
  /\ nodes' = [nodes EXCEPT ![job.file] = job.content]
  /\ job' = [job EXCEPT !.step = "nodes"]
  /\ quiet' = FALSE
  /\ UNCHANGED <<disk, edits, rec, edges, stamp, requestVars, left>>

SyncRecord ==
  /\ job.step = "nodes"
  /\ rec' = [rec EXCEPT ![job.file] = job.content]
  /\ job' = [job EXCEPT !.step = "recorded"]
  /\ Written(job.file)
  /\ UNCHANGED <<disk, edits, nodes, edges, stamp, requestVars>>

(* Resolution of the file's references, and the edges captured before. *)
SyncEdges ==
  /\ job.step = "recorded"
  /\ edges' = edges \cup job.incoming
       \cup {e \in {job.file} \X NodesOf(StoreOf[job.file]) :
               e[2] # job.file /\ job.content \in Calling}
  /\ job' = NoJob
  /\ quiet' = FALSE
  /\ UNCHANGED <<disk, edits, rec, nodes, stamp, requestVars, left>>

(* A refresh or rebuild stamps one store after the other. *)
Stamp(s) ==
  /\ stamp[s] < IF s = 1 THEN MaxStamps ELSE stamp[s - 1]
  /\ stamp' = [stamp EXCEPT ![s] = @ + 1]
  /\ quiet' = FALSE
  /\ UNCHANGED <<disk, edits, rec, nodes, edges, job, requestVars, left>>

Sync == SyncNodes \/ SyncRecord \/ SyncEdges \/ \E f \in Files : SyncDelete(f)

-----------------------------------------------------------------------------
(* Requests. *)

Ops == {"repository", "tree", "file", "symbol", "search", "graph"}
Unwritten == <<disk, edits, indexVars>>

(* The client asks with the revision it knows; at first it knows none, and *)
(* a client that was told of a conflict asks for the repository again.     *)
Begin(o, f) ==
  /\ at = "idle"
  /\ o \in {"repository", "tree", "search"} => f = AnyFile
  /\ o # "repository" <=> (asked # NoRevision /\ reply # "conflict")
  /\ op' = o /\ target' = f
  /\ at' = "files" /\ store' = 1 /\ confirming' = FALSE
  /\ pending' = {} /\ seen' = {} /\ draft' = NoRevision
  /\ reply' = "none" /\ back' = {} /\ left' = {}
  /\ quiet' = (asked = TrueRevision)
  /\ UNCHANGED <<Unwritten, asked>>

Ends(r) == at' = "idle" /\ reply' = r

(* snapshotIndex, query by query: GetAllFiles, GetStats, GetAllMetadata of *)
(* each store.                                                             *)
ReadFiles ==
  /\ at = "files"
  /\ draft' = [draft EXCEPT !.files = [f \in Files |-> IF f \in FilesOf(store) THEN rec[f] ELSE @[f]]]
  /\ at' = "stats"
  /\ IF confirming
       THEN /\ back' = back \cup {f \in FilesOf(store) \cap left : rec[f] = asked.files[f]}
            /\ UNCHANGED left
       ELSE left' = left \ FilesOf(store) /\ UNCHANGED back
  /\ UNCHANGED <<Unwritten, op, target, store, confirming, pending, asked, seen, reply, quiet>>

ReadStats ==
  /\ at = "stats"
  /\ draft' = [draft EXCEPT !.counts[store] = <<Cardinality(NodesOf(store)), Cardinality(EdgesOf(store))>>]
  /\ at' = "meta"
  /\ UNCHANGED <<Unwritten, op, target, store, confirming, pending, asked, seen, reply, back, left, quiet>>

FirstQuery == CASE op = "tree" -> "confirm" [] op = "file" -> "content"
                [] op = "search" -> "names"  [] OTHER -> "node"

(* Mutant of Digest: what `repository` answers was put together too early. *)
EarlyDigest == IF op = "repository" THEN draft ELSE [draft EXCEPT !.meta[store] = stamp[store]]

Digest == [draft EXCEPT !.meta[store] = stamp[store]]

(* The digest is complete with the last store.  validRevision compares it  *)
(* with what was asked for, and so does ensureCurrentRevision: the first   *)
(* comparison has found the two equal.                                     *)
ReadMeta ==
  /\ at = "meta"
  /\ LET revision == Digest IN
     IF store < LastStore
       THEN /\ draft' = revision /\ store' = store + 1
            /\ at' = "files" /\ UNCHANGED <<asked, reply>>
       ELSE /\ draft' = NoRevision /\ store' = 1
            /\ asked' = IF op = "repository" THEN revision ELSE asked
            /\ CASE op = "repository" -> Ends("repository")
                 [] op # "repository" /\ revision # asked -> Ends("conflict")
                 [] op # "repository" /\ revision = asked ->
                      IF confirming THEN Ends("ok") ELSE at' = FirstQuery /\ UNCHANGED reply
  /\ UNCHANGED <<Unwritten, op, target, confirming, pending, seen, back, left, quiet>>

(* getFile: the file on disk has to have the hash of the record. *)
ReadContent ==
  /\ at = "content"
  /\ CASE asked.files[target] = NoFile -> Ends("notfound") /\ UNCHANGED seen
       [] disk[target] # asked.files[target] -> Ends("stale") /\ UNCHANGED seen
       [] OTHER -> /\ seen' = {<<target, disk[target]>>}
                   /\ at' = "confirm" /\ UNCHANGED reply
  /\ UNCHANGED <<Unwritten, op, target, store, confirming, pending, draft, asked, back, left, quiet>>

(* findNode, of getSymbol and of the graph's root. *)
ReadNode ==
  /\ at = "node"
  /\ IF nodes[target] = NoFile
       THEN Ends("notfound") /\ UNCHANGED seen
       ELSE /\ seen' = {<<target, nodes[target]>>}
            /\ at' = IF op = "graph" THEN "outgoing" ELSE "confirm"
            /\ UNCHANGED reply
  /\ UNCHANGED <<Unwritten, op, target, store, confirming, pending, draft, asked, back, left, quiet>>

(* search: SearchNodes of one store after the other. *)
ReadNames ==
  /\ at = "names"
  /\ seen' = seen \cup {<<f, nodes[f]>> : f \in NodesOf(store)}
  /\ at' = IF store < LastStore THEN "names" ELSE "confirm"
  /\ store' = IF store < LastStore THEN store + 1 ELSE 1
  /\ UNCHANGED <<Unwritten, op, target, confirming, pending, draft, asked, reply, back, left, quiet>>

(* graph: the edges of the symbol, and then the node at their other end.   *)
(* An edge tells of the content that its source had.                       *)
ReadEdges ==
  /\ at \in {"outgoing", "incoming"}
  /\ pending' = pending \cup
       {<<IF at = "outgoing" THEN e[2] ELSE e[1], e[1], nodes[e[1]]>> :
          e \in {e \in edges : target = IF at = "outgoing" THEN e[1] ELSE e[2]}}
  /\ at' = IF at = "outgoing" THEN "incoming" ELSE "neighbours"
  /\ UNCHANGED <<Unwritten, op, target, store, confirming, seen, draft, asked, reply, back, left, quiet>>

(* An edge whose other end is gone is left out. *)
ReadNeighbour(p) ==
  /\ at = "neighbours" /\ p \in pending
  /\ pending' = pending \ {p}
  /\ seen' = IF nodes[p[1]] = NoFile THEN seen
             ELSE seen \cup {<<p[1], nodes[p[1]]>>, <<p[2], p[3]>>}
  /\ UNCHANGED <<Unwritten, op, target, at, store, confirming, draft, asked, reply, back, left, quiet>>

(* Mutants of Confirm: the answer is not compared with the index again; it *)
(* is compared with the last store alone.                                  *)
ConfirmNothing ==
  /\ at = "confirm" \/ (at = "neighbours" /\ pending = {})
  /\ Ends("ok")
  /\ UNCHANGED <<Unwritten, op, target, store, confirming, draft, pending, asked, seen, back, left, quiet>>
ConfirmLastStore ==
  /\ at = "confirm" \/ (at = "neighbours" /\ pending = {})
  /\ at' = "files" /\ store' = LastStore /\ confirming' = TRUE /\ draft' = NoRevision
  /\ UNCHANGED <<Unwritten, op, target, pending, asked, seen, reply, back, left, quiet>>

(* ensureCurrentRevision begins. *)
Confirm ==
  /\ at = "confirm" \/ (at = "neighbours" /\ pending = {})
  /\ at' = "files" /\ store' = 1 /\ confirming' = TRUE /\ draft' = NoRevision
  /\ UNCHANGED <<Unwritten, op, target, pending, asked, seen, reply, back, left, quiet>>

Query == \/ ReadFiles \/ ReadStats \/ ReadMeta \/ ReadContent \/ ReadNode
         \/ ReadNames \/ ReadEdges \/ Confirm
         \/ \E p \in pending : ReadNeighbour(p)
Request == Query \/ \E o \in Ops, f \in Files : Begin(o, f)

-----------------------------------------------------------------------------
Next ==
  \/ \E f \in Files, c \in Contents \cup {NoFile} : Edit(f, c)
  \/ \E f \in Files : SyncDelete(f)
  \/ SyncNodes \/ SyncRecord \/ SyncEdges
  \/ \E s \in Stores : Stamp(s)
  \/ Request

Spec == Init /\ [][Next]_vars

(* The sync is called again until the index shows the disk, and a request  *)
(* goes on.  The client, here, asks again and again.                       *)
FairSpec == Spec /\ WF_vars(Sync) /\ WF_vars(Request)

-----------------------------------------------------------------------------
(* Everything is of its type, and edges join symbols that are there. *)
TypeOK ==
  /\ disk \in [Files -> Contents \cup {NoFile}]
  /\ rec \in [Files -> Contents \cup {NoFile}] /\ nodes \in [Files -> Contents \cup {NoFile}]
  /\ edges \subseteq {e \in Files \X Files : nodes[e[1]] # NoFile /\ nodes[e[2]] # NoFile}
  /\ seen \subseteq Files \X Contents

(* An answer tells of every file the revision lists exactly what the       *)
(* revision lists, unless the file was indexed anew and back again between *)
(* the two comparisons: then the digests are equal and something else was  *)
(* read in between (ensureCurrentRevision).                                *)
AnswersMatchRevision ==
  reply = "ok" => \A p \in seen : asked.files[p[1]] \in {p[2], NoFile} \/ p[1] \in back

(* Nobody is told that the revision has changed when nothing was written   *)
(* since it was read: the digest depends on the index and on nothing else. *)
NoFalseConflict == reply = "conflict" => ~quiet

(* A client that reads the repository again after each conflict gets its   *)
(* answers, once the files are left alone.                                 *)
ClientIsServed == []<>(reply \in {"ok", "notfound"})
=============================================================================
