-------------------------- MODULE IndexSyncProofs ---------------------------
(***************************************************************************)
(* What holds of every sync, rebuild and refresh, for any set of files,    *)
(* contents and revisions and any number of edits and faults; and, at the  *)
(* end, of the write lock they are under.                                  *)
(*                                                                         *)
(* Four things carry the proof: what is in the store of a file that is     *)
(* half stored (Jobs), the keys, and what Clear and the edge backups owe   *)
(* them (Keys), where the candidates of a sync are (Progress), and where   *)
(* the edges of its beginning are (EdgesAreKept, EdgesAreRebuilt).         *)
(***************************************************************************)
EXTENDS IndexSync, FileLock, TLAPS

Running == {"compare", "clear refs", "clear edges", "clear nodes", "clear files", "scan",
            "extract", "restore", "resolve", "clear references", "done"}
Steps == {"unread", "read", "deleted", "inserted", "referring"}
Pairs == Files \X Files
Links == Files \X Files \X Range(Definition)

(* Types, of everything. *)
Shape ==
  /\ disk \in [Files -> Contents \cup {NoFile}] /\ head \in Heads
  /\ edits \in 0 .. MaxEdits /\ faults \in 0 .. MaxFaults
  /\ rec \in [Files -> Contents \cup {NoFile}]
  /\ nodes \in [Files -> SUBSET Contents]
  /\ unresolved \subseteq Pairs /\ tried \subseteq Pairs
  /\ edges \subseteq Links /\ backups \subseteq Links /\ before \subseteq Links
  /\ stamp \in Heads \cup {NoHead}
  /\ pc \in Running \cup {"idle"}
  /\ call \in {"none", "files", "rebuild", "refresh"} /\ (call = "none") = (pc = "idle")
  /\ asked \subseteq Files /\ todo \subseteq asked
  /\ changed \subseteq Files /\ failed \subseteq Files /\ touched \subseteq Files
  /\ job \in [Files -> [content : Contents \cup {NoFile}, step : Steps]]
  /\ indexed \in BOOLEAN /\ quiet \in BOOLEAN /\ torn \in BOOLEAN
  /\ reader \in [pc : {"idle", "inspecting", "changed", "syncing", "marking", "answered", "error"},
                 head : Heads \cup {NoHead}, scanned : BOOLEAN, paths : SUBSET Files]

(* How far a file is stored.  Only files that are still to be stored have a
   job; between the deletion of a file and the end of its job there is no
   record of it. *)
Jobs ==
  \A f \in Files :
    /\ job[f].step # "unread" => pc = "extract" /\ f \in changed /\ job[f].content # NoFile
    /\ job[f].step \in {"deleted", "inserted", "referring"} => rec[f] = NoFile
    /\ job[f].step \in {"inserted", "referring"} => job[f].content \in nodes[f]
    /\ job[f].step = "referring" => Calls(f, job[f].content) \subseteq unresolved

(* The foreign keys, with what Clear and the edge backups owe to them. *)
Keys ==
  /\ Exists(edges) /\ Exists(unresolved) /\ \A e \in edges : e[3] \in Definitions(e[2])
  /\ pc = "clear edges" => unresolved = {}
  /\ pc = "clear nodes" => unresolved = {} /\ edges = {}
  /\ backups # {} => pc \in {"extract", "restore", "resolve", "clear references", "done"}
  /\ \A b \in backups : nodes[b[1]] # {} /\ b[1] \notin changed

(* Where the candidates of a sync are.  One that has changed, and that nobody
   has written since, has another record until it is stored. *)
Progress ==
  /\ pc = "idle" => changed = {} /\ touched = {}
  /\ pc \in {"clear refs", "clear edges", "clear nodes", "clear files", "scan"}
       => changed = {} /\ asked = Files /\ call = "rebuild"
  /\ pc \in {"compare", "restore"} => call # "rebuild"
  /\ changed \subseteq asked
  /\ pc = "scan" => \A f \in Files : rec[f] = NoFile
  /\ pc = "compare" =>
       /\ todo \cap changed = {}
       /\ \A f \in asked \ (failed \cup touched) : f \in todo \cup changed \/ rec[f] = disk[f]
       /\ \A f \in changed \ touched : rec[f] # disk[f]
  /\ pc = "extract" =>
       /\ todo = {}
       /\ \A f \in asked \ (failed \cup touched) : f \in changed \/ rec[f] = disk[f]
       /\ \A f \in changed \ touched :
            /\ job[f].step \in {"unread", "read"} => rec[f] # disk[f]
            /\ job[f].step # "unread" => job[f].content = disk[f]
  /\ pc \in {"restore", "resolve", "clear references", "done"} =>
       \A f \in asked \ (failed \cup touched) : rec[f] = disk[f]

(* The one reader, and what a refresh without a stamp has still to do. *)
Refreshing ==
  /\ (call = "refresh") = (reader.pc = "syncing")
  /\ reader.pc # "idle" /\ quiet => (pc = "idle" \/ call = "refresh") /\ touched = {}
  /\ quiet /\ reader.scanned =>
       /\ reader.pc \in {"marking", "answered"} => rec = disk
       /\ reader.pc = "changed" => \A f \in Files \ reader.paths : rec[f] = disk[f]
       /\ reader.pc = "syncing" => \A f \in Files \ asked : rec[f] = disk[f]

Loopless == /\ \A e \in edges \cup backups \cup before : e[1] # e[2]
            /\ \A r \in unresolved : r[1] # r[2]

(* One end of the edge is gone, and this sync will not bring it back. *)
Lost(e) == \/ rec[e[1]] = NoFile /\ e[1] \notin todo \cup changed
           \/ nodes[e[2]] = {} /\ e[2] \notin todo \cup changed

Waiting(e) == indexed /\ <<e[1], e[2]>> \in unresolved
Due(e) == rec[e[1]] \in Calling /\ e[3] \in Definitions(e[2])
There(e) == <<e[1], e[2]>> \in Joined(edges)

(* Where an edge of the beginning is in an incremental sync: in the store, in
   the backups, or among the references of a caller that is stored anew. *)
EdgesAreKept ==
  call \in {"files", "refresh"} => \A e \in before :
    e[1] \notin touched /\ {e[1], e[2]} \cap failed = {} =>
      /\ pc = "compare" => Lost(e) \/ e \in edges
      /\ pc = "extract" => \/ Lost(e) \/ e[1] \in changed \/ rec[e[1]] \notin Calling
                          \/ Waiting(e) \/ e \in backups \/ (e \in edges /\ e[2] \notin changed)
      /\ pc = "restore" => (Due(e) => Waiting(e) \/ e \in backups \cup edges)
      /\ pc = "resolve" => (Due(e) => <<e[1], e[2]>> \in unresolved \/ e \in edges)
      /\ pc \in {"clear references", "done"} => (Due(e) => There(e))

(* A rebuild makes all of them again. *)
EdgesAreRebuilt ==
  call = "rebuild" =>
    /\ pc \in {"clear edges", "clear nodes", "clear files", "scan", "extract", "resolve",
               "clear references"} => tried = {}
    /\ pc \in {"scan", "extract", "resolve", "clear references"} => ~torn
    /\ pc = "extract" /\ ~indexed => \A f \in Files : rec[f] = NoFile
    /\ pc = "clear references" => \A r \in unresolved : Defined(r[2]) => There(r)
    /\ pc = "done" /\ failed = {} => \A e \in before : Due(e) => There(e)

(* The initial states have the types. *)
LEMMA ShapeInit == Init => Shape
<1> SUFFICES ASSUME Init PROVE Shape
  OBVIOUS
<1>1. disk \in [Files -> Contents \cup {NoFile}] /\ edits \in 0 .. MaxEdits /\ faults \in 0 .. MaxFaults
  BY IndexBounds DEF Init
<1>2. job \in [Files -> [content : Contents \cup {NoFile}, step : Steps]]
  BY DEF Init, NoJobs, Steps
<1>3. reader \in [pc : {"idle", "inspecting", "changed", "syncing", "marking", "answered", "error"},
                  head : Heads \cup {NoHead}, scanned : BOOLEAN, paths : SUBSET Files]
  BY DEF Init, NoReader
<1> QED
  BY <1>1, <1>2, <1>3 DEF Init, Shape

(* A pair of files is made of its two files. *)
LEMMA PairsArePairs == \A e \in Pairs : e[1] \in Files /\ e[2] \in Files /\ e = <<e[1], e[2]>>
BY DEF Pairs

(* An edge is of two files and a definition. *)
LEMMA LinksAreLinks ==
  \A e \in Links : e[1] \in Files /\ e[2] \in Files /\ e[3] \in Range(Definition) /\ <<e[1], e[2]>> \in Pairs
BY DEF Links, Pairs

(* What Resolve inserts: an edge to a definition of the file referred to, for
   every reference that has one, and nothing else. *)
LEMMA Resolving ==
  ASSUME Shape, Resolve
  PROVE  /\ edges \subseteq edges' /\ edges' \subseteq Links
         /\ \A e \in edges' \ edges : <<e[1], e[2]>> \in unresolved /\ e[3] \in Definitions(e[2])
         /\ \A r \in unresolved : Defined(r[2]) => \E e \in edges' : e[1] = r[1] /\ e[2] = r[2]
         /\ \A r \in unresolved : Defined(r[2]) => <<r[1], r[2]>> \in Joined(edges')
<1> DEFINE resolved == {r \in unresolved : Defined(r[2])}
<1>1. PICK found \in [resolved -> Range(Definition)] :
        /\ \A r \in resolved : found[r] \in Definitions(r[2])
        /\ edges' = edges \cup {<<r[1], r[2], found[r]>> : r \in resolved}
  BY DEF Resolve
<1>2. \A r \in resolved : r[1] \in Files /\ r[2] \in Files /\ r = <<r[1], r[2]>> /\ found[r] \in Range(Definition)
  BY PairsArePairs DEF Shape
<1>3. edges \subseteq edges' /\ edges' \subseteq Links
  BY <1>1, <1>2 DEF Shape, Links
<1>4. \A e \in edges' \ edges : <<e[1], e[2]>> \in unresolved /\ e[3] \in Definitions(e[2])
  <2> SUFFICES ASSUME NEW e \in edges' \ edges PROVE <<e[1], e[2]>> \in unresolved /\ e[3] \in Definitions(e[2])
    OBVIOUS
  <2>1. PICK r \in resolved : e = <<r[1], r[2], found[r]>>
    BY <1>1
  <2> QED
    BY <2>1, <1>1, <1>2
<1>5. \A r \in unresolved : Defined(r[2]) => \E e \in edges' : e[1] = r[1] /\ e[2] = r[2]
  <2> SUFFICES ASSUME NEW r \in unresolved, Defined(r[2]) PROVE \E e \in edges' : e[1] = r[1] /\ e[2] = r[2]
    OBVIOUS
  <2>1. <<r[1], r[2], found[r]>> \in edges'
    BY <1>1
  <2> QED
    BY <2>1
<1> QED
  BY <1>3, <1>4, <1>5 DEF Joined

(* References are pairs of files. *)
LEMMA CallsArePairs == \A c : \A f \in Files : Calls(f, c) \subseteq Pairs
BY DEF Calls, Pairs

(* What the user does, and what is written is a content. *)
LEMMA UserActs ==
  User => \/ \E f \in Files : \E c \in Contents \cup {NoFile} : Edit(f, c)
          \/ \E h \in Heads : Checkout(h) \/ Commit(h)
<1>1. \A f \in Files : Writes[f] \subseteq Contents
  BY IndexBounds
<1> QED
  BY <1>1 DEF User

(* The user's steps keep the types. *)
LEMMA ShapeUser == Shape /\ User => Shape'
<1> SUFFICES ASSUME Shape, User PROVE Shape'
  OBVIOUS
<1>1. ASSUME NEW new \in [Files -> Contents \cup {NoFile}], Works(new), head' \in Heads
      PROVE  Shape'
  <2>1. edits' \in 0 .. MaxEdits
    BY <1>1, IndexBounds DEF Shape, Works
  <2>2. disk' \in [Files -> Contents \cup {NoFile}] /\ touched' \subseteq Files
    BY <1>1 DEF Shape, Works
  <2> QED
    BY <1>1, <2>1, <2>2 DEF Shape, Works, graphVars, callVars
<1>2. ASSUME NEW f \in Files, NEW c \in Contents \cup {NoFile}, Edit(f, c) PROVE Shape'
  BY <1>1, <1>2 DEF Edit, Shape
<1>3. ASSUME NEW h \in Heads, Checkout(h) PROVE Shape'
  BY <1>1, <1>3, IndexBounds DEF Checkout, Shape
<1>4. ASSUME NEW h \in Heads, Commit(h) PROVE Shape'
  BY <1>1, <1>4 DEF Commit, Shape
<1> QED
  BY <1>2, <1>3, <1>4, UserActs

(* The reader's steps keep the types. *)
LEMMA ShapeReader == Shape /\ Reader => Shape'
<1> SUFFICES ASSUME Shape, Reader PROVE Shape'
  OBVIOUS
<1> USE DEF Shape, readFrame, diskVars, graphVars, callVars
<1>1. CASE Refresh
  BY <1>1 DEF Refresh, NoReader
<1>2. CASE Inspect
  BY <1>2 DEF Inspect, ChangedFiles, Scanned, GitCandidates
<1>3. CASE RefreshFiles
  BY <1>3 DEF RefreshFiles, Begin, Running
<1>4. CASE RefreshBusy \/ Mark
  BY <1>4 DEF RefreshBusy, Mark
<1>5. CASE ReaderLeaves
  BY <1>5 DEF ReaderLeaves, NoReader
<1> QED
  BY <1>1, <1>2, <1>3, <1>4, <1>5 DEF Reader

(* The writer's steps keep the types; the content of a job is one. *)
LEMMA ShapeWriter == Shape /\ Jobs /\ Writer => Shape'
<1> SUFFICES ASSUME Shape, Jobs, Writer PROVE Shape'
  OBVIOUS
<1> USE DEF Shape, frame, storeFrame, FinishFrame, diskVars, graphVars, callVars
<1>0. ASSUME Fault PROVE faults' \in 0 .. MaxFaults
  BY <1>0, IndexBounds DEF Fault
<1>1. ASSUME NEW what \in Callers, NEW candidates \in SUBSET Files, Called(what, candidates) PROVE Shape'
  BY <1>1, IndexBounds DEF Called, Begin, Running
<1>2. ASSUME NEW f \in Files, Compare(f) PROVE Shape'
  BY <1>2 DEF Compare, DeleteFile
<1>3. ASSUME NEW f \in Files, CompareFails(f) PROVE Shape'
  BY <1>3, <1>0 DEF CompareFails
<1>4. ASSUME NEW f \in Files, Read(f) PROVE Shape'
  <2>1. NoJobs[f] \in [content : Contents \cup {NoFile}, step : Steps]
    BY DEF NoJobs, Steps
  <2>2. [content |-> disk[f], step |-> "read"] \in [content : Contents \cup {NoFile}, step : Steps]
    BY DEF Steps
  <2>3. job' \in [Files -> [content : Contents \cup {NoFile}, step : Steps]]
    BY <1>4, <2>1, <2>2 DEF Read, Stored
  <2> QED
    BY <1>4, <2>3 DEF Read, At, Stored
<1>5. ASSUME NEW f \in Files, StoreNothing(f) PROVE Shape'
  BY <1>5 DEF StoreNothing, At, Stored, NoJobs, Steps
<1>6. ASSUME NEW f \in Files, StoreDelete(f) PROVE Shape'
  <2>1. job' \in [Files -> [content : Contents \cup {NoFile}, step : Steps]]
    BY <1>6 DEF StoreDelete, Goes, Steps
  <2>2. /\ rec' \in [Files -> Contents \cup {NoFile}] /\ nodes' \in [Files -> SUBSET Contents]
        /\ edges' \subseteq edges /\ unresolved' \subseteq unresolved /\ tried' \subseteq tried
    BY <1>6 DEF StoreDelete, DeleteFile
  <2>3. UNCHANGED <<disk, head, edits, faults, backups, stamp, pc, call, asked, todo, changed, indexed, failed,
                    before, touched, reader, quiet, torn>>
    BY <1>6 DEF StoreDelete, Goes
  <2> QED
    BY <2>1, <2>2, <2>3
<1>7. ASSUME NEW f \in Files, StoreNodes(f) PROVE Shape'
  <2>1. job[f].content \in Contents
    BY <1>7 DEF StoreNodes, At, Jobs
  <2> QED
    BY <1>7, <2>1 DEF StoreNodes, InsertNodes, Goes, Steps
<1>8. ASSUME NEW f \in Files, StoreRefs(f) PROVE Shape'
  BY <1>8, CallsArePairs DEF StoreRefs, At, Goes, Steps
<1>9. ASSUME NEW f \in Files, StoreRecord(f) PROVE Shape'
  BY <1>9 DEF StoreRecord, At, Stored, NoJobs, Steps
<1>10. ASSUME NEW f \in Files, StoreFails(f) PROVE Shape'
  BY <1>10, <1>0 DEF StoreFails, Stored, NoJobs, Steps
<1>11. CASE ClearRefs \/ ClearEdges \/ ClearNodes \/ ClearFiles
  BY <1>11 DEF ClearRefs, ClearEdges, ClearNodes, ClearFiles, Clears, Running
<1>12. CASE Scan \/ Compared \/ Extracted
  BY <1>12 DEF Scan, Compared, Incoming, Extracted, Running
<1>13. CASE Restore \/ Resolve \/ ClearReferences
  <2>1. edges' \subseteq Links
    BY <1>13, Resolving DEF Restore, ClearReferences
  <2> QED
    BY <1>13, <2>1 DEF Restore, Resolve, ClearReferences, Running
<1>14. CASE StoreError
  <2>1. pc' = "done" /\ failed' = Files /\ faults' \in 0 .. MaxFaults /\ call # "none"
    BY <1>14, <1>0 DEF StoreError, Running
  <2>2. UNCHANGED <<disk, head, edits, rec, nodes, edges, unresolved, tried, backups, stamp, call, asked, todo,
                    changed, job, indexed, before, touched, reader, quiet, torn>>
    BY <1>14 DEF StoreError
  <2>3. pc' \in Running \cup {"idle"} /\ (call' = "none") = (pc' = "idle")
    BY <2>1, <2>2 DEF Running
  <2> QED
    BY <2>1, <2>2, <2>3
<1>15. CASE Return
  BY <1>15 DEF Return, Over, NoJobs, Outcome, Steps, Running
<1>16. CASE Crash
  BY <1>16, <1>0 DEF Crash, Over, NoJobs, NoReader, Steps, Running
<1> QED
  BY <1>1, <1>2, <1>3, <1>4, <1>5, <1>6, <1>7, <1>8, <1>9, <1>10, <1>11, <1>12, <1>13,
     <1>14, <1>15, <1>16 DEF Writer

(* No reference of a file is another file's. *)
LEMMA CallsOfOthers == \A c : \A f \in Files, g \in Files : f # g => Calls(f, c) \cap Of(g, Pairs) = {}
BY DEF Calls, Of

(* What only the writer changes. *)
Graph == <<rec, nodes, unresolved, tried, pc, job, changed, torn>>

(* Every step keeps Jobs: only the job of a file takes its record away
   or gives it one. *)
LEMMA JobsStep == Shape /\ Jobs /\ Next => Jobs'
<1> SUFFICES ASSUME Shape, Jobs, Next PROVE Jobs'
  OBVIOUS
<1> USE DEF Jobs, Shape, frame, storeFrame, FinishFrame, readFrame, diskVars, graphVars, callVars
<1>0. ASSUME UNCHANGED Graph PROVE Jobs'
  BY <1>0 DEF Graph
<1>1. CASE User
  <2>1. UNCHANGED Graph
    BY <1>1 DEF User, Edit, Checkout, Commit, Works, Graph
  <2> QED
    BY <2>1, <1>0
<1>2. ASSUME pc # "extract", pc' # "extract", UNCHANGED job PROVE Jobs'
  BY <1>2
<1>3. CASE Reader
  BY <1>3, <1>0, <1>2 DEF Reader, Refresh, Inspect, RefreshFiles, Begin, RefreshBusy, Mark, ReaderLeaves, Graph
<1>4. ASSUME NEW what \in Callers, NEW candidates \in SUBSET Files, Called(what, candidates) PROVE Jobs'
  BY <1>4, <1>2 DEF Called, Begin
<1>5. ASSUME NEW f \in Files, Compare(f) \/ CompareFails(f) PROVE Jobs'
  BY <1>5, <1>2 DEF Compare, CompareFails
<1>6. ASSUME NEW f \in Files, Read(f) \/ StoreNothing(f) \/ StoreFails(f) PROVE Jobs'
  BY <1>6 DEF Read, StoreNothing, StoreFails, At, Stored, NoJobs
<1>7. ASSUME NEW f \in Files, StoreDelete(f) PROVE Jobs'
  BY <1>7 DEF StoreDelete, At, Goes, DeleteFile, Storing
<1>8. ASSUME NEW f \in Files, StoreNodes(f) PROVE Jobs'
  BY <1>8, CallsOfOthers DEF StoreNodes, At, Goes, InsertNodes, Of
<1>9. ASSUME NEW f \in Files, StoreRefs(f) PROVE Jobs'
  BY <1>9 DEF StoreRefs, At, Goes
<1>10. ASSUME NEW f \in Files, StoreRecord(f) PROVE Jobs'
  BY <1>10 DEF StoreRecord, At, Stored, NoJobs
<1>11. CASE ClearRefs \/ ClearEdges \/ ClearNodes \/ ClearFiles
  BY <1>11, <1>2 DEF ClearRefs, ClearEdges, ClearNodes, ClearFiles, Clears
<1>12. CASE Scan \/ Compared
  BY <1>12 DEF Scan, Compared
<1>13. CASE Extracted \/ Restore \/ Resolve \/ ClearReferences \/ StoreError
  BY <1>13 DEF Extracted, Restore, Resolve, ClearReferences, StoreError
<1>14. CASE Return \/ Crash
  BY <1>14 DEF Return, Crash, Over, NoJobs
<1> QED
  BY <1>1, <1>3, <1>4, <1>5, <1>6, <1>7, <1>8, <1>9, <1>10, <1>11, <1>12, <1>13, <1>14 DEF Next, Writer

(* Every step keeps the keys. *)
LEMMA KeysStep == Shape /\ Jobs /\ Keys /\ Next => Keys'
<1> SUFFICES ASSUME Shape, Jobs, Keys, Next PROVE Keys'
  OBVIOUS
<1> USE DEF Keys, Exists, Definitions, Shape, frame, storeFrame, FinishFrame, readFrame, diskVars, graphVars, callVars
<1>1. CASE User
  BY <1>1 DEF User, Edit, Checkout, Commit, Works
<1>2. CASE Reader
  BY <1>2 DEF Reader, Refresh, Inspect, RefreshFiles, Begin, RefreshBusy, Mark, ReaderLeaves
<1>3. ASSUME NEW what \in Callers, NEW candidates \in SUBSET Files, Called(what, candidates) PROVE Keys'
  BY <1>3 DEF Called, Begin
<1>4. ASSUME NEW f \in Files, Compare(f) \/ CompareFails(f) PROVE Keys'
  BY <1>4 DEF Compare, CompareFails, DeleteFile, Touching, Of, Pairs, Links
<1>5. ASSUME NEW f \in Files, Read(f) \/ StoreNothing(f) \/ StoreFails(f) PROVE Keys'
  BY <1>5 DEF Read, StoreNothing, StoreFails, At, Stored
<1>6. ASSUME NEW f \in Files, StoreDelete(f) PROVE Keys'
  BY <1>6 DEF StoreDelete, At, Goes, DeleteFile, Touching, Of, Pairs, Links
<1>7. ASSUME NEW f \in Files, StoreNodes(f) PROVE Keys'
  BY <1>7 DEF StoreNodes, At, Goes, InsertNodes, Touching, Of, Pairs, Links
<1>8. ASSUME NEW f \in Files, StoreRefs(f) PROVE Keys'
  <2>1. \A r \in Calls(f, job[f].content) : nodes[r[1]] # {}
    BY <1>8 DEF Calls, StoreRefs, At, Jobs
  <2> QED
    BY <1>8, <2>1 DEF StoreRefs, At, Goes
<1>9. ASSUME NEW f \in Files, StoreRecord(f) PROVE Keys'
  BY <1>9 DEF StoreRecord, At, Stored
<1>10. CASE ClearRefs \/ ClearEdges \/ ClearNodes \/ ClearFiles
  BY <1>10 DEF ClearRefs, ClearEdges, ClearNodes, ClearFiles, Clears
<1>11. CASE Scan \/ Compared \/ Extracted
  BY <1>11 DEF Scan, Compared, Incoming, Extracted
<1>12. CASE Restore
  BY <1>12 DEF Restore, IsBack
<1>13. CASE Resolve
  <2>1. UNCHANGED <<nodes, unresolved, backups, changed>> /\ pc' = "clear references" /\ pc = "resolve"
    BY <1>13 DEF Resolve
  <2>2. \A e \in edges' : nodes[e[1]] # {} /\ e[3] \in Definitions(e[2])
    <3> SUFFICES ASSUME NEW e \in edges' \ edges PROVE nodes[e[1]] # {} /\ e[3] \in Definitions(e[2])
      OBVIOUS
    <3>1. <<e[1], e[2]>> \in unresolved /\ e[3] \in Definitions(e[2])
      BY <1>13, Resolving
    <3>2. \A r \in unresolved : nodes[r[1]] # {}
      OBVIOUS
    <3> QED
      BY <3>1, <3>2
  <2> QED
    BY <2>1, <2>2
<1>15. CASE ClearReferences
  BY <1>15 DEF ClearReferences
<1>14. CASE StoreError \/ Return \/ Crash
  BY <1>14 DEF StoreError, Return, Crash, Over
<1> QED
  BY <1>1, <1>2, <1>3, <1>4, <1>5, <1>6, <1>7, <1>8, <1>9, <1>10, <1>11, <1>12, <1>13, <1>14, <1>15 DEF Next, Writer

(* Every step keeps RecordedIsStored: the record goes before the nodes and
   references, and comes after them. *)
LEMMA RecordsStep == Shape /\ Jobs /\ RecordedIsStored /\ Next => RecordedIsStored'
<1> SUFFICES ASSUME Shape, Jobs, RecordedIsStored, Next PROVE RecordedIsStored'
  OBVIOUS
<1> USE DEF RecordedIsStored, Shape, frame, storeFrame, FinishFrame, readFrame, diskVars, graphVars, callVars
<1>0. ASSUME UNCHANGED <<rec, nodes, unresolved, tried, torn>> PROVE RecordedIsStored'
  BY <1>0
<1>1. CASE User
  BY <1>1, <1>0 DEF User, Edit, Checkout, Commit, Works
<1>2. CASE Reader
  BY <1>2, <1>0 DEF Reader, Refresh, Inspect, RefreshFiles, Begin, RefreshBusy, Mark, ReaderLeaves
<1>3. ASSUME NEW what \in Callers, NEW candidates \in SUBSET Files, Called(what, candidates)
      PROVE  RecordedIsStored'
  BY <1>3, <1>0 DEF Called, Begin
<1>4. ASSUME NEW f \in Files, DeleteFile(f), UNCHANGED torn PROVE RecordedIsStored'
  BY <1>4, CallsOfOthers DEF DeleteFile, Of, Pairs
<1>5. ASSUME NEW f \in Files, Compare(f) \/ CompareFails(f) PROVE RecordedIsStored'
  BY <1>5, <1>0, <1>4 DEF Compare, CompareFails
<1>6. ASSUME NEW f \in Files, Read(f) \/ StoreNothing(f) \/ StoreFails(f) PROVE RecordedIsStored'
  BY <1>6, <1>0 DEF Read, StoreNothing, StoreFails
<1>7. ASSUME NEW f \in Files, StoreDelete(f) PROVE RecordedIsStored'
  BY <1>7, <1>0, <1>4 DEF StoreDelete, Goes
<1>8. ASSUME NEW f \in Files, StoreNodes(f) PROVE RecordedIsStored'
  BY <1>8, CallsOfOthers DEF StoreNodes, At, Goes, InsertNodes, Of, Pairs, Jobs
<1>9. ASSUME NEW f \in Files, StoreRefs(f) PROVE RecordedIsStored'
  BY <1>9 DEF StoreRefs, Goes
<1>10. ASSUME NEW f \in Files, StoreRecord(f) PROVE RecordedIsStored'
  BY <1>10 DEF StoreRecord, At, Stored, Jobs
<1>11. CASE ClearRefs \/ ClearEdges \/ ClearNodes \/ ClearFiles
  BY <1>11 DEF ClearRefs, ClearEdges, ClearNodes, ClearFiles, Clears
<1>12. CASE Scan \/ Compared \/ Extracted \/ Restore \/ Resolve \/ StoreError
  BY <1>12, <1>0 DEF Scan, Compared, Extracted, Restore, Resolve, StoreError
<1>13. CASE ClearReferences
  BY <1>13 DEF ClearReferences
<1>14. CASE Return \/ Crash
  BY <1>14, <1>0 DEF Return, Crash, Over
<1> QED
  BY <1>1, <1>2, <1>3, <1>5, <1>6, <1>7, <1>8, <1>9, <1>10, <1>11, <1>12, <1>13, <1>14 DEF Next, Writer

(* What git checkout leaves on disk is a content of every file. *)
LEMMA CheckedOut ==
  ASSUME disk \in [Files -> Contents \cup {NoFile}], NEW h \in Heads
  PROVE  [f \in Files |-> IF Dirty(f) THEN disk[f] ELSE Tree[h][f]] \in [Files -> Contents \cup {NoFile}]
<1>1. Tree[h] \in [Files -> Contents \cup {NoFile}]
  BY IndexBounds
<1> QED
  BY <1>1

(* The next step of a job changes nothing else of any job. *)
LEMMA StepOnly ==
  ASSUME job \in [Files -> [content : Contents \cup {NoFile}, step : Steps]],
         NEW f \in Files, NEW step, Goes(f, step)
  PROVE  /\ job'[f].step = step
         /\ \A g \in Files : job'[g].content = job[g].content /\ (g # f => job'[g].step = job[g].step)
BY DEF Goes

(* Every step keeps Progress. *)
LEMMA ProgressStep == Shape /\ Jobs /\ Progress /\ Next => Progress'
<1> SUFFICES ASSUME Shape, Jobs, Progress, Next PROVE Progress'
  OBVIOUS
<1> USE DEF Progress, Shape, frame, storeFrame, FinishFrame, readFrame, diskVars, graphVars, callVars
<1>1. ASSUME NEW new \in [Files -> Contents \cup {NoFile}], Works(new) PROVE Progress'
  <2>1. UNCHANGED <<rec, pc, call, asked, todo, changed, failed, job>>
    BY <1>1 DEF Works
  <2>2. pc = "idle" => touched' = {}
    BY <1>1 DEF Works
  <2>3. pc # "idle" => touched \subseteq touched' /\ \A f \in Files \ touched' : disk'[f] = disk[f]
    BY <1>1 DEF Works
  <2>4. CASE pc = "idle"
    BY <2>1, <2>2, <2>4
  <2>5. CASE pc # "idle"
    <3>1. touched \subseteq touched' /\ \A f \in Files \ touched' : disk'[f] = disk[f]
      BY <2>3, <2>5
    <3>2. pc = "compare" => Progress'
      BY <2>1, <3>1
    <3>3. pc = "extract" => Progress'
      BY <2>1, <3>1
    <3> QED
      BY <2>1, <2>5, <3>1, <3>2, <3>3
  <2> QED
    BY <2>4, <2>5
<1>2. CASE User
  <2>1. ASSUME NEW f \in Files, NEW c \in Contents \cup {NoFile}, Edit(f, c) PROVE Progress'
    BY <1>1, <2>1 DEF Edit
  <2>2. ASSUME NEW h \in Heads, Checkout(h) PROVE Progress'
    <3> DEFINE new == [f \in Files |-> IF Dirty(f) THEN disk[f] ELSE Tree[h][f]]
    <3>1. new \in [Files -> Contents \cup {NoFile}]
      BY CheckedOut DEF Shape
    <3>2. Works(new)
      BY <2>2 DEF Checkout
    <3> QED
      BY <1>1, <3>1, <3>2
  <2>3. ASSUME NEW h \in Heads, Commit(h) PROVE Progress'
    BY <1>1, <2>3 DEF Commit
  <2> QED
    BY <1>2, <2>1, <2>2, <2>3, UserActs
<1>3. CASE Refresh \/ Inspect \/ RefreshBusy \/ Mark \/ ReaderLeaves
  BY <1>3 DEF Refresh, Inspect, RefreshBusy, Mark, ReaderLeaves
<1>4. CASE RefreshFiles
  BY <1>4 DEF RefreshFiles, Begin
<1>5. ASSUME NEW what \in Callers, NEW candidates \in SUBSET Files, Called(what, candidates) PROVE Progress'
  BY <1>5 DEF Called, Begin
<1>6. ASSUME NEW f \in Files, Compare(f) PROVE Progress'
  BY <1>6 DEF Compare, DeleteFile, IsChanged
<1>7. ASSUME NEW f \in Files, CompareFails(f) PROVE Progress'
  BY <1>7 DEF CompareFails
<1>8. ASSUME NEW f \in Files, Read(f) PROVE Progress'
  BY <1>8 DEF Read, At, Stored, NoJobs, Jobs
<1>9. ASSUME NEW f \in Files, StoreNothing(f) PROVE Progress'
  BY <1>9 DEF StoreNothing, At, Stored, NoJobs
<1>10. ASSUME NEW f \in Files, StoreFails(f) PROVE Progress'
  BY <1>10 DEF StoreFails, Stored, NoJobs
<1>11. ASSUME NEW f \in Files, StoreDelete(f) PROVE Progress'
  BY <1>11 DEF StoreDelete, At, Goes, DeleteFile
<1>12. ASSUME NEW f \in Files, StoreNodes(f) \/ StoreRefs(f) PROVE Progress'
  <2>1. /\ \/ At(f, "deleted") /\ job'[f].step = "inserted"
           \/ At(f, "inserted") /\ job'[f].step = "referring"
        /\ \A g \in Files : job'[g].content = job[g].content /\ (g # f => job'[g].step = job[g].step)
        /\ UNCHANGED <<disk, rec, pc, call, asked, todo, changed, failed, touched>>
    <3>1. CASE StoreNodes(f)
      BY <3>1, StepOnly DEF StoreNodes, Goes, At
    <3>2. CASE StoreRefs(f)
      BY <3>2, StepOnly DEF StoreRefs, Goes, At
    <3> QED
      BY <1>12, <3>1, <3>2
  <2> QED
    BY <2>1 DEF At
<1>13. ASSUME NEW f \in Files, StoreRecord(f) PROVE Progress'
  BY <1>13 DEF StoreRecord, At, Stored, NoJobs
<1>14. CASE ClearRefs \/ ClearEdges \/ ClearNodes \/ ClearFiles
  BY <1>14 DEF ClearRefs, ClearEdges, ClearNodes, ClearFiles, Clears
<1>15. CASE Scan
  BY <1>15 DEF Scan, Jobs
<1>16. CASE Compared
  BY <1>16 DEF Compared, Jobs
<1>17. CASE Extracted \/ Restore \/ Resolve \/ ClearReferences
  BY <1>17 DEF Extracted, Restore, Resolve, ClearReferences
<1>18. CASE StoreError
  BY <1>18 DEF StoreError, Running
<1>19. CASE Return \/ Crash
  BY <1>19 DEF Return, Crash, Over
<1> QED
  BY <1>2, <1>3, <1>4, <1>5, <1>6, <1>7, <1>8, <1>9, <1>10, <1>11, <1>12, <1>13, <1>14,
     <1>15, <1>16, <1>17, <1>18, <1>19 DEF Next, Writer, Reader

(* Every step keeps Refreshing: while nobody else writes, only the asked
   files can differ from the disk. *)
LEMMA RefreshingStep == Shape /\ Progress /\ Refreshing /\ Next => Refreshing'
<1> SUFFICES ASSUME Shape, Progress, Refreshing, Next PROVE Refreshing'
  OBVIOUS
<1> USE DEF Refreshing, Shape, frame, storeFrame, FinishFrame, readFrame, diskVars, graphVars, callVars
<1>1. ASSUME NEW new \in [Files -> Contents \cup {NoFile}], Works(new) PROVE Refreshing'
  BY <1>1 DEF Works, Progress
<1>2. CASE User
  <2>1. ASSUME NEW f \in Files, NEW c \in Contents \cup {NoFile}, Edit(f, c) PROVE Refreshing'
    BY <1>1, <2>1 DEF Edit
  <2>2. ASSUME NEW h \in Heads, Checkout(h) PROVE Refreshing'
    BY <1>1, <2>2, CheckedOut DEF Checkout
  <2>3. ASSUME NEW h \in Heads, Commit(h) PROVE Refreshing'
    BY <1>1, <2>3 DEF Commit
  <2> QED
    BY <1>2, <2>1, <2>2, <2>3, UserActs
<1>3. CASE Refresh \/ RefreshBusy \/ Mark \/ ReaderLeaves
  <2>1. CASE Refresh
    <3>1. /\ reader.pc = "idle" /\ reader'.pc = "inspecting" /\ ~reader'.scanned
          /\ UNCHANGED <<call, pc, touched>> /\ quiet' = (pc = "idle")
      BY <2>1 DEF Refresh, NoReader
    <3> QED
      BY <3>1 DEF Progress
  <2>2. CASE RefreshBusy \/ Mark
    BY <2>2 DEF RefreshBusy, Mark
  <2>3. CASE ReaderLeaves
    BY <2>3 DEF ReaderLeaves, NoReader
  <2> QED
    BY <1>3, <2>1, <2>2, <2>3
<1>4. CASE Inspect
  <2>1. stamp = NoHead => ChangedFiles = {f \in Files : rec[f] # disk[f]}
    BY DEF ChangedFiles, Scanned
  <2>2. stamp = NoHead /\ ChangedFiles = {} => rec = disk
    BY <2>1
  <2> QED
    BY <1>4, <2>1, <2>2 DEF Inspect
<1>5. CASE RefreshFiles
  BY <1>5 DEF RefreshFiles, Begin
<1>6. ASSUME NEW what \in Callers, NEW candidates \in SUBSET Files, Called(what, candidates) PROVE Refreshing'
  BY <1>6, IndexBounds DEF Called, Begin
<1>7. ASSUME UNCHANGED <<disk, call, reader, touched, quiet, asked>>, pc # "idle", pc' # "idle",
             call = "refresh" => \A f \in Files \ asked : rec'[f] = rec[f]
      PROVE  Refreshing'
  BY <1>7
<1>8. ASSUME NEW f \in Files, Compare(f) \/ CompareFails(f) PROVE Refreshing'
  BY <1>7, <1>8 DEF Compare, CompareFails, DeleteFile
<1>9. ASSUME NEW f \in Files,
             Read(f) \/ StoreNothing(f) \/ StoreFails(f) \/ StoreNodes(f) \/ StoreRefs(f)
      PROVE  Refreshing'
  BY <1>7, <1>9 DEF Read, StoreNothing, StoreFails, StoreNodes, StoreRefs, Goes, At
<1>10. ASSUME NEW f \in Files, StoreDelete(f) PROVE Refreshing'
  BY <1>7, <1>10 DEF StoreDelete, DeleteFile, Goes, At, Progress
<1>11. ASSUME NEW f \in Files, StoreRecord(f) PROVE Refreshing'
  BY <1>7, <1>11 DEF StoreRecord, At, Progress
<1>12. CASE ClearRefs \/ ClearEdges \/ ClearNodes \/ ClearFiles
  BY <1>7, <1>12 DEF ClearRefs, ClearEdges, ClearNodes, ClearFiles, Clears, Progress
<1>13. CASE Scan \/ Compared \/ Extracted \/ Restore \/ Resolve \/ ClearReferences
  BY <1>7, <1>13 DEF Scan, Compared, Extracted, Restore, Resolve, ClearReferences
<1>14. CASE StoreError
  BY <1>7, <1>14 DEF StoreError
<1>15. CASE Return
  <2>1. call = "refresh" /\ failed = {} /\ quiet /\ reader.scanned => rec = disk
    BY <1>15 DEF Return, Progress
  <2> QED
    BY <1>15, <2>1 DEF Return, Over, Outcome
<1>16. CASE Crash
  BY <1>16 DEF Crash, Over, NoReader
<1> QED
  BY <1>2, <1>3, <1>4, <1>5, <1>6, <1>8, <1>9, <1>10, <1>11, <1>12, <1>13, <1>14, <1>15,
     <1>16 DEF Next, Writer, Reader

(* Every step keeps Loopless: a file refers to the others only. *)
LEMMA LooplessStep == Shape /\ Loopless /\ Next => Loopless'
<1> SUFFICES ASSUME Shape, Loopless, Next PROVE Loopless'
  OBVIOUS
<1> USE DEF Loopless, Shape, frame, storeFrame, FinishFrame, readFrame, diskVars, graphVars, callVars
<1>0. ASSUME (edges \cup backups \cup before)' \subseteq edges \cup backups \cup before, unresolved' \subseteq unresolved
      PROVE  Loopless'
  BY <1>0
<1>1. CASE User
  BY <1>1, <1>0 DEF User, Edit, Checkout, Commit, Works
<1>2. CASE Reader
  BY <1>2, <1>0 DEF Reader, Refresh, Inspect, RefreshFiles, Begin, RefreshBusy, Mark, ReaderLeaves
<1>3. ASSUME NEW what \in Callers, NEW candidates \in SUBSET Files, Called(what, candidates) PROVE Loopless'
  BY <1>3, <1>0 DEF Called, Begin
<1>4. ASSUME NEW f \in Files, Compare(f) \/ CompareFails(f) \/ StoreDelete(f) PROVE Loopless'
  BY <1>4, <1>0 DEF Compare, CompareFails, StoreDelete, DeleteFile, Goes
<1>5. ASSUME NEW f \in Files, Read(f) \/ StoreNothing(f) \/ StoreFails(f) \/ StoreRecord(f) PROVE Loopless'
  BY <1>5, <1>0 DEF Read, StoreNothing, StoreFails, StoreRecord, Stored
<1>6. ASSUME NEW f \in Files, StoreNodes(f) PROVE Loopless'
  BY <1>6, <1>0 DEF StoreNodes, InsertNodes, Goes
<1>7. ASSUME NEW f \in Files, StoreRefs(f) PROVE Loopless'
  BY <1>7 DEF StoreRefs, Goes, Calls
<1>8. CASE ClearRefs \/ ClearEdges \/ ClearNodes \/ ClearFiles
  BY <1>8, <1>0 DEF ClearRefs, ClearEdges, ClearNodes, ClearFiles, Clears
<1>9. CASE Scan \/ Compared \/ Extracted \/ Restore \/ ClearReferences \/ StoreError
  BY <1>9, <1>0 DEF Scan, Compared, Incoming, Extracted, Restore, ClearReferences, StoreError
<1>10. CASE Return \/ Crash
  BY <1>10, <1>0 DEF Return, Crash, Over
<1>11. CASE Resolve
  <2>1. \A e \in edges' \ edges : <<e[1], e[2]>> \in unresolved
    BY <1>11, Resolving
  <2>2. \A e \in edges' \ edges : e[1] # e[2]
    <3> SUFFICES ASSUME NEW e \in edges' \ edges PROVE e[1] # e[2]
      OBVIOUS
    <3>1. \A r \in unresolved : r[1] # r[2]
      OBVIOUS
    <3>2. <<e[1], e[2]>>[1] = e[1] /\ <<e[1], e[2]>>[2] = e[2]
      OBVIOUS
    <3> QED
      BY <2>1, <3>1, <3>2
  <2> QED
    BY <1>11, <2>2 DEF Resolve
<1> QED
  BY <1>1, <1>2, <1>3, <1>4, <1>5, <1>6, <1>7, <1>8, <1>9, <1>10, <1>11 DEF Next, Writer

(* Every step of an incremental sync keeps EdgesAreKept. *)
LEMMA KeptStep ==
  Shape /\ Jobs /\ Progress /\ Loopless /\ EdgesAreKept /\ Next => EdgesAreKept'
<1> SUFFICES ASSUME Shape, Jobs, Progress, Loopless, EdgesAreKept, Next PROVE EdgesAreKept'
  OBVIOUS
<1> USE DEF EdgesAreKept, Lost, Waiting, Due, Shape, frame, storeFrame, FinishFrame, readFrame, diskVars,
            graphVars, callVars
<1>d. UNCHANGED nodes => \A g : Definitions(g)' = Definitions(g)
  BY DEF Definitions
<1>t. edges \subseteq edges' => \A e : There(e) => There(e)'
  <2>1. ASSUME edges \subseteq edges' PROVE Joined(edges) \subseteq Joined(edges)'
    BY <2>1 DEF Joined
  <2> QED
    BY <2>1 DEF There
<1>0. ASSUME UNCHANGED <<rec, nodes, edges, unresolved, backups, indexed, call, before, pc, todo>>,
             touched \subseteq touched' \/ pc \notin Running, failed \subseteq failed',
             changed' \subseteq changed, changed # changed' => pc = "extract" /\ changed \ changed' \subseteq failed'
      PROVE  EdgesAreKept'
  <2> SUFFICES ASSUME call \in {"files", "refresh"}, pc \in Running, NEW e \in before, e[1] \notin touched,
                      {e[1], e[2]} \cap failed = {}, {e[1], e[2]} \cap failed' = {}
               PROVE  /\ pc = "compare" => Lost(e)' \/ e \in edges
                      /\ pc = "extract" => \/ Lost(e)' \/ e[1] \in changed' \/ rec[e[1]] \notin Calling
                                          \/ Waiting(e)' \/ e \in backups \/ (e \in edges /\ e[2] \notin changed')
                      /\ pc = "restore" => (Due(e)' => Waiting(e)' \/ e \in backups \cup edges)
                      /\ pc = "resolve" => (Due(e)' => <<e[1], e[2]>> \in unresolved \/ e \in edges)
                      /\ pc \in {"clear references", "done"} => (Due(e)' => There(e)')
    BY <1>0 DEF Running
  <2>1. (Lost(e) => Lost(e)') /\ (Waiting(e) => Waiting(e)') /\ (Due(e)' => Due(e)) /\ (There(e) => There(e)')
    BY <1>0, <1>d, <1>t
  <2>2. e[1] \in changed => e[1] \in changed'
    BY <1>0
  <2> QED
    BY <1>0, <2>1, <2>2
<1>1. ASSUME NEW new \in [Files -> Contents \cup {NoFile}], Works(new) PROVE EdgesAreKept'
  BY <1>1, <1>0 DEF Works, Running
<1>2. CASE User
  <2>1. ASSUME NEW f \in Files, NEW c \in Contents \cup {NoFile}, Edit(f, c) PROVE EdgesAreKept'
    BY <1>1, <2>1 DEF Edit
  <2>2. ASSUME NEW h \in Heads, Checkout(h) PROVE EdgesAreKept'
    BY <1>1, <2>2, CheckedOut DEF Checkout
  <2>3. ASSUME NEW h \in Heads, Commit(h) PROVE EdgesAreKept'
    BY <1>1, <2>3 DEF Commit
  <2> QED
    BY <1>2, <2>1, <2>2, <2>3, UserActs
<1>3. CASE Refresh \/ Inspect \/ RefreshBusy \/ Mark \/ ReaderLeaves
  <2>1. UNCHANGED <<rec, nodes, edges, unresolved, backups, indexed, call, touched, before, pc, todo, changed, failed>>
    BY <1>3 DEF Refresh, Inspect, RefreshBusy, Mark, ReaderLeaves
  <2> QED
    BY <2>1, <1>0
<1>4. CASE RefreshFiles
  BY <1>4 DEF RefreshFiles, Begin
<1>5. ASSUME NEW what \in Callers, NEW candidates \in SUBSET Files, Called(what, candidates) PROVE EdgesAreKept'
  BY <1>5 DEF Called, Begin
<1>6. ASSUME NEW f \in Files, Compare(f) PROVE EdgesAreKept'
  BY <1>6 DEF Compare, DeleteFile, Touching, Progress, Pairs, Links
<1>7. ASSUME NEW f \in Files, CompareFails(f) PROVE EdgesAreKept'
  BY <1>7 DEF CompareFails
<1>8. CASE Compared
  <2>1. /\ pc = "compare" /\ todo = {} /\ todo' = {} /\ pc' = IF changed = {} THEN "done" ELSE "extract"
        /\ UNCHANGED <<rec, nodes, edges, unresolved, indexed, call, touched, before, changed, failed>>
        /\ backups' = {e \in edges : e[2] \in changed /\ e[1] \notin changed}
    BY <1>8 DEF Compared, Incoming
  <2>2. NoFile \notin Calling
    BY IndexBounds
  <2>3. CASE changed # {}
    BY <2>1, <2>3
  <2>4. CASE changed = {}
    <3>1. \A e \in before : Due(e)' /\ e \in edges => There(e)'
      BY <2>1 DEF There, Joined
    <3>2. \A e \in before : Lost(e) => ~Due(e)'
      BY <2>1, <2>2, <2>4 DEF Definitions
    <3> QED
      BY <2>1, <2>4, <3>1, <3>2
  <2> QED
    BY <2>3, <2>4
<1>9. ASSUME NEW f \in Files, Read(f) \/ StoreFails(f) PROVE EdgesAreKept'
  <2>1. /\ pc = "extract" /\ changed' \subseteq changed /\ failed \subseteq failed'
        /\ changed \ changed' \subseteq failed'
        /\ UNCHANGED <<rec, nodes, edges, unresolved, backups, indexed, call, touched, before, pc, todo>>
    BY <1>9 DEF Read, StoreFails, At, Stored
  <2> QED
    BY <2>1, <1>0
<1>10. ASSUME NEW f \in Files, StoreNothing(f) PROVE EdgesAreKept'
  <2>1. /\ pc = "extract" /\ pc' = "extract" /\ changed' = changed \ {f} /\ todo = {} /\ todo' = {} /\ indexed'
        /\ f \in changed /\ rec[f] = job[f].content /\ job[f].step = "read" /\ (f \in touched \/ rec[f] # disk[f])
        /\ f \in touched \/ job[f].content = disk[f]
        /\ UNCHANGED <<rec, nodes, edges, unresolved, backups, failed, call, touched, before>>
    BY <1>10 DEF StoreNothing, At, Stored, Progress
  <2>2. f \in touched
    BY <2>1
  <2> QED
    BY <2>1, <2>2
<1>11. ASSUME NEW f \in Files, StoreDelete(f) PROVE EdgesAreKept'
  BY <1>11 DEF StoreDelete, DeleteFile, Touching, Of, At, Goes, Pairs, Links
<1>12. ASSUME NEW f \in Files, StoreNodes(f) PROVE EdgesAreKept'
  BY <1>12 DEF StoreNodes, InsertNodes, Touching, Of, At, Goes, Pairs, Links
<1>13. ASSUME NEW f \in Files, StoreRefs(f) PROVE EdgesAreKept'
  BY <1>13 DEF StoreRefs, At, Goes
<1>14. ASSUME NEW f \in Files, StoreRecord(f) PROVE EdgesAreKept'
  <2>1. ASSUME NEW e \in before, e[1] = f, job[f].content \in Calling PROVE <<e[1], e[2]>> \in unresolved
    BY <1>14, <2>1 DEF StoreRecord, At, Jobs, Calls, Loopless, Pairs, Links
  <2>2. /\ pc = "extract" /\ pc' = "extract" /\ f \in changed /\ changed' = changed \ {f} /\ indexed' = TRUE
        /\ rec' = [rec EXCEPT ![f] = job[f].content]
        /\ UNCHANGED <<nodes, edges, unresolved, backups, failed, call, touched, before, todo>>
    BY <1>14 DEF StoreRecord, At, Stored
  <2>3. \A e \in before : e[1] \in Files
    BY LinksAreLinks
  <2>4. \A e \in before : e[1] = f => rec'[e[1]] = job[f].content
    BY <2>2
  <2>5. \A e \in before : e[1] # f => rec'[e[1]] = rec[e[1]]
    BY <2>2, <2>3
  <2>6. \A e \in before : e[1] = f => rec'[e[1]] \notin Calling \/ Waiting(e)'
    BY <2>1, <2>2, <2>4
  <2>7. \A e \in before : e[1] # f /\ Lost(e) => Lost(e)'
    BY <2>2, <2>5
  <2> QED
    BY <2>2, <2>5, <2>6, <2>7
<1>15. CASE ClearRefs \/ ClearEdges \/ ClearNodes \/ ClearFiles \/ Scan
  BY <1>15 DEF ClearRefs, ClearEdges, ClearNodes, ClearFiles, Clears, Scan, Progress
<1>16. CASE Extracted
  <2>1. NoFile \notin Calling
    BY IndexBounds
  <2>2. call # "rebuild" => pc' = "restore"
    BY <1>16 DEF Extracted
  <2>3. changed = {} /\ todo = {} /\ UNCHANGED <<rec, nodes, edges, unresolved, backups, indexed, failed, call, touched, before>>
    BY <1>16 DEF Extracted, Progress
  <2>4. \A e \in before : Lost(e) => ~Due(e)'
    BY <2>1, <2>3 DEF Definitions
  <2> QED
    BY <1>16, <2>1, <2>2, <2>3, <2>4 DEF Extracted
<1>17. CASE Restore \/ ClearReferences
  <2>1. CASE Restore
    <3>1. /\ pc = "restore" /\ pc' \in {"resolve", "done"} /\ (indexed => pc' = "resolve") /\ edges \subseteq edges'
          /\ UNCHANGED <<rec, nodes, unresolved, backups, indexed, failed, call, touched, before>>
      BY <2>1 DEF Restore
    <3>2. \A e \in before : Due(e) /\ e \in backups => e \in edges'
      BY <2>1 DEF Restore, IsBack
    <3>3. \A e \in before : e \in edges' => There(e)'
      BY DEF There, Joined
    <3> SUFFICES ASSUME call \in {"files", "refresh"}, NEW e \in before, e[1] \notin touched,
                        {e[1], e[2]} \cap failed = {}, Due(e)'
                 PROVE  /\ pc' = "resolve" => <<e[1], e[2]>> \in unresolved \/ e \in edges'
                        /\ pc' = "done" => There(e)'
      BY <3>1
    <3>4. Due(e)
      BY <3>1, <1>d
    <3>5. Waiting(e) \/ e \in edges'
      BY <3>1, <3>2, <3>4
    <3> QED
      BY <3>1, <3>3, <3>5
  <2>2. CASE ClearReferences
    BY <2>2, <1>d, <1>t DEF ClearReferences
  <2> QED
    BY <1>17, <2>1, <2>2
<1>20. CASE Resolve
  <2>1. /\ pc = "resolve" /\ pc' = "clear references"
        /\ UNCHANGED <<rec, nodes, unresolved, backups, indexed, failed, call, touched, before>>
    BY <1>20 DEF Resolve
  <2>2. ASSUME NEW e \in before, Due(e), <<e[1], e[2]>> \in unresolved PROVE There(e)'
    <3>1. Defined(<<e[1], e[2]>>[2])
      BY <2>2 DEF Defined
    <3>2. <<e[1], e[2]>> \in Joined(edges')
      BY <1>20, <2>2, <3>1, Resolving
    <3> QED
      BY <3>2 DEF There, Joined
  <2>3. edges \subseteq edges'
    BY <1>20, Resolving
  <2>4. \A e \in before : e \in edges => There(e)'
    BY <2>3 DEF There, Joined
  <2> QED
    BY <2>1, <2>2, <2>4, <1>d
<1>18. CASE StoreError
  BY <1>18 DEF StoreError, Pairs, Links
<1>19. CASE Return \/ Crash
  BY <1>19 DEF Return, Crash, Over
<1> QED
  BY <1>2, <1>3, <1>4, <1>5, <1>6, <1>7, <1>8, <1>9, <1>10, <1>11, <1>12, <1>13, <1>14,
     <1>15, <1>16, <1>17, <1>18, <1>19, <1>20 DEF Next, Writer, Reader

(* Every step of a rebuild keeps EdgesAreRebuilt. *)
LEMMA RebuiltStep ==
  Shape /\ Jobs /\ Progress /\ Loopless /\ RecordedIsStored /\ EdgesAreRebuilt /\ Next => EdgesAreRebuilt'
<1> SUFFICES ASSUME Shape, Jobs, Progress, Loopless, RecordedIsStored, EdgesAreRebuilt, Next
             PROVE  EdgesAreRebuilt'
  OBVIOUS
<1> USE DEF EdgesAreRebuilt, Due, Defined, Definitions, There, Joined, Shape, frame, storeFrame, FinishFrame, readFrame, diskVars,
            graphVars, callVars
<1>1. CASE User
  BY <1>1 DEF User, Edit, Checkout, Commit, Works
<1>2. CASE Reader
  BY <1>2 DEF Reader, Refresh, Inspect, RefreshFiles, Begin, RefreshBusy, Mark, ReaderLeaves
<1>3. ASSUME NEW what \in Callers, NEW candidates \in SUBSET Files, Called(what, candidates) PROVE EdgesAreRebuilt'
  BY <1>3 DEF Called, Begin
<1>4. ASSUME NEW f \in Files, Compare(f) \/ CompareFails(f) PROVE EdgesAreRebuilt'
  BY <1>4 DEF Compare, CompareFails, DeleteFile, Progress
<1>5. ASSUME NEW f \in Files, Read(f) \/ StoreNothing(f) \/ StoreFails(f) PROVE EdgesAreRebuilt'
  BY <1>5 DEF Read, StoreNothing, StoreFails, At, Stored
<1>6. ASSUME NEW f \in Files, StoreDelete(f) PROVE EdgesAreRebuilt'
  BY <1>6 DEF StoreDelete, DeleteFile, At, Goes
<1>7. ASSUME NEW f \in Files, StoreNodes(f) \/ StoreRefs(f) PROVE EdgesAreRebuilt'
  BY <1>7 DEF StoreNodes, StoreRefs, InsertNodes, At, Goes
<1>8. ASSUME NEW f \in Files, StoreRecord(f) PROVE EdgesAreRebuilt'
  BY <1>8 DEF StoreRecord, At, Stored
<1>9. CASE ClearRefs \/ ClearEdges \/ ClearNodes \/ ClearFiles
  BY <1>9 DEF ClearRefs, ClearEdges, ClearNodes, ClearFiles, Clears
<1>10. CASE Scan \/ Compared
  BY <1>10 DEF Scan, Compared, Progress
<1>11. CASE Extracted
  <2>1. NoFile \notin Calling
    BY IndexBounds
  <2>2. call = "rebuild" => pc' = IF failed = {} /\ indexed THEN "resolve" ELSE "done"
    BY <1>11 DEF Extracted
  <2>3. \A e \in before : e[1] \in Files
    BY LinksAreLinks
  <2> QED
    BY <1>11, <2>1, <2>2, <2>3 DEF Extracted
<1>12. CASE Restore
  BY <1>12 DEF Restore, Progress
<1>16. CASE Resolve
  <2>1. \A r \in unresolved : Defined(r[2]) => There(r)'
    BY <1>16, Resolving
  <2> QED
    BY <1>16, <2>1 DEF Resolve
<1>13. CASE ClearReferences
  <2>1. ASSUME NEW e \in before, rec[e[1]] \in Calling, call = "rebuild" PROVE <<e[1], e[2]>> \in unresolved
    <3>1. e[1] \in Files /\ e[2] \in Files \ {e[1]}
      BY LinksAreLinks DEF Loopless
    <3>2. <<e[1], e[2]>> \in Calls(e[1], rec[e[1]])
      BY <2>1, <3>1 DEF Calls
    <3>3. ~torn /\ tried = {} /\ rec[e[1]] # NoFile
      BY <1>13, <2>1, IndexBounds DEF ClearReferences
    <3> QED
      BY <3>1, <3>2, <3>3 DEF RecordedIsStored
  <2>2. /\ pc = "clear references" /\ pc' = "done"
        /\ UNCHANGED <<rec, nodes, edges, failed, call, before, torn>>
    BY <1>13 DEF ClearReferences
  <2>3. ASSUME NEW e \in before, Due(e), call = "rebuild" PROVE There(e)
    <3>1. <<e[1], e[2]>> \in unresolved /\ Defined(<<e[1], e[2]>>[2])
      BY <2>1, <2>3
    <3>2. There(<<e[1], e[2]>>)
      BY <2>2, <2>3, <3>1
    <3> QED
      BY <3>2
  <2> QED
    BY <2>2, <2>3
<1>14. CASE StoreError
  BY <1>14 DEF StoreError, Pairs, Links
<1>15. CASE Return \/ Crash
  BY <1>15 DEF Return, Crash, Over
<1> QED
  BY <1>1, <1>2, <1>3, <1>4, <1>5, <1>6, <1>7, <1>8, <1>9, <1>10, <1>11, <1>12, <1>13, <1>14, <1>15, <1>16 DEF Next, Writer

-----------------------------------------------------------------------------
IInv == /\ Shape /\ Jobs /\ Keys /\ RecordedIsStored /\ Progress /\ Refreshing
        /\ Loopless /\ EdgesAreKept /\ EdgesAreRebuilt

(* An empty index, and nothing under way. *)
LEMMA InitHolds == Init => IInv
<1> SUFFICES ASSUME Init PROVE IInv
  OBVIOUS
<1>1. Shape
  BY ShapeInit
<1>2. Jobs /\ Keys /\ RecordedIsStored
  BY DEF Init, Jobs, NoJobs, Keys, Exists, RecordedIsStored
<1>3. Progress /\ Refreshing
  BY DEF Init, Progress, Refreshing, NoReader
<1>4. Loopless /\ EdgesAreKept /\ EdgesAreRebuilt
  BY DEF Init, Loopless, EdgesAreKept, EdgesAreRebuilt
<1> QED
  BY <1>1, <1>2, <1>3, <1>4 DEF IInv

(* The invariant is inductive. *)
LEMMA Inductive == IInv /\ [Next]_vars => IInv'
<1>1. ASSUME IInv, Next PROVE IInv'
  <2>1. Shape'
    BY <1>1, ShapeUser, ShapeWriter, ShapeReader DEF IInv, Next
  <2>2. Jobs' /\ Keys' /\ RecordedIsStored'
    BY <1>1, JobsStep, KeysStep, RecordsStep DEF IInv
  <2>3. Progress' /\ Refreshing'
    BY <1>1, ProgressStep, RefreshingStep DEF IInv
  <2>4. Loopless' /\ EdgesAreKept' /\ EdgesAreRebuilt'
    BY <1>1, LooplessStep, KeptStep, RebuiltStep DEF IInv
  <2> QED
    BY <2>1, <2>2, <2>3, <2>4 DEF IInv
<1>2. ASSUME IInv, UNCHANGED vars PROVE IInv'
  <2> USE DEF vars, diskVars, graphVars, callVars
  <2>1. Shape'
    BY <1>2 DEF IInv, Shape
  <2>2. Jobs' /\ Keys' /\ RecordedIsStored'
    BY <1>2 DEF IInv, Jobs, Keys, Exists, Definitions, RecordedIsStored
  <2>3. Progress' /\ Refreshing'
    BY <1>2 DEF IInv, Progress, Refreshing
  <2>4. Loopless' /\ EdgesAreKept' /\ EdgesAreRebuilt'
    BY <1>2 DEF IInv, Loopless, EdgesAreKept, EdgesAreRebuilt, Lost, Waiting, Due, Defined, Definitions, There, Joined
  <2> QED
    BY <2>1, <2>2, <2>3, <2>4 DEF IInv
<1> QED
  BY <1>1, <1>2

(* The invariant holds in every reachable state. *)
LEMMA InvariantHolds == Spec => []IInv
BY InitHolds, Inductive, PTL DEF Spec

(* Types, and the foreign keys of edges and references, in every reachable
   state (schema.sql, edges and unresolved_refs). *)
THEOREM IndexTypeCorrect == Spec => []TypeOK
<1>1. IInv => TypeOK
  <2> SUFFICES ASSUME IInv PROVE TypeOK
    OBVIOUS
  <2>1. \A f \in Files : job[f].content \in Contents \cup {NoFile}
    BY DEF IInv, Shape
  <2>2. reader.head \in Heads \cup {NoHead} /\ reader.paths \subseteq Files
    BY DEF IInv, Shape
  <2> QED
    BY <2>1, <2>2 DEF IInv, Shape, Keys, TypeOK, Pairs, Links
<1> QED
  BY <1>1, InvariantHolds, PTL

(* A record vouches for the nodes and the references of its file
   (storeExtractionResult writes it last, and DeleteFile takes it away first). *)
THEOREM RecordsVouch == Spec => []RecordedIsStored
<1>1. IInv => RecordedIsStored
  BY DEF IInv
<1> QED
  BY <1>1, InvariantHolds, PTL

(* A sync costs no edge whose two ends it has not failed, and whose target is
   still defined with the signature it had (captureIncomingEdges,
   restoreIncomingEdges, and the resolution of what is extracted anew). *)
THEOREM CallersKeepTheirEdges == Spec => []EdgesSurvive
<1>1. IInv => EdgesSurvive
  <2> SUFFICES ASSUME IInv, pc = "done", call = "rebuild" => failed = {},
                      NEW e \in before, e[1] \notin touched, {e[1], e[2]} \cap failed = {},
                      rec[e[1]] \in Calling, e[3] \in Definitions(e[2])
               PROVE  There(e)
    BY DEF EdgesSurvive, There
  <2>1. call \in {"files", "refresh", "rebuild"}
    BY DEF IInv, Shape
  <2>2. CASE call \in {"files", "refresh"}
    BY <2>2 DEF IInv, EdgesAreKept, Due
  <2>3. CASE call = "rebuild"
    BY <2>3 DEF IInv, EdgesAreRebuilt, Due
  <2> QED
    BY <2>1, <2>2, <2>3
<1> QED
  BY <1>1, InvariantHolds, PTL

(* What a sync was asked for, and has neither failed nor been written since,
   is recorded as it is on disk (SyncFiles). *)
THEOREM SyncsSeeTheDisk == Spec => []SyncSeesDisk
<1>1. IInv => SyncSeesDisk
  BY DEF IInv, Progress, SyncSeesDisk
<1> QED
  BY <1>1, InvariantHolds, PTL

(* A refresh that had no stamp to go by, and the tree to itself, answers from
   an index that shows the tree (RefreshForRead). *)
THEOREM ScannedRefreshIsFresh == Spec => []ScannedIsFresh
<1>1. IInv => ScannedIsFresh
  BY DEF IInv, Refreshing, ScannedIsFresh
<1> QED
  BY <1>1, InvariantHolds, PTL
-----------------------------------------------------------------------------
(***************************************************************************)
(* The write lock of the index (FileLock): type correctness, mutual        *)
(* exclusion and the naming of the holder, for any set of processes and    *)
(* any bounds.                                                             *)
(*                                                                         *)
(* Everything turns on which file a process means.  A file number is used  *)
(* once, so a process that has created the file at the path is its maker   *)
(* (OwnFile), and what another process has read from it can only name that *)
(* maker (WhatWasSeen).  A process about to remove the file it has judged  *)
(* therefore knows that nobody holds it, unless it is old (Condemned).     *)
(***************************************************************************)

Working(p) == at[p] \in {"write", "critical"}

(* p holds the lock file at the path, its PID written or not. *)
Holding(p) == Working(p) /\ mine[p] = file /\ ~Absent

OwnFile ==
  \A p \in Procs :
    /\ mine[p] = file /\ ~Absent => maker = p
    /\ at[p] \in {"write", "critical", "unlink"} => mine[p] # 0

WhatWasSeen ==
  \A q \in Procs :
    seen[q].file = file /\ ~Absent /\ seen[q].pid # NoPid => seen[q].pid = maker

Condemned ==
  \A q \in Procs :
    at[q] = "remove" /\ seen[q].file = file /\ ~Absent => old \/ ~Holding(maker)

(* Until one of the two accidents, a process that works has its file at the
   path, with its PID in it as soon as that is written. *)
Owned ==
  ~trespass /\ ~expired =>
    \A p \in Procs :
      Working(p) => /\ file = mine[p]
                    /\ content = IF at[p] = "critical" THEN p ELSE NoPid

LockInv == LockTypeOK /\ OwnFile /\ WhatWasSeen /\ Condemned /\ Owned

-----------------------------------------------------------------------------
(* The initial states satisfy the invariant. *)
LEMMA LockInitHolds == LockInit => LockInv
<1> SUFFICES ASSUME LockInit PROVE LockInv
  OBVIOUS
<1> USE DEF LockInit, Absent
<1>1. LockTypeOK
  <2>1. made \in 0..MaxLocks /\ file \in 0..made /\ crashes \in 0..MaxCrashes
    BY LockBounds
  <2>2. /\ old \in BOOLEAN /\ trespass \in BOOLEAN /\ expired \in BOOLEAN
        /\ maker \in IF Absent THEN {NoPid} ELSE Procs
        /\ content \in {NoPid, maker}
    OBVIOUS
  <2>3. /\ at \in [Procs -> {"idle", "read", "age", "owner", "remove", "open",
                             "write", "critical", "unlink", "dead"}]
        /\ mine \in [Procs -> 0..made]
        /\ seen \in [Procs -> [pid : Procs \cup {NoPid}, file : 0..made]]
    OBVIOUS
  <2> QED
    BY <2>1, <2>2, <2>3 DEF LockTypeOK
<1>2. OwnFile /\ WhatWasSeen /\ Condemned /\ Owned
  BY DEF OwnFile, WhatWasSeen, Condemned, Owned, Working
<1> QED
  BY <1>1, <1>2 DEF LockInv

(* os.Remove leaves a well-typed, absent lock file. *)
LEMMA UnlinkTyping ==
  LockTypeOK /\ Unlink =>
  /\ made' \in 0..MaxLocks /\ file' \in 0..made' /\ old' \in BOOLEAN
  /\ maker' \in IF file' = 0 THEN {NoPid} ELSE Procs
  /\ content' \in {NoPid, maker'}
<1> SUFFICES ASSUME LockTypeOK, Unlink
             PROVE  /\ made' \in 0..MaxLocks /\ file' \in 0..made' /\ old' \in BOOLEAN
                    /\ maker' \in IF file' = 0 THEN {NoPid} ELSE Procs
                    /\ content' \in {NoPid, maker'}
  OBVIOUS
<1>1. made' \in 0..MaxLocks /\ file' = 0
  BY DEF LockTypeOK, Unlink
<1>2. file' \in 0..made'
  BY <1>1, LockBounds
<1>3. old' \in BOOLEAN /\ maker' = NoPid /\ content' = NoPid
  BY DEF Unlink
<1> QED
  BY <1>1, <1>2, <1>3

(* A step keeps the types.  WritePid needs OwnFile: the file it writes to, if
   it is the one at the path, is its own. *)
LEMMA StepTyping == LockTypeOK /\ OwnFile /\ [LockNext]_lockVars => LockTypeOK'
<1> SUFFICES ASSUME LockTypeOK, OwnFile, [LockNext]_lockVars PROVE LockTypeOK'
  OBVIOUS
<1> USE PidsAreNamed, LockBounds DEF LockTypeOK, Absent, fileVars, histVars, Goto
<1>1. CASE \E p \in Procs : AcquireStat(p)
  <2> PICK p \in Procs : AcquireStat(p)
    BY <1>1
  <2> QED
    BY DEF AcquireStat
<1>2. CASE \E p \in Procs : ReadExisting(p)
  <2> PICK p \in Procs : ReadExisting(p)
    BY <1>2
  <2> QED
    BY DEF ReadExisting
<1>3. CASE \E p \in Procs : JudgeAge(p)
  <2> PICK p \in Procs : JudgeAge(p)
    BY <1>3
  <2> QED
    BY DEF JudgeAge
<1>4. CASE \E p \in Procs : JudgeOwner(p)
  <2> PICK p \in Procs : JudgeOwner(p)
    BY <1>4
  <2> QED
    BY DEF JudgeOwner
<1>5. CASE \E p \in Procs : RemoveStale(p)
  <2> PICK p \in Procs : RemoveStale(p)
    BY <1>5
  <2> QED
    <3>1. trespass' \in BOOLEAN /\ expired' \in BOOLEAN
      BY Zenon DEF RemoveStale
    <3>2. /\ at' \in [Procs -> {"idle", "read", "age", "owner", "remove", "open",
                               "write", "critical", "unlink", "dead"}]
          /\ UNCHANGED <<made, mine, seen, crashes>>
      BY DEF RemoveStale, Unlink
    <3> QED
      BY <3>1, <3>2, UnlinkTyping DEF RemoveStale
<1>6. CASE \E p \in Procs : CreateExclusive(p)
  <2> PICK p \in Procs : CreateExclusive(p)
    BY <1>6
  <2> QED
    <3>1. CASE ~Absent
      BY <3>1 DEF CreateExclusive
    <3>2. CASE Absent
      <4>1. made' = made + 1 /\ made < MaxLocks
        BY <3>2 DEF CreateExclusive
      <4>2. made' \in 0..MaxLocks /\ file' = made' /\ file' # 0
        BY <3>2, <4>1 DEF CreateExclusive
      <4>3. mine' \in [Procs -> 0..made']
        BY <3>2, <4>1, <4>2 DEF CreateExclusive
      <4>4. seen' \in [Procs -> [pid : Procs \cup {NoPid}, file : 0..made']]
        <5>1. 0..made \subseteq 0..made'
          BY <4>1, <4>2
        <5>2. UNCHANGED seen
          BY DEF CreateExclusive
        <5> QED
          BY <5>1, <5>2
      <4>5. /\ old' \in BOOLEAN /\ maker' = p /\ content' = NoPid
            /\ at' \in [Procs -> {"idle", "read", "age", "owner", "remove", "open",
                                 "write", "critical", "unlink", "dead"}]
            /\ UNCHANGED <<crashes, trespass, expired>>
        BY <3>2 DEF CreateExclusive
      <4> QED
        BY <4>2, <4>3, <4>4, <4>5
    <3> QED
      BY <3>1, <3>2
<1>7. CASE \E p \in Procs : WritePid(p)
  <2> PICK p \in Procs : WritePid(p)
    BY <1>7
  <2> QED
    BY DEF WritePid, OwnFile
<1>8. CASE \E p \in Procs : WriteFails(p)
  <2> PICK p \in Procs : WriteFails(p)
    BY <1>8
  <2> QED
    <3>1. trespass' \in BOOLEAN /\ expired' \in BOOLEAN
      BY Zenon DEF WriteFails
    <3>2. /\ at' \in [Procs -> {"idle", "read", "age", "owner", "remove", "open",
                               "write", "critical", "unlink", "dead"}]
          /\ UNCHANGED <<made, mine, seen, crashes>>
      BY DEF WriteFails, Unlink
    <3> QED
      BY <3>1, <3>2, UnlinkTyping DEF WriteFails
<1>9. CASE \E p \in Procs : ReleaseRead(p)
  <2> PICK p \in Procs : ReleaseRead(p)
    BY <1>9
  <2> QED
    BY DEF ReleaseRead
<1>10. CASE \E p \in Procs : ReleaseUnlink(p)
  <2> PICK p \in Procs : ReleaseUnlink(p)
    BY <1>10
  <2> QED
    <3>1. trespass' \in BOOLEAN /\ expired' \in BOOLEAN
      BY Zenon DEF ReleaseUnlink
    <3>2. /\ at' \in [Procs -> {"idle", "read", "age", "owner", "remove", "open",
                               "write", "critical", "unlink", "dead"}]
          /\ UNCHANGED <<made, mine, seen, crashes>>
      BY DEF ReleaseUnlink, Unlink
    <3> QED
      BY <3>1, <3>2, UnlinkTyping DEF ReleaseUnlink
<1>11. CASE \E p \in Procs : Die(p)
  <2> PICK p \in Procs : Die(p)
    BY <1>11
  <2> QED
    BY DEF Die, Alive
<1>12. CASE \E p \in Procs : Restart(p)
  <2> PICK p \in Procs : Restart(p)
    BY <1>12
  <2> QED
    BY DEF Restart, Alive
<1>13. CASE FileAges
  BY <1>13 DEF FileAges
<1>14. CASE UNCHANGED lockVars
  BY <1>14 DEF lockVars
<1> QED
  BY <1>1, <1>2, <1>3, <1>4, <1>5, <1>6, <1>7, <1>8, <1>9, <1>10, <1>11, <1>12, <1>13, <1>14 DEF LockNext, Step

(* A step keeps what a process has created its own: numbers are used once. *)
LEMMA StepOwnFile == LockTypeOK /\ OwnFile /\ [LockNext]_lockVars => OwnFile'
<1> SUFFICES ASSUME LockTypeOK, OwnFile, [LockNext]_lockVars PROVE OwnFile'
  OBVIOUS
<1> USE PidsAreNamed, LockBounds DEF LockTypeOK, Absent, fileVars, histVars, Goto, OwnFile
<1>1. CASE \E p \in Procs : AcquireStat(p)
  BY <1>1 DEF AcquireStat
<1>2. CASE \E p \in Procs : ReadExisting(p)
  BY <1>2 DEF ReadExisting
<1>3. CASE \E p \in Procs : JudgeAge(p)
  BY <1>3 DEF JudgeAge
<1>4. CASE \E p \in Procs : JudgeOwner(p)
  BY <1>4 DEF JudgeOwner, OwnerIsDead, Alive
<1>5. CASE \E p \in Procs : RemoveStale(p)
  BY <1>5 DEF RemoveStale, Unlink
<1>6. CASE \E p \in Procs : CreateExclusive(p)
  BY <1>6 DEF CreateExclusive
<1>7. CASE \E p \in Procs : WritePid(p)
  BY <1>7 DEF WritePid
<1>8. CASE \E p \in Procs : WriteFails(p)
  BY <1>8 DEF WriteFails, Unlink
<1>9. CASE \E p \in Procs : ReleaseRead(p)
  BY <1>9 DEF ReleaseRead
<1>10. CASE \E p \in Procs : ReleaseUnlink(p)
  BY <1>10 DEF ReleaseUnlink, Unlink
<1>11. CASE \E p \in Procs : Die(p)
  BY <1>11 DEF Die, Alive
<1>12. CASE \E p \in Procs : Restart(p)
  BY <1>12 DEF Restart, Alive
<1>13. CASE FileAges
  BY <1>13 DEF FileAges
<1>14. CASE UNCHANGED lockVars
  BY <1>14 DEF lockVars
<1> QED
  BY <1>1, <1>2, <1>3, <1>4, <1>5, <1>6, <1>7, <1>8, <1>9, <1>10, <1>11, <1>12, <1>13, <1>14 DEF LockNext, Step

(* A step keeps what was read from the file at the path about its maker. *)
LEMMA StepSeen == LockTypeOK /\ WhatWasSeen /\ [LockNext]_lockVars => WhatWasSeen'
<1> SUFFICES ASSUME LockTypeOK, WhatWasSeen, [LockNext]_lockVars PROVE WhatWasSeen'
  OBVIOUS
<1> USE PidsAreNamed, LockBounds DEF LockTypeOK, Absent, fileVars, histVars, Goto, WhatWasSeen
<1>1. CASE \E p \in Procs : AcquireStat(p)
  BY <1>1 DEF AcquireStat
<1>2. CASE \E p \in Procs : ReadExisting(p)
  BY <1>2 DEF ReadExisting
<1>3. CASE \E p \in Procs : JudgeAge(p)
  BY <1>3 DEF JudgeAge
<1>4. CASE \E p \in Procs : JudgeOwner(p)
  BY <1>4 DEF JudgeOwner, OwnerIsDead, Alive
<1>5. CASE \E p \in Procs : RemoveStale(p)
  BY <1>5 DEF RemoveStale, Unlink
<1>6. CASE \E p \in Procs : CreateExclusive(p)
  BY <1>6 DEF CreateExclusive
<1>7. CASE \E p \in Procs : WritePid(p)
  BY <1>7 DEF WritePid
<1>8. CASE \E p \in Procs : WriteFails(p)
  BY <1>8 DEF WriteFails, Unlink
<1>9. CASE \E p \in Procs : ReleaseRead(p)
  BY <1>9 DEF ReleaseRead
<1>10. CASE \E p \in Procs : ReleaseUnlink(p)
  BY <1>10 DEF ReleaseUnlink, Unlink
<1>11. CASE \E p \in Procs : Die(p)
  BY <1>11 DEF Die, Alive
<1>12. CASE \E p \in Procs : Restart(p)
  BY <1>12 DEF Restart, Alive
<1>13. CASE FileAges
  BY <1>13 DEF FileAges
<1>14. CASE UNCHANGED lockVars
  BY <1>14 DEF lockVars
<1> QED
  BY <1>1, <1>2, <1>3, <1>4, <1>5, <1>6, <1>7, <1>8, <1>9, <1>10, <1>11, <1>12, <1>13, <1>14 DEF LockNext, Step

(* A step keeps a file that is about to be removed unheld, or old: a dead maker
   that comes back has forgotten its file. *)
LEMMA StepCondemned == LockTypeOK /\ OwnFile /\ WhatWasSeen /\ Condemned /\ [LockNext]_lockVars => Condemned'
<1> SUFFICES ASSUME LockTypeOK, OwnFile, WhatWasSeen, Condemned, [LockNext]_lockVars PROVE Condemned'
  OBVIOUS
<1> USE PidsAreNamed, LockBounds DEF LockTypeOK, Absent, fileVars, histVars, Goto, OwnFile, WhatWasSeen, Condemned, Holding, Working
<1>1. CASE \E p \in Procs : AcquireStat(p)
  BY <1>1 DEF AcquireStat
<1>2. CASE \E p \in Procs : ReadExisting(p)
  BY <1>2 DEF ReadExisting
<1>3. CASE \E p \in Procs : JudgeAge(p)
  BY <1>3 DEF JudgeAge
<1>4. CASE \E p \in Procs : JudgeOwner(p)
  BY <1>4 DEF JudgeOwner, OwnerIsDead, Alive
<1>5. CASE \E p \in Procs : RemoveStale(p)
  BY <1>5 DEF RemoveStale, Unlink
<1>6. CASE \E p \in Procs : CreateExclusive(p)
  BY <1>6 DEF CreateExclusive
<1>7. CASE \E p \in Procs : WritePid(p)
  BY <1>7 DEF WritePid
<1>8. CASE \E p \in Procs : WriteFails(p)
  BY <1>8 DEF WriteFails, Unlink
<1>9. CASE \E p \in Procs : ReleaseRead(p)
  BY <1>9 DEF ReleaseRead
<1>10. CASE \E p \in Procs : ReleaseUnlink(p)
  BY <1>10 DEF ReleaseUnlink, Unlink
<1>11. CASE \E p \in Procs : Die(p)
  BY <1>11 DEF Die, Alive
<1>12. CASE \E p \in Procs : Restart(p)
  BY <1>12 DEF Restart, Alive
<1>13. CASE FileAges
  BY <1>13 DEF FileAges
<1>14. CASE UNCHANGED lockVars
  BY <1>14 DEF lockVars
<1> QED
  BY <1>1, <1>2, <1>3, <1>4, <1>5, <1>6, <1>7, <1>8, <1>9, <1>10, <1>11, <1>12, <1>13, <1>14 DEF LockNext, Step

(* A step that is none of the two accidents keeps the file of a working
   process at the path. *)
LEMMA StepOwned == LockTypeOK /\ OwnFile /\ Condemned /\ Owned /\ [LockNext]_lockVars => Owned'
<1> SUFFICES ASSUME LockTypeOK, OwnFile, Condemned, Owned, [LockNext]_lockVars PROVE Owned'
  OBVIOUS
<1> USE PidsAreNamed, LockBounds DEF LockTypeOK, Absent, fileVars, histVars, Goto, OwnFile, Condemned, Owned, Holding, Working
<1>1. CASE \E p \in Procs : AcquireStat(p)
  BY <1>1 DEF AcquireStat
<1>2. CASE \E p \in Procs : ReadExisting(p)
  BY <1>2 DEF ReadExisting
<1>3. CASE \E p \in Procs : JudgeAge(p)
  BY <1>3 DEF JudgeAge
<1>4. CASE \E p \in Procs : JudgeOwner(p)
  BY <1>4 DEF JudgeOwner, OwnerIsDead, Alive
<1>5. CASE \E p \in Procs : RemoveStale(p)
  BY <1>5 DEF RemoveStale, Unlink
<1>6. CASE \E p \in Procs : CreateExclusive(p)
  BY <1>6 DEF CreateExclusive
<1>7. CASE \E p \in Procs : WritePid(p)
  BY <1>7 DEF WritePid
<1>8. CASE \E p \in Procs : WriteFails(p)
  BY <1>8 DEF WriteFails, Unlink
<1>9. CASE \E p \in Procs : ReleaseRead(p)
  BY <1>9 DEF ReleaseRead
<1>10. CASE \E p \in Procs : ReleaseUnlink(p)
  <2> PICK p \in Procs : ReleaseUnlink(p)
    BY <1>10
  <2>1. SUFFICES ASSUME ~trespass', ~expired, NEW h \in Procs, Working(h) PROVE FALSE
    BY DEF ReleaseUnlink
  <2>2. ~trespass /\ (Absent \/ file = mine[p])
    BY <2>1 DEF ReleaseUnlink
  <2>3. file = mine[h] /\ ~Absent /\ maker = h
    BY <2>1, <2>2
  <2>4. maker = p
    BY <2>2, <2>3
  <2> QED
    BY <2>1, <2>3, <2>4 DEF ReleaseUnlink
<1>11. CASE \E p \in Procs : Die(p)
  BY <1>11 DEF Die, Alive
<1>12. CASE \E p \in Procs : Restart(p)
  BY <1>12 DEF Restart, Alive
<1>13. CASE FileAges
  BY <1>13 DEF FileAges
<1>14. CASE UNCHANGED lockVars
  BY <1>14 DEF lockVars
<1> QED
  BY <1>1, <1>2, <1>3, <1>4, <1>5, <1>6, <1>7, <1>8, <1>9, <1>10, <1>11, <1>12, <1>13, <1>14 DEF LockNext, Step

-----------------------------------------------------------------------------
(* The invariant is inductive. *)
LEMMA StepHolds == LockInv /\ [LockNext]_lockVars => LockInv'
BY StepTyping, StepOwnFile, StepSeen, StepCondemned, StepOwned DEF LockInv

(* Every behaviour of the lock satisfies the invariant. *)
THEOREM LockInvariant == LockSpec => []LockInv
<1>1. LockInit => LockInv
  BY LockInitHolds
<1>2. LockInv /\ [LockNext]_lockVars => LockInv'
  BY StepHolds
<1> QED
  BY <1>1, <1>2, PTL DEF LockSpec

(* Acquire, Release: the variables keep their types, and a lock file names
   nobody but the process that created it. *)
THEOREM LockTypeCorrect == LockSpec => []LockTypeOK
<1>1. LockInv => LockTypeOK
  BY DEF LockInv
<1> QED
  BY <1>1, LockInvariant, PTL

(* Acquire, Release: until an accident, a process that holds the lock finds its
   own file at the path, with its PID in it. *)
THEOREM HolderAlwaysNamed == LockSpec => []HolderIsNamed
<1>1. LockInv => HolderIsNamed
  BY DEF LockInv, Owned, HolderIsNamed, Holders, Working
<1> QED
  BY <1>1, LockInvariant, PTL

(* Acquire, Release: until an accident, two holders are one: both have created
   the file at the path. *)
THEOREM LockIsExclusive == LockSpec => []MutualExclusion
<1>1. LockInv => MutualExclusion
  <2> SUFFICES ASSUME LockInv, ~trespass, ~expired, NEW p \in Holders, NEW q \in Holders
               PROVE  p = q
    BY DEF MutualExclusion
  <2>1. /\ p \in Procs /\ file = mine[p] /\ content = p
        /\ q \in Procs /\ file = mine[q] /\ content = q
    BY DEF LockInv, Owned, Holders, Working
  <2> QED
    BY <2>1
<1> QED
  BY <1>1, LockInvariant, PTL
=============================================================================
