-------------------------- MODULE BrowserApiProofs --------------------------
(***************************************************************************)
(* Proofs about the browser API, for every set of files and contents,      *)
(* every number of stores and every distribution of the files over them.   *)
(*                                                                         *)
(* An answer is protected in three phases.  While the first revision is    *)
(* computed, a file that was read is as the draft says, or has been left   *)
(* by the index since (FirstReading).  While the answer is put together    *)
(* the same holds of the revision the client asked for (Answering).  What  *)
(* was read under that condition either agrees with the revision for good, *)
(* or its file is among those the second computation will find changed, or *)
(* changed and back (Protected).                                           *)
(***************************************************************************)
EXTENDS BrowserApi, TLAPS

SnapshotPoints == {"files", "stats", "meta"}
AnswerPoints == {"content", "node", "names", "outgoing", "incoming", "neighbours", "confirm"}

(* ReadFiles has been to the store of the file. *)
FileRead(f) == StoreOf[f] < store \/ (StoreOf[f] = store /\ at \in {"stats", "meta"})

Standing(p) == asked.files[p[1]] \in {p[2], NoFile}

(* Variables that only the request writes are of their type. *)
RequestTypes ==
  /\ at \in SnapshotPoints \cup AnswerPoints \cup {"idle"}
  /\ at # "idle" => target \in Files /\ reply = "none"
  /\ store \in Stores
  /\ draft = [files |-> draft.files, counts |-> draft.counts, meta |-> draft.meta]
  /\ draft.files = [f \in Files |-> draft.files[f]]
  /\ pending \subseteq Files \X Files \X Contents
  /\ at \in AnswerPoints => ~confirming
  /\ at \in SnapshotPoints /\ ~confirming => seen = {} /\ pending = {}

(* A record is stored after its node, and deleted with it. *)
JobTypes ==
  /\ job.step \in {"none", "deleted", "nodes", "recorded"}
  /\ job.step # "none" =>
       /\ job.file \in Files /\ job.content \in Contents
       /\ job.incoming \subseteq {e \in Files \X Files : nodes[e[1]] # NoFile \/ e[1] = job.file}
       /\ \A e \in job.incoming : e[2] = job.file
  /\ job.step \in {"deleted", "nodes"} => rec[job.file] = NoFile
  /\ job.step \in {"nodes", "recorded"} => nodes[job.file] = job.content
  /\ \A f \in Files : rec[f] # NoFile => nodes[f] = rec[f]

FirstReading ==
  at \in SnapshotPoints /\ ~confirming =>
    \A f \in Files : FileRead(f) => f \in left \/ draft.files[f] = rec[f]

Answering ==
  at \in AnswerPoints => \A f \in Files : f \in left \/ asked.files[f] = rec[f]

Protected ==
  /\ at \in AnswerPoints =>
       /\ \A p \in seen : Standing(p) \/ p[1] \in left
       /\ \A q \in pending : Standing(<<q[2], q[3]>>) \/ q[2] \in left
  /\ at \in SnapshotPoints =>
       \A p \in seen :
         \/ Standing(p)
         \/ ~FileRead(p[1]) /\ p[1] \in left
         \/ FileRead(p[1]) /\ (p[1] \in back \/ draft.files[p[1]] # asked.files[p[1]])

ApiInv == /\ TypeOK /\ RequestTypes /\ JobTypes
          /\ FirstReading /\ Answering /\ Protected /\ AnswersMatchRevision

LEMMA ApiInit == Init => ApiInv
<1> SUFFICES ASSUME Init PROVE ApiInv
  OBVIOUS
<1> USE ApiBounds DEF Init
<1>1. TypeOK
  BY DEF TypeOK
<1>2. RequestTypes
  BY DEF RequestTypes, SnapshotPoints, AnswerPoints, Stores, NoRevision
<1>3. JobTypes
  BY DEF JobTypes, NoJob
<1>4. FirstReading /\ Answering /\ Protected /\ AnswersMatchRevision
  BY DEF FirstReading, Answering, Protected, AnswersMatchRevision, SnapshotPoints, AnswerPoints
<1>5. QED
  BY <1>1, <1>2, <1>3, <1>4 DEF ApiInv

(* A transaction of the index leaves what protects the answer: the record  *)
(* of a file changes only when the file is noted as left.                  *)
LEMMA IndexStep ==
  ASSUME ApiInv, UNCHANGED requestVars,
         left \subseteq left', \A f \in Files : rec'[f] = rec[f] \/ f \in left'
  PROVE  FirstReading' /\ Answering' /\ Protected' /\ AnswersMatchRevision'
<1>1. UNCHANGED <<at, store, confirming, pending, draft, asked, seen, reply, back>>
  BY DEF requestVars
<1>2. FirstReading'
  BY <1>1 DEF ApiInv, FirstReading, FileRead
<1>3. Answering'
  BY <1>1 DEF ApiInv, Answering
<1>4. Protected'
  BY <1>1 DEF ApiInv, Protected, FileRead, Standing
<1>5. AnswersMatchRevision'
  BY <1>1 DEF ApiInv, AnswersMatchRevision
<1>6. QED
  BY <1>2, <1>3, <1>4, <1>5

(* The working tree, the sync and the stamps. *)
LEMMA IndexKeepsInv ==
  ASSUME ApiInv,
         \/ \E f \in Files, c \in Contents \cup {NoFile} : Edit(f, c)
         \/ Sync \/ \E s \in Stores : Stamp(s)
  PROVE  ApiInv'
<1> USE ApiBounds
<1>0. /\ TypeOK /\ RequestTypes /\ JobTypes
  BY DEF ApiInv
<1>1. UNCHANGED requestVars
  BY DEF Edit, Sync, SyncDelete, SyncNodes, SyncRecord, SyncEdges, Stamp
<1>2. RequestTypes'
  BY <1>0, <1>1 DEF RequestTypes, requestVars
<1>3. ASSUME NEW f \in Files, NEW c \in Contents \cup {NoFile}, Edit(f, c) PROVE ApiInv'
  <2>1. UNCHANGED <<indexVars, left>> /\ disk' = [disk EXCEPT ![f] = c]
    BY <1>3 DEF Edit
  <2>2. TypeOK' /\ JobTypes'
    BY <1>0, <1>1, <2>1 DEF TypeOK, JobTypes, indexVars, requestVars
  <2>3. QED
    BY <1>1, <1>2, <2>1, <2>2, IndexStep DEF ApiInv, indexVars
<1>4. ASSUME NEW f \in Files, SyncDelete(f) PROVE ApiInv'
  <2> USE <1>4 DEF SyncDelete
  <2>1. TypeOK'
    BY <1>0, <1>1 DEF TypeOK, requestVars, Cascaded
  <2>2. JobTypes'
    <3>1. rec' = [rec EXCEPT ![f] = NoFile] /\ nodes' = [nodes EXCEPT ![f] = NoFile]
      OBVIOUS
    <3>2. CASE disk[f] = NoFile
      BY <1>0, <3>1, <3>2 DEF JobTypes, TypeOK, NoJob
    <3>3. CASE disk[f] # NoFile
      <4>1. job' = [file |-> f, content |-> disk[f], step |-> "deleted",
                    incoming |-> {e \in edges : e[2] = f}]
        BY <3>3
      <4>2. job'.incoming = {e \in edges : e[2] = f} /\ job'.step = "deleted"
            /\ job'.file = f /\ job'.content = disk[f]
        BY <4>1
      <4>3. job'.file \in Files /\ job'.content \in Contents
        BY <1>0, <3>3, <4>2 DEF TypeOK
      <4>4. job'.incoming \subseteq {e \in Files \X Files : nodes'[e[1]] # NoFile \/ e[1] = job'.file}
        BY <1>0, <3>1, <4>2 DEF TypeOK
      <4>5. \A e \in job'.incoming : e[2] = job'.file
        BY <4>2
      <4>6. rec'[f] = NoFile /\ \A h \in Files : rec'[h] # NoFile => nodes'[h] = rec'[h]
        BY <1>0, <3>1 DEF TypeOK, JobTypes
      <4>7. QED
        BY <4>2, <4>3, <4>4, <4>5, <4>6 DEF JobTypes
    <3>4. QED
      BY <3>2, <3>3
  <2>3. left \subseteq left' /\ \A h \in Files : rec'[h] = rec[h] \/ h \in left'
    BY <1>0 DEF Written, TypeOK
  <2>4. QED
    BY <1>1, <1>2, <2>1, <2>2, <2>3, IndexStep DEF ApiInv
<1>5. CASE SyncNodes
  <2> USE <1>5 DEF SyncNodes
  <2>1. /\ nodes' = [nodes EXCEPT ![job.file] = job.content]
        /\ job' = [job EXCEPT !.step = "nodes"] /\ job.file \in Files /\ job.content \in Contents
        /\ UNCHANGED <<disk, rec, edges, left>> /\ nodes \in [Files -> Contents \cup {NoFile}]
    BY <1>0 DEF JobTypes, TypeOK
  <2>2. TypeOK'
    BY <1>0, <1>1, <2>1 DEF TypeOK, requestVars
  <2>3. JobTypes'
    BY <1>0, <2>1 DEF JobTypes, TypeOK
  <2>4. QED
    BY <1>1, <1>2, <2>1, <2>2, <2>3, IndexStep DEF ApiInv
<1>6. CASE SyncRecord
  <2> USE <1>6 DEF SyncRecord
  <2>1. /\ rec' = [rec EXCEPT ![job.file] = job.content]
        /\ job' = [job EXCEPT !.step = "recorded"] /\ job.file \in Files /\ job.content \in Contents
        /\ UNCHANGED <<disk, nodes, edges>> /\ rec \in [Files -> Contents \cup {NoFile}]
        /\ left' = left \cup {job.file}
    BY <1>0 DEF JobTypes, TypeOK, Written
  <2>2. TypeOK'
    BY <1>0, <1>1, <2>1 DEF TypeOK, requestVars
  <2>3. JobTypes'
    BY <1>0, <2>1 DEF JobTypes, TypeOK
  <2>4. QED
    BY <1>1, <1>2, <2>1, <2>2, <2>3, IndexStep DEF ApiInv
<1>7. CASE SyncEdges
  <2> USE <1>7 DEF SyncEdges
  <2>1. /\ edges' = edges \cup job.incoming
             \cup {e \in {job.file} \X NodesOf(StoreOf[job.file]) :
                     e[2] # job.file /\ job.content \in Calling}
        /\ job' = NoJob /\ UNCHANGED <<disk, rec, nodes, left>>
        /\ job.file \in Files /\ nodes[job.file] # NoFile
    BY <1>0 DEF JobTypes, TypeOK
  <2>2. edges' \subseteq {e \in Files \X Files : nodes[e[1]] # NoFile /\ nodes[e[2]] # NoFile}
    <3>1. job.incoming \subseteq {e \in Files \X Files : nodes[e[1]] # NoFile /\ nodes[e[2]] # NoFile}
      BY <1>0, <2>1 DEF JobTypes
    <3>2. {job.file} \X NodesOf(StoreOf[job.file])
            \subseteq {e \in Files \X Files : nodes[e[1]] # NoFile /\ nodes[e[2]] # NoFile}
      BY <2>1 DEF NodesOf, FilesOf
    <3>3. QED
      BY <1>0, <2>1, <3>1, <3>2 DEF TypeOK
  <2>3. TypeOK'
    BY <1>0, <1>1, <2>1, <2>2 DEF TypeOK, requestVars
  <2>4. JobTypes'
    BY <1>0, <2>1 DEF JobTypes, NoJob
  <2>5. QED
    BY <1>1, <1>2, <2>1, <2>3, <2>4, IndexStep DEF ApiInv
<1>8. ASSUME NEW s \in Stores, Stamp(s) PROVE ApiInv'
  <2>1. UNCHANGED <<disk, rec, nodes, edges, job, left>>
    BY <1>8 DEF Stamp
  <2>2. TypeOK' /\ JobTypes'
    BY <1>0, <1>1, <2>1 DEF TypeOK, JobTypes, requestVars
  <2>3. QED
    BY <1>1, <1>2, <2>1, <2>2, IndexStep DEF ApiInv
<1>9. QED
  BY <1>3, <1>4, <1>5, <1>6, <1>7, <1>8 DEF Sync

(* A query changes nothing of the index. *)
LEMMA QueryKeepsIndex ==
  ASSUME ApiInv, Request PROVE UNCHANGED Unwritten /\ JobTypes'
<1>1. UNCHANGED Unwritten
  BY DEF Request, Query, ReadFiles, ReadStats, ReadMeta, ReadContent, ReadNode, ReadNames,
     ReadEdges, ReadNeighbour, Confirm, Begin
<1>2. JobTypes'
  BY <1>1 DEF Unwritten, indexVars, ApiInv, JobTypes
<1>3. QED
  BY <1>1, <1>2

LEMMA BeginKeepsInv ==
  ASSUME ApiInv, NEW o \in Ops, NEW f \in Files, Begin(o, f) PROVE ApiInv'
<1> USE ApiBounds DEF Begin
<1>0. UNCHANGED Unwritten /\ JobTypes'
  BY QueryKeepsIndex DEF Request
<1>1. TypeOK'
  BY <1>0 DEF ApiInv, TypeOK, Unwritten, indexVars
<1>2. RequestTypes'
  BY DEF RequestTypes, SnapshotPoints, AnswerPoints, Stores, NoRevision
<1>3. FirstReading'
  <2>1. \A h \in Files : ~FileRead(h)'
    BY DEF FileRead
  <2>2. QED
    BY <2>1 DEF FirstReading
<1>4. Answering' /\ Protected' /\ AnswersMatchRevision'
  BY DEF Answering, Protected, AnswersMatchRevision, AnswerPoints
<1>5. QED
  BY <1>0, <1>1, <1>2, <1>3, <1>4 DEF ApiInv

LEMMA ReadFilesKeepsInv == ASSUME ApiInv, ReadFiles PROVE ApiInv'
<1> USE ApiBounds
<1>0. UNCHANGED Unwritten /\ JobTypes'
  BY QueryKeepsIndex DEF Request, Query
<1>1. /\ at = "files" /\ at' = "stats"
      /\ draft' = [draft EXCEPT !.files =
           [f \in Files |-> IF f \in FilesOf(store) THEN rec[f] ELSE @[f]]]
      /\ UNCHANGED <<target, store, confirming, pending, asked, seen, reply>>
  BY DEF ReadFiles
<1>2. /\ draft'.files = [f \in Files |-> IF StoreOf[f] = store THEN rec[f] ELSE draft.files[f]]
      /\ draft' = [files |-> draft'.files, counts |-> draft'.counts, meta |-> draft'.meta]
  BY <1>1 DEF ApiInv, RequestTypes, FilesOf
<1>3. TypeOK'
  BY <1>0, <1>1 DEF ApiInv, TypeOK, Unwritten, indexVars
<1>4. RequestTypes'
  BY <1>1, <1>2 DEF ApiInv, RequestTypes, SnapshotPoints, AnswerPoints
<1>5. \A f \in Files : FileRead(f)' <=> FileRead(f) \/ StoreOf[f] = store
  BY <1>1 DEF FileRead
<1>6. FirstReading'
  <2> SUFFICES ASSUME ~confirming, NEW f \in Files, FileRead(f)'
               PROVE  f \in left' \/ draft'.files[f] = rec[f]
    BY <1>0, <1>1 DEF FirstReading, Unwritten, indexVars
  <2>1. left' = left \ FilesOf(store)
    BY DEF ReadFiles
  <2>2. CASE StoreOf[f] = store
    BY <1>2, <2>2
  <2>3. CASE StoreOf[f] # store
    BY <1>1, <1>2, <1>5, <2>1, <2>3 DEF ApiInv, FirstReading, SnapshotPoints, FilesOf
  <2>4. QED
    BY <2>2, <2>3
<1>7. Answering' /\ AnswersMatchRevision'
  BY <1>1 DEF Answering, AnswersMatchRevision, AnswerPoints, ApiInv, RequestTypes
<1>8. Protected'
  <2> SUFFICES ASSUME NEW p \in seen
               PROVE  \/ Standing(p)
                      \/ ~FileRead(p[1])' /\ p[1] \in left'
                      \/ FileRead(p[1])' /\ (p[1] \in back' \/ draft'.files[p[1]] # asked.files[p[1]])
    BY <1>1 DEF Protected, AnswerPoints, SnapshotPoints, Standing
  <2>1. CASE ~confirming
    BY <1>1, <2>1 DEF ApiInv, RequestTypes, SnapshotPoints
  <2>2. CASE confirming
    <3>1. /\ UNCHANGED left
          /\ back' = back \cup {f \in FilesOf(store) \cap left : rec[f] = asked.files[f]}
      BY <2>2 DEF ReadFiles
    <3>2. p[1] \in Files
      BY DEF ApiInv, TypeOK
    <3>3. \/ Standing(p)
          \/ ~FileRead(p[1]) /\ p[1] \in left
          \/ FileRead(p[1]) /\ (p[1] \in back \/ draft.files[p[1]] # asked.files[p[1]])
      BY <1>1 DEF ApiInv, Protected, SnapshotPoints
    <3>4. CASE StoreOf[p[1]] = store
      <4>1. FileRead(p[1])' /\ ~FileRead(p[1])
        BY <1>1, <1>5, <3>2, <3>4 DEF FileRead, ApiInv, RequestTypes, Stores
      <4>2. draft'.files[p[1]] = rec[p[1]]
        BY <1>2, <3>2, <3>4
      <4>3. QED
        BY <3>1, <3>2, <3>3, <3>4, <4>1, <4>2 DEF FilesOf
    <3>5. CASE StoreOf[p[1]] # store
      <4>1. draft'.files[p[1]] = draft.files[p[1]]
        BY <1>2, <3>2, <3>5
      <4>2. QED
        BY <1>5, <3>1, <3>2, <3>3, <3>5, <4>1
    <3>6. QED
      BY <3>4, <3>5
  <2>3. QED
    BY <2>1, <2>2
<1>9. QED
  BY <1>0, <1>3, <1>4, <1>6, <1>7, <1>8 DEF ApiInv

LEMMA ReadStatsKeepsInv == ASSUME ApiInv, ReadStats PROVE ApiInv'
<1> USE ApiBounds
<1>0. UNCHANGED Unwritten /\ JobTypes'
  BY QueryKeepsIndex DEF Request, Query
<1>1. /\ at = "stats" /\ at' = "meta"
      /\ UNCHANGED <<target, store, confirming, pending, asked, seen, reply, back, left>>
  BY DEF ReadStats
<1>2. /\ draft'.files = draft.files
      /\ draft' = [files |-> draft'.files, counts |-> draft'.counts, meta |-> draft'.meta]
  BY DEF ApiInv, RequestTypes, ReadStats
<1>3. TypeOK' /\ RequestTypes'
  BY <1>0, <1>1, <1>2 DEF ApiInv, TypeOK, RequestTypes, Unwritten, indexVars, SnapshotPoints,
     AnswerPoints
<1>4. FirstReading' /\ Answering' /\ Protected' /\ AnswersMatchRevision'
  BY <1>0, <1>1, <1>2 DEF ApiInv, RequestTypes, FirstReading, Answering, Protected, AnswersMatchRevision,
     SnapshotPoints, AnswerPoints, FileRead, Standing, Unwritten, indexVars
<1>5. QED
  BY <1>0, <1>3, <1>4 DEF ApiInv

(* The comparison of the two revisions, first and last. *)
LEMMA ReadMetaKeepsInv == ASSUME ApiInv, ReadMeta PROVE ApiInv'
<1> USE ApiBounds
<1>0. UNCHANGED Unwritten /\ JobTypes'
  BY QueryKeepsIndex DEF Request, Query
<1>1. /\ at = "meta" /\ reply = "none"
      /\ UNCHANGED <<target, confirming, pending, seen, back, left>>
  BY DEF ReadMeta, ApiInv, RequestTypes
<1>2. TypeOK'
  BY <1>0, <1>1 DEF ApiInv, TypeOK, Unwritten, indexVars
<1>3. /\ Digest.files = draft.files
      /\ Digest = [files |-> Digest.files, counts |-> Digest.counts, meta |-> Digest.meta]
  BY DEF Digest, ApiInv, RequestTypes
<1>4. CASE store < LastStore
  <2>1. draft' = Digest /\ store' = store + 1 /\ at' = "files" /\ UNCHANGED <<asked, reply>>
    BY <1>4 DEF ReadMeta
  <2>2. store' \in Stores
    BY <1>4, <2>1 DEF ApiInv, RequestTypes, Stores
  <2>3. RequestTypes'
    BY <1>1, <1>3, <2>1, <2>2 DEF ApiInv, RequestTypes, SnapshotPoints, AnswerPoints
  <2>4. \A f \in Files : FileRead(f)' <=> FileRead(f)
    BY <1>1, <2>1 DEF ApiInv, RequestTypes, Stores, FileRead
  <2>5. FirstReading'
    BY <1>0, <1>1, <1>3, <2>1, <2>4 DEF ApiInv, FirstReading, SnapshotPoints, Unwritten, indexVars
  <2>6. Protected'
    BY <1>1, <1>3, <2>1, <2>4 DEF ApiInv, TypeOK, Protected, Standing, SnapshotPoints, AnswerPoints
  <2>7. Answering' /\ AnswersMatchRevision'
    BY <1>1, <2>1 DEF Answering, AnswersMatchRevision, AnswerPoints
  <2>8. QED
    BY <1>0, <1>2, <2>3, <2>5, <2>6, <2>7 DEF ApiInv
<1>5. CASE ~(store < LastStore)
  <2>1. draft' = NoRevision /\ store' = 1
    BY <1>5 DEF ReadMeta
  <2>2. \A f \in Files : FileRead(f)
    BY <1>1, <1>5 DEF ApiInv, RequestTypes, Stores, FileRead
  <2>3. \/ /\ op # "repository" /\ Digest = asked /\ ~confirming
           /\ at' = FirstQuery /\ UNCHANGED <<asked, reply>>
        \/ /\ op # "repository" /\ Digest = asked /\ confirming
           /\ at' = "idle" /\ reply' = "ok" /\ UNCHANGED asked
        \/ at' = "idle" /\ reply' \in {"repository", "conflict"}
    BY <1>5 DEF ReadMeta, Ends
  <2>4. CASE at' = FirstQuery /\ Digest = asked /\ ~confirming /\ UNCHANGED <<asked, reply>>
    <3>1. at' \in AnswerPoints
      BY <2>4 DEF FirstQuery, AnswerPoints
    <3>2. RequestTypes'
      BY <1>1, <2>1, <2>4, <3>1 DEF ApiInv, RequestTypes, SnapshotPoints, AnswerPoints, NoRevision,
         Stores
    <3>3. Answering'
      BY <1>0, <1>1, <1>3, <2>2, <2>4 DEF ApiInv, FirstReading, Answering, SnapshotPoints,
         Unwritten, indexVars
    <3>4. FirstReading' /\ Protected' /\ AnswersMatchRevision'
      BY <1>1, <2>4, <3>1 DEF ApiInv, RequestTypes, FirstReading, Protected, AnswersMatchRevision,
         SnapshotPoints, AnswerPoints
    <3>5. QED
      BY <1>0, <1>2, <3>2, <3>3, <3>4 DEF ApiInv
  <2>5. CASE at' = "idle" /\ (reply' = "ok" => confirming /\ Digest = asked /\ UNCHANGED asked)
    <3>1. RequestTypes'
      BY <1>1, <2>1, <2>5 DEF ApiInv, RequestTypes, SnapshotPoints, AnswerPoints, NoRevision, Stores
    <3>2. FirstReading' /\ Answering' /\ Protected'
      BY <2>5 DEF FirstReading, Answering, Protected, SnapshotPoints, AnswerPoints
    <3>3. AnswersMatchRevision'
      BY <1>1, <1>3, <2>2, <2>5 DEF ApiInv, TypeOK, Protected, AnswersMatchRevision, Standing,
         SnapshotPoints
    <3>4. QED
      BY <1>0, <1>2, <3>1, <3>2, <3>3 DEF ApiInv
  <2>6. QED
    BY <2>3, <2>4, <2>5
<1>6. QED
  BY <1>4, <1>5

(* What a query reads from the index while the answer is put together. *)
LEMMA AnswerKeepsInv ==
  ASSUME ApiInv,
         ReadContent \/ ReadNode \/ ReadNames \/ ReadEdges \/ \E p \in pending : ReadNeighbour(p)
  PROVE  ApiInv'
<1> USE ApiBounds
<1>0. UNCHANGED Unwritten /\ JobTypes'
  BY QueryKeepsIndex DEF Request, Query
<1>1. /\ at \in AnswerPoints /\ at' \in AnswerPoints \cup {"idle"}
      /\ UNCHANGED <<target, confirming, draft, asked, back, left>>
      /\ ~confirming /\ target \in Files
  BY DEF ReadContent, ReadNode, ReadNames, ReadEdges, ReadNeighbour, Ends, ApiInv, RequestTypes,
     AnswerPoints
<1>2. \A f \in Files : f \in left \/ asked.files[f] = rec[f]
  BY <1>1 DEF ApiInv, Answering
<1>3. \A f \in Files : f \in left \/ asked.files[f] \in {nodes[f], NoFile}
  BY <1>2 DEF ApiInv, JobTypes
<1>4. CASE ReadContent \/ ReadNode \/ ReadNames
  <2>1. UNCHANGED pending
    BY <1>4 DEF ReadContent, ReadNode, ReadNames
  <2>2. /\ seen' \subseteq Files \X Contents
        /\ \A p \in seen' : p \in seen \/ Standing(p) \/ p[1] \in left
    <3>1. CASE ReadContent
      BY <1>0, <1>1, <3>1 DEF ReadContent, ApiInv, TypeOK, Standing
    <3>2. CASE ReadNode
      BY <1>1, <1>3, <3>2 DEF ReadNode, ApiInv, TypeOK, Standing
    <3>3. CASE ReadNames
      <4>1. \A f \in NodesOf(store) : f \in Files /\ nodes[f] \in Contents
        BY DEF ApiInv, TypeOK, NodesOf, FilesOf
      <4>2. seen' = seen \cup {<<f, nodes[f]>> : f \in NodesOf(store)}
        BY <3>3 DEF ReadNames
      <4>3. QED
        BY <1>3, <4>1, <4>2 DEF ApiInv, TypeOK, Standing
    <3>4. QED
      BY <1>4, <3>1, <3>2, <3>3
  <2>3. TypeOK'
    BY <1>0, <2>2 DEF ApiInv, TypeOK, Unwritten, indexVars
  <2>4. store' \in Stores /\ (at' # "idle" => reply' = "none") /\ (at' = "idle" => reply' # "ok")
    BY <1>4 DEF ReadContent, ReadNode, ReadNames, Ends, ApiInv, RequestTypes, Stores, AnswerPoints
  <2>5. RequestTypes'
    BY <1>1, <2>1, <2>4 DEF ApiInv, RequestTypes, SnapshotPoints, AnswerPoints
  <2>6. Answering'
    BY <1>0, <1>1, <1>2 DEF Answering, Unwritten, indexVars
  <2>7. Protected'
    BY <1>1, <2>1, <2>2 DEF ApiInv, Protected, Standing, SnapshotPoints, AnswerPoints
  <2>8. FirstReading' /\ AnswersMatchRevision'
    BY <1>1, <2>4 DEF FirstReading, AnswersMatchRevision, SnapshotPoints, AnswerPoints
  <2>9. QED
    BY <1>0, <2>3, <2>5, <2>6, <2>7, <2>8 DEF ApiInv
<1>5. CASE ReadEdges
  <2>1. /\ pending' = pending \cup
             {<<IF at = "outgoing" THEN e[2] ELSE e[1], e[1], nodes[e[1]]>> :
                e \in {e \in edges : target = IF at = "outgoing" THEN e[1] ELSE e[2]}}
        /\ at' \in {"incoming", "neighbours"} /\ UNCHANGED <<store, seen, reply>>
    BY <1>5 DEF ReadEdges
  <2>2. \A e \in edges : e[1] \in Files /\ e[2] \in Files /\ nodes[e[1]] \in Contents
    BY DEF ApiInv, TypeOK
  <2>3. pending' \subseteq Files \X Files \X Contents
    BY <2>1, <2>2 DEF ApiInv, RequestTypes
  <2>4. \A q \in pending' : q \in pending \/ Standing(<<q[2], q[3]>>) \/ q[2] \in left
    BY <1>3, <2>1, <2>2 DEF Standing
  <2>5. TypeOK'
    BY <1>0, <2>1 DEF ApiInv, TypeOK, Unwritten, indexVars
  <2>6. RequestTypes'
    BY <1>1, <2>1, <2>3 DEF ApiInv, RequestTypes, SnapshotPoints, AnswerPoints
  <2>7. Answering'
    BY <1>0, <1>1, <1>2 DEF Answering, Unwritten, indexVars
  <2>8. Protected'
    BY <1>1, <2>1, <2>4 DEF ApiInv, Protected, Standing, SnapshotPoints, AnswerPoints
  <2>9. FirstReading' /\ AnswersMatchRevision'
    BY <1>1, <2>1 DEF ApiInv, RequestTypes, FirstReading, AnswersMatchRevision, SnapshotPoints,
       AnswerPoints
  <2>10. QED
    BY <1>0, <2>5, <2>6, <2>7, <2>8, <2>9 DEF ApiInv
<1>6. ASSUME NEW q \in pending, ReadNeighbour(q) PROVE ApiInv'
  <2>1. /\ pending' = pending \ {q} /\ UNCHANGED <<at, store, reply>>
        /\ \/ UNCHANGED seen
           \/ nodes[q[1]] # NoFile /\ seen' = seen \cup {<<q[1], nodes[q[1]]>>, <<q[2], q[3]>>}
    BY <1>6 DEF ReadNeighbour
  <2>2. q[1] \in Files /\ q[2] \in Files /\ q[3] \in Contents /\ nodes[q[1]] \in Contents \cup {NoFile}
    BY DEF ApiInv, RequestTypes, TypeOK
  <2>3. Standing(<<q[2], q[3]>>) \/ q[2] \in left
    BY <1>1 DEF ApiInv, Protected
  <2>4. /\ seen' \subseteq Files \X Contents
        /\ \A p \in seen' : p \in seen \/ Standing(p) \/ p[1] \in left
    BY <1>3, <2>1, <2>2, <2>3 DEF ApiInv, TypeOK, Standing
  <2>5. TypeOK'
    BY <1>0, <2>4 DEF ApiInv, TypeOK, Unwritten, indexVars
  <2>6. RequestTypes'
    BY <1>1, <2>1 DEF ApiInv, RequestTypes, SnapshotPoints, AnswerPoints
  <2>7. Answering'
    BY <1>0, <1>1, <1>2 DEF Answering, Unwritten, indexVars
  <2>8. Protected'
    BY <1>1, <2>1, <2>4 DEF ApiInv, Protected, Standing, SnapshotPoints, AnswerPoints
  <2>9. FirstReading' /\ AnswersMatchRevision'
    BY <1>1, <2>1 DEF ApiInv, RequestTypes, FirstReading, AnswersMatchRevision, SnapshotPoints,
       AnswerPoints
  <2>10. QED
    BY <1>0, <2>5, <2>6, <2>7, <2>8, <2>9 DEF ApiInv
<1>7. QED
  BY <1>4, <1>5, <1>6

LEMMA ConfirmKeepsInv == ASSUME ApiInv, Confirm PROVE ApiInv'
<1> USE ApiBounds
<1>0. UNCHANGED Unwritten /\ JobTypes'
  BY QueryKeepsIndex DEF Request, Query
<1>1. /\ at \in AnswerPoints /\ at' = "files" /\ store' = 1 /\ confirming' = TRUE
      /\ draft' = NoRevision /\ UNCHANGED <<target, pending, asked, seen, reply, back, left>>
  BY DEF Confirm, AnswerPoints
<1>2. \A f \in Files : ~FileRead(f)'
  BY <1>1 DEF FileRead
<1>3. TypeOK' /\ RequestTypes'
  BY <1>0, <1>1 DEF ApiInv, TypeOK, RequestTypes, Unwritten, indexVars, SnapshotPoints, AnswerPoints,
     Stores, NoRevision
<1>4. Protected'
  BY <1>1, <1>2 DEF ApiInv, TypeOK, Protected, Standing, SnapshotPoints, AnswerPoints
<1>5. FirstReading' /\ Answering' /\ AnswersMatchRevision'
  BY <1>1 DEF ApiInv, RequestTypes, FirstReading, Answering, AnswersMatchRevision, SnapshotPoints,
     AnswerPoints
<1>6. QED
  BY <1>0, <1>3, <1>4, <1>5 DEF ApiInv

LEMMA ApiStep == ApiInv /\ [Next]_vars => ApiInv'
<1> SUFFICES ASSUME ApiInv, [Next]_vars PROVE ApiInv'
  OBVIOUS
<1>1. CASE UNCHANGED vars
  <2>1. UNCHANGED <<requestVars, indexVars, disk, left>>
    BY <1>1 DEF vars
  <2>2. TypeOK' /\ RequestTypes' /\ JobTypes'
    BY <2>1 DEF ApiInv, TypeOK, RequestTypes, JobTypes, requestVars, indexVars
  <2>3. QED
    BY <2>1, <2>2, IndexStep DEF ApiInv, indexVars
<1>2. CASE \/ \E f \in Files, c \in Contents \cup {NoFile} : Edit(f, c)
           \/ Sync \/ \E s \in Stores : Stamp(s)
  BY <1>2, IndexKeepsInv
<1>3. ASSUME NEW o \in Ops, NEW f \in Files, Begin(o, f) PROVE ApiInv'
  BY <1>3, BeginKeepsInv
<1>4. CASE ReadFiles \/ ReadStats \/ ReadMeta \/ Confirm
  BY <1>4, ReadFilesKeepsInv, ReadStatsKeepsInv, ReadMetaKeepsInv, ConfirmKeepsInv
<1>5. CASE ReadContent \/ ReadNode \/ ReadNames \/ ReadEdges \/ \E p \in pending : ReadNeighbour(p)
  BY <1>5, AnswerKeepsInv
<1>6. QED
  BY <1>1, <1>2, <1>3, <1>4, <1>5 DEF Next, Request, Query, Sync

(* Whatever the sync writes between the queries of a request, the edges    *)
(* join symbols that are there and an answer names symbols with contents   *)
(* (server.go, graph.go).                                                  *)
THEOREM ApiTypesCorrect == Spec => []TypeOK
<1>1. ApiInv => TypeOK
  BY DEF ApiInv
<1>2. QED
  BY <1>1, ApiInit, ApiStep, PTL DEF Spec

(* An answer agrees with the revision it names, unless a file was changed  *)
(* and changed back between the two comparisons (ensureCurrentRevision).   *)
THEOREM AnswersAreOfTheirRevision == Spec => []AnswersMatchRevision
<1>1. ApiInv => AnswersMatchRevision
  BY DEF ApiInv
<1>2. QED
  BY <1>1, ApiInit, ApiStep, PTL DEF Spec

-----------------------------------------------------------------------------
(* No false conflicts.  As long as nothing has been written since a        *)
(* request for the true revision began, what was asked for and what has    *)
(* been read of the revision are the index as it is.                       *)

(* The counts and the metadata of the store have been read. *)
Counted(s) == s < store \/ (s = store /\ at = "meta")

DraftIsTrue ==
  at \in SnapshotPoints =>
    /\ \A f \in Files : FileRead(f) => draft.files[f] = rec[f]
    /\ \A s \in Stores :
         Counted(s) => draft.counts[s] = <<Cardinality(NodesOf(s)), Cardinality(EdgesOf(s))>>
    /\ \A s \in Stores : s < store => draft.meta[s] = stamp[s]

QuietInv ==
  /\ stamp = [s \in Stores |-> stamp[s]]
  /\ draft.counts = [s \in Stores |-> draft.counts[s]]
  /\ draft.meta = [s \in Stores |-> draft.meta[s]]
  /\ \A f \in Files : nodes[f] = rec[f] \/ (f = job.file /\ job.step \in {"deleted", "nodes"})
  /\ quiet /\ at # "idle" /\ op # "repository" => asked = TrueRevision /\ DraftIsTrue
  /\ NoFalseConflict

LEMMA QuietInit == Init => QuietInv
  BY DEF Init, QuietInv, NoRevision, NoFalseConflict, Stores

(* A write ends the quiet, and what is not a write leaves the revision. *)
LEMMA QuietIndexStep ==
  ASSUME ApiInv, QuietInv,
         \/ \E f \in Files, c \in Contents \cup {NoFile} : Edit(f, c)
         \/ Sync \/ \E s \in Stores : Stamp(s)
  PROVE  QuietInv'
<1>1. UNCHANGED requestVars
  BY DEF Edit, Sync, SyncDelete, SyncNodes, SyncRecord, SyncEdges, Stamp
<1>2. stamp' = [s \in Stores |-> stamp'[s]]
  BY DEF QuietInv, Edit, Sync, SyncDelete, SyncNodes, SyncRecord, SyncEdges, Stamp, indexVars
<1>3. \A f \in Files : nodes'[f] = rec'[f] \/ (f = job'.file /\ job'.step \in {"deleted", "nodes"})
  <2>1. CASE \/ \E f \in Files, c \in Contents \cup {NoFile} : Edit(f, c)
             \/ \E s \in Stores : Stamp(s)
    BY <2>1 DEF QuietInv, Edit, Stamp, indexVars
  <2>2. ASSUME NEW f \in Files, SyncDelete(f)
        PROVE  \A h \in Files : nodes'[h] = rec'[h]
    BY <2>2 DEF SyncDelete, QuietInv, ApiInv, TypeOK
  <2>3. CASE SyncNodes
    BY <2>3 DEF SyncNodes, QuietInv, ApiInv, TypeOK, JobTypes
  <2>4. CASE SyncRecord
    BY <2>4 DEF SyncRecord, QuietInv, ApiInv, TypeOK, JobTypes
  <2>5. CASE SyncEdges
    BY <2>5 DEF SyncEdges, QuietInv
  <2>6. QED
    BY <2>1, <2>2, <2>3, <2>4, <2>5 DEF Sync
<1>4. quiet' => UNCHANGED <<rec, nodes, edges, stamp, quiet>>
  <2>1. CASE \E f \in Files, c \in Contents \cup {NoFile} : Edit(f, c)
    BY <2>1 DEF Edit, indexVars
  <2>2. ASSUME NEW f \in Files, SyncDelete(f), quiet'
        PROVE  UNCHANGED <<rec, nodes, edges, stamp, quiet>>
    <3>1. rec[f] = NoFile /\ nodes[f] = NoFile
      BY <2>2 DEF SyncDelete, Written, QuietInv
    <3>2. UNCHANGED <<rec, nodes>>
      BY <2>2, <3>1 DEF SyncDelete, ApiInv, TypeOK
    <3>3. Cascaded(f) = edges
      BY <3>1 DEF Cascaded, ApiInv, TypeOK
    <3>4. QED
      BY <2>2, <3>1, <3>2, <3>3 DEF SyncDelete
  <2>3. CASE SyncNodes \/ SyncRecord \/ SyncEdges \/ \E s \in Stores : Stamp(s)
    BY <2>3 DEF SyncNodes, SyncRecord, SyncEdges, Stamp, Written
  <2>4. QED
    BY <2>1, <2>2, <2>3 DEF Sync
<1>5. quiet' /\ at' # "idle" /\ op' # "repository" => asked' = TrueRevision' /\ DraftIsTrue'
  <2> SUFFICES ASSUME quiet', at' # "idle", op' # "repository"
               PROVE  asked' = TrueRevision' /\ DraftIsTrue'
    OBVIOUS
  <2>1. UNCHANGED <<rec, nodes, edges, stamp, quiet, op, at, store, draft, asked>>
    BY <1>1, <1>4 DEF requestVars
  <2>2. TrueRevision' = TrueRevision
    BY <2>1 DEF TrueRevision, NodesOf, EdgesOf
  <2>3. DraftIsTrue' = DraftIsTrue
    BY <2>1 DEF DraftIsTrue, FileRead, Counted, NodesOf, EdgesOf
  <2>4. QED
    BY <2>1, <2>2, <2>3 DEF QuietInv
<1>6. NoFalseConflict'
  BY <1>1, <1>4 DEF QuietInv, NoFalseConflict, requestVars
<1>7. QED
  BY <1>1, <1>2, <1>3, <1>5, <1>6 DEF QuietInv, requestVars

LEMMA QuietRequest == ASSUME ApiInv, QuietInv, Request PROVE QuietInv'
<1> USE ApiBounds
<1>0. /\ UNCHANGED <<rec, nodes, edges, stamp, job>> /\ TrueRevision' = TrueRevision
      /\ \A s : NodesOf(s)' = NodesOf(s) /\ EdgesOf(s)' = EdgesOf(s)
  BY QueryKeepsIndex DEF Unwritten, indexVars, TrueRevision, NodesOf, EdgesOf
<1>1. stamp' = [s \in Stores |-> stamp'[s]] /\ \A f \in Files :
        nodes'[f] = rec'[f] \/ (f = job'.file /\ job'.step \in {"deleted", "nodes"})
  BY <1>0 DEF QuietInv
<1>2. /\ draft.counts = [s \in Stores |-> draft.counts[s]]
      /\ draft.meta = [s \in Stores |-> draft.meta[s]]
      /\ draft = [files |-> draft.files, counts |-> draft.counts, meta |-> draft.meta]
      /\ draft.files = [f \in Files |-> draft.files[f]] /\ store \in Stores
  BY DEF QuietInv, ApiInv, RequestTypes
<1>3. ASSUME NEW o \in Ops, NEW f \in Files, Begin(o, f) PROVE QuietInv'
  <2>1. /\ draft' = NoRevision /\ store' = 1 /\ at' = "files" /\ reply' = "none"
        /\ quiet' = (asked = TrueRevision) /\ UNCHANGED asked
    BY <1>3 DEF Begin
  <2>2. DraftIsTrue'
    BY <2>1 DEF DraftIsTrue, FileRead, Counted, Stores
  <2>3. QED
    BY <1>0, <1>1, <2>1, <2>2 DEF QuietInv, NoFalseConflict, NoRevision
<1>4. CASE ReadFiles
  <2>1. /\ at = "files" /\ at' = "stats" /\ UNCHANGED <<op, store, asked, reply, quiet>>
        /\ draft' = [draft EXCEPT !.files =
             [f \in Files |-> IF f \in FilesOf(store) THEN rec[f] ELSE @[f]]]
    BY <1>4 DEF ReadFiles
  <2>2. /\ draft'.files = [f \in Files |-> IF StoreOf[f] = store THEN rec[f] ELSE draft.files[f]]
        /\ draft'.counts = draft.counts /\ draft'.meta = draft.meta
    BY <1>2, <2>1 DEF FilesOf
  <2>3. /\ \A f \in Files : FileRead(f)' => FileRead(f) \/ StoreOf[f] = store
        /\ \A s \in Stores : Counted(s)' => Counted(s)
    BY <2>1 DEF FileRead, Counted
  <2>4. DraftIsTrue => DraftIsTrue'
    BY <1>0, <2>1, <2>2, <2>3 DEF DraftIsTrue, SnapshotPoints
  <2>5. QED
    BY <1>0, <1>1, <1>2, <2>1, <2>2, <2>4 DEF QuietInv, NoFalseConflict
<1>5. CASE ReadStats
  <2>1. /\ at = "stats" /\ at' = "meta" /\ UNCHANGED <<op, store, asked, reply, quiet>>
        /\ draft'.counts = [draft.counts EXCEPT ![store] =
             <<Cardinality(NodesOf(store)), Cardinality(EdgesOf(store))>>]
        /\ draft'.files = draft.files /\ draft'.meta = draft.meta
    BY <1>2, <1>5 DEF ReadStats
  <2>2. draft'.counts = [s \in Stores |-> draft'.counts[s]]
    BY <1>2, <2>1
  <2>3. /\ \A f \in Files : FileRead(f)' => FileRead(f)
        /\ \A s \in Stores : Counted(s)' => Counted(s) \/ s = store
    BY <2>1 DEF FileRead, Counted
  <2>4. \A s \in Stores : draft'.counts[s] =
          IF s = store THEN <<Cardinality(NodesOf(s)), Cardinality(EdgesOf(s))>>
          ELSE draft.counts[s]
    BY <1>2, <2>1
  <2>5. DraftIsTrue => DraftIsTrue'
    BY <1>0, <2>1, <2>3, <2>4 DEF DraftIsTrue, SnapshotPoints
  <2>6. QED
    BY <1>0, <1>1, <1>2, <2>1, <2>2, <2>5 DEF QuietInv, NoFalseConflict
<1>6. CASE ReadMeta
  <2>1. at = "meta" /\ UNCHANGED <<op, quiet>> /\ reply = "none"
    BY <1>6 DEF ReadMeta, ApiInv, RequestTypes
  <2>2. /\ Digest.files = draft.files /\ Digest.counts = draft.counts
        /\ Digest.meta = [draft.meta EXCEPT ![store] = stamp[store]]
        /\ Digest = [files |-> Digest.files, counts |-> Digest.counts, meta |-> Digest.meta]
    BY <1>2 DEF Digest
  <2>3. CASE store < LastStore
    <3>1. draft' = Digest /\ store' = store + 1 /\ at' = "files" /\ UNCHANGED <<asked, reply>>
      BY <1>6, <2>3 DEF ReadMeta
    <3>2. DraftIsTrue => DraftIsTrue'
      <4>1. /\ \A f \in Files : FileRead(f)' => FileRead(f)
            /\ \A s \in Stores : Counted(s)' => Counted(s)
        BY <1>2, <2>1, <3>1 DEF FileRead, Counted, Stores
      <4>2. \A s \in Stores : s < store' => s < store \/ s = store
        BY <1>2, <3>1 DEF Stores
      <4>3. \A s \in Stores : draft'.meta[s] = IF s = store THEN stamp[s] ELSE draft.meta[s]
        BY <1>2, <2>2, <3>1
      <4>4. QED
        BY <1>0, <2>1, <2>2, <3>1, <4>1, <4>2, <4>3 DEF DraftIsTrue, SnapshotPoints
    <3>3. draft'.counts = [s \in Stores |-> draft'.counts[s]]
          /\ draft'.meta = [s \in Stores |-> draft'.meta[s]]
      BY <1>2, <2>2, <3>1
    <3>4. QED
      BY <1>0, <1>1, <2>1, <3>1, <3>2, <3>3 DEF QuietInv, NoFalseConflict
  <2>4. CASE ~(store < LastStore)
    <3>1. draft' = NoRevision /\ store' = 1
      BY <1>6, <2>4 DEF ReadMeta
    <3>2. \/ at' = "idle" /\ reply' \in {"repository", "ok"}
          \/ at' = "idle" /\ reply' = "conflict" /\ op # "repository" /\ Digest # asked
          \/ at' = FirstQuery /\ reply' = "none" /\ UNCHANGED asked
      BY <1>6, <2>1, <2>4 DEF ReadMeta, Ends
    <3>3. quiet /\ op # "repository" => Digest = asked
      <4>1. SUFFICES ASSUME quiet, op # "repository" PROVE Digest = TrueRevision
        BY <2>1 DEF QuietInv
      <4>2. DraftIsTrue /\ store = LastStore
        BY <1>2, <2>1, <2>4, <4>1 DEF QuietInv, Stores
      <4>3. \A f \in Files : draft.files[f] = rec[f]
        BY <2>1, <4>2 DEF DraftIsTrue, FileRead, SnapshotPoints
      <4>4. \A s \in Stores : draft.counts[s] = <<Cardinality(NodesOf(s)), Cardinality(EdgesOf(s))>>
        BY <2>1, <4>2 DEF DraftIsTrue, Counted, SnapshotPoints, Stores
      <4>5. \A s \in Stores : Digest.meta[s] = stamp[s]
        <5>1. \A s \in Stores : s < store \/ s = store
          BY <4>2 DEF Stores
        <5>2. \A s \in Stores : Digest.meta[s] = IF s = store THEN stamp[s] ELSE draft.meta[s]
          BY <1>2, <2>2
        <5>3. QED
          BY <2>1, <4>2, <5>1, <5>2 DEF DraftIsTrue, SnapshotPoints
      <4>6. Digest.files = rec
        BY <1>2, <2>2, <4>3 DEF ApiInv, TypeOK
      <4>7. Digest.counts = [s \in Stores |-> <<Cardinality(NodesOf(s)), Cardinality(EdgesOf(s))>>]
        BY <1>2, <2>2, <4>4
      <4>8. Digest.meta = stamp
        BY <1>2, <2>2, <4>5 DEF QuietInv
      <4>9. QED
        BY <2>2, <4>6, <4>7, <4>8 DEF TrueRevision
    <3>4. NoFalseConflict'
      BY <2>1, <3>2, <3>3 DEF NoFalseConflict
    <3>5. at' = FirstQuery => at' \notin SnapshotPoints
      BY DEF FirstQuery, SnapshotPoints
    <3>6. at' # "idle" => UNCHANGED asked /\ DraftIsTrue'
      BY <3>2, <3>5 DEF DraftIsTrue
    <3>7. QED
      BY <1>0, <1>1, <2>1, <3>1, <3>4, <3>6 DEF QuietInv, NoRevision, ApiInv, RequestTypes
  <2>5. QED
    BY <2>3, <2>4
<1>7. CASE ReadContent \/ ReadNode \/ ReadNames \/ ReadEdges \/ \E p \in pending : ReadNeighbour(p)
  <2>1. /\ UNCHANGED <<op, draft, asked, quiet>> /\ at # "idle" /\ reply' # "conflict"
        /\ at' \notin SnapshotPoints
    BY <1>7 DEF ReadContent, ReadNode, ReadNames, ReadEdges, ReadNeighbour, Ends, SnapshotPoints,
       ApiInv, RequestTypes
  <2>2. QED
    BY <1>0, <1>1, <1>2, <2>1 DEF QuietInv, DraftIsTrue, NoFalseConflict
<1>8. CASE Confirm
  <2>1. /\ UNCHANGED <<op, asked, quiet, reply>> /\ at # "idle"
        /\ at' = "files" /\ store' = 1 /\ draft' = NoRevision
    BY <1>8 DEF Confirm
  <2>2. DraftIsTrue'
    BY <2>1 DEF DraftIsTrue, FileRead, Counted, Stores
  <2>3. QED
    BY <1>0, <1>1, <2>1, <2>2 DEF QuietInv, NoFalseConflict, NoRevision
<1>9. QED
  BY <1>3, <1>4, <1>5, <1>6, <1>7, <1>8 DEF Request, Query

(* A client is told that the revision has changed only when something was  *)
(* written since it was read (validRevision, ensureCurrentRevision): a     *)
(* digest put together from several queries depends on nothing but the     *)
(* index.                                                                  *)
THEOREM ConflictsAreReal == Spec => []NoFalseConflict
<1>1. ApiInv /\ QuietInv /\ [Next]_vars => QuietInv'
  <2> SUFFICES ASSUME ApiInv, QuietInv, [Next]_vars PROVE QuietInv'
    OBVIOUS
  <2>1. CASE UNCHANGED vars
    BY <2>1 DEF vars, indexVars, requestVars, QuietInv, NoFalseConflict, DraftIsTrue, FileRead,
       Counted, TrueRevision, NodesOf, EdgesOf
  <2>2. QED
    BY <2>1, QuietIndexStep, QuietRequest DEF Next, Sync
<1>2. QuietInv => NoFalseConflict
  BY DEF QuietInv
<1>3. QED
  BY <1>1, <1>2, ApiInit, ApiStep, QuietInit, PTL DEF Spec
=============================================================================
