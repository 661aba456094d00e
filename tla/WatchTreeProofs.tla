-------------------------- MODULE WatchTreeProofs ---------------------------
(***************************************************************************)
(* Proofs about the directories under watch, for every tree of directories *)
(* and files, every cap and length of the queue, and any number of         *)
(* operations of the file system, when no path is used again (~Recreate).  *)
(*                                                                         *)
(* A directory that is not watched is below one the walk has yet to visit  *)
(* or the queue announces, unless an event was lost (Watching).  A file    *)
(* that the index shows wrongly is excused: something the watcher knows    *)
(* will make it look there again (Indexing).                               *)
(***************************************************************************)
EXTENDS WatchTree, FiniteSetTheorems, TLAPS

Event == [op : {"create", "change", "rename"}, path : Dirs \cup Files]

Shape == TypeOK /\ IsFiniteSet(watchedDirs)

(* What is above a directory that exists, exists. *)
Closed == \A a \in Dirs : \A d \in exists : d \in Below[a] => a \in exists

(* The walk has yet to visit the directory, or to read it. *)
OnTheWay(d) == \E a \in (walk.todo \cup {walk.at}) \cap Dirs : d \in Below[a]

(* An event that has not been read leads to the directory, or to the file. *)
Announced(d) ==
  \E i \in 1..Len(queue) :
    queue[i].op = "create" /\ queue[i].path \in Dirs /\ d \in Below[queue[i].path]
Told(f) == \E i \in 1..Len(queue) : queue[i].path = f

Covered(d) == d \in live \/ OnTheWay(d) \/ Announced(d)

Watching ==
  /\ watchedDirs \subseteq exists \cup gone
  /\ watchedDirs \cap exists \subseteq live
  /\ walk.at \in watchedDirs \cup {NoDir}
  /\ ~walk.on => walk = NoWalk
  /\ walk.on /\ ~walk.mark => mode = "starting"
  /\ mode = "starting" => walk.on
  /\ walk.on => mode # "failed"
  /\ mode # "failed" /\ ~overflow => \A d \in exists : Covered(d)

Hinted(f, hints) == f \in hints \/ WholeTree \in hints

(* No reconciliation has read an earlier content of the file, which it will store. *)
Fresh(f) == hand[f] \in {"nothing", "current"}

Right(f) == UpToDate(f) /\ Fresh(f)

(* SyncFiles has the file in its batch, and has not done with it. *)
InSync(f) ==
  /\ Hinted(f, sync.batch)
  /\ \/ sync.pc = "begun"
     \/ sync.pc = "reading" /\ (sync.failed \/ (f \in sync.files /\ (f \in startup \/ Fresh(f))))

(* The watcher will be told of the file, or come upon it. *)
Coming(f) ==
  mode = "starting" \/ Told(f) \/ Announced(DirOf[f]) \/ (walk.mark /\ OnTheWay(DirOf[f]))

Excused(f) == Coming(f) \/ (f \in startup /\ Fresh(f)) \/ Hinted(f, dirty) \/ InSync(f)

Indexing ==
  mode # "failed" /\ ~overflow => \A f \in onDisk : Right(f) \/ Excused(f)

(* What was read belongs to the reconciliation that will store it. *)
Hands ==
  /\ \A f \in Files : hand[f] # "nothing" =>
       f \in startup \/ (startup = {} /\ sync.pc = "reading" /\ f \in sync.files)
  /\ mode = "starting" => startup = {} /\ sync.pc = "idle"

TreeInv == Shape /\ Closed /\ Watching /\ Indexing /\ Hands

-----------------------------------------------------------------------------
(* The tree. *)

(* From a directory of a set that hangs together the way up ends at the    *)
(* top of the set, unless it ends before.                                  *)
LEMMA WayUp ==
  ASSUME NEW D \in SUBSET Dirs, NEW t \in D, NEW a \in Dirs, a \notin D,
         \A e \in D \ {t} : Parent[e] \in D,
         NEW d \in D, d \in Below[a]
  PROVE  t \in Below[a]
<1> USE TreeIsATree
<1> SUFFICES ASSUME t \notin Below[a] PROVE FALSE
  OBVIOUS
<1> DEFINE S == {e \in D : e \in Below[a]}
<1>1. Root \notin S
  OBVIOUS
<1>2. S # {} /\ S \in SUBSET (Dirs \ {Root})
  BY <1>1
<1>3. PICK e \in S : Parent[e] \notin S
  <2> HIDE DEF S
  <2> QED
    BY <1>2
<1>4. e # t /\ e # a
  BY <1>3
<1>5. QED
  BY <1>3, <1>4

LEMMA AllBelowRoot == Below[Root] = Dirs
<1> USE TreeIsATree
<1> DEFINE S == Dirs \ Below[Root]
<1>1. SUFFICES ASSUME S # {} PROVE FALSE
  OBVIOUS
<1>2. Root \in Below[Root]
  OBVIOUS
<1>3. S \in SUBSET (Dirs \ {Root})
  BY <1>2
<1>4. PICK e \in S : Parent[e] \notin S
  <2> HIDE DEF S
  <2> QED
    BY <1>1, <1>3
<1>5. e \in Dirs \ {Root} /\ Parent[e] \in Below[Root]
  BY <1>3, <1>4
<1>6. e \in Below[Parent[e]]
  BY <1>5
<1>7. QED
  BY <1>4, <1>5, <1>6

LEMMA AboveInBelow == \A d \in Dirs : d \in Below[d] /\ Below[d] \subseteq Dirs
  BY TreeIsATree

(* Nothing is left of what is below a directory that does not exist. *)
LEMMA NothingBelow ==
  ASSUME Closed, TypeOK, NEW a \in Dirs, a \notin exists
  PROVE  Below[a] \cap exists = {}
  BY DEF Closed

-----------------------------------------------------------------------------
LEMMA TreeInit == Init => TreeInv
<1> SUFFICES ASSUME Init PROVE TreeInv
  OBVIOUS
<1> USE TreeIsATree DEF Init
<1>1. IsFiniteSet(watchedDirs) /\ Cardinality(watchedDirs) = 0
  BY FS_EmptySet
<1>2. TypeOK
  <2>1. exists \subseteq Dirs /\ Root \in exists /\ \A d \in exists : Parent[d] \in exists
    OBVIOUS
  <2>2. onDisk \subseteq Files /\ \A f \in onDisk : DirOf[f] \in exists
    OBVIOUS
  <2>3. walk \in [on : BOOLEAN, todo : SUBSET Dirs, at : Dirs \cup {NoDir}, mark : BOOLEAN]
    BY DEF WalkFrom
  <2>4. sync \in [pc : {"idle", "begun", "reading"}, batch : SUBSET (Dirs \cup Files \cup {WholeTree}),
                  files : SUBSET Files, missing : SUBSET Dirs, failed : BOOLEAN]
    BY DEF NoSync
  <2>5. /\ queue \in Seq([op : {"create", "change", "rename"}, path : Dirs \cup Files])
        /\ Len(queue) <= QueueCap
    OBVIOUS
  <2>6. /\ index \in [Files -> {"absent", "current", "old"}]
        /\ hand \in [Files -> {"nothing", "absent", "current", "old"}]
    OBVIOUS
  <2>7. /\ gone \subseteq Dirs /\ ops \in 0..MaxOps /\ live \subseteq watchedDirs \cap exists
        /\ overflow \in BOOLEAN /\ watchedDirs \subseteq Dirs
        /\ Cardinality(watchedDirs) <= MaxDirWatches /\ mode \in {"starting", "running", "failed"}
        /\ dirty \subseteq Dirs \cup Files \cup {WholeTree} /\ startup \subseteq Files
    <3>1. /\ gone = {} /\ ops = 0 /\ live = {} /\ overflow = FALSE /\ watchedDirs = {}
          /\ mode = "starting" /\ dirty = {} /\ startup = {} /\ MaxOps \in Nat /\ MaxDirWatches \in Nat
      OBVIOUS
    <3>2. ops \in 0..MaxOps /\ Cardinality(watchedDirs) <= MaxDirWatches
      BY ONLY <1>1, <3>1
    <3>3. overflow \in BOOLEAN
      BY ONLY <3>1, Zenon
    <3>4. QED
      BY ONLY <3>1, <3>2, <3>3
  <2>8. QED
    BY ONLY <2>1, <2>2, <2>3, <2>4, <2>5, <2>6, <2>7 DEF TypeOK
<1>3. Closed
  <2> SUFFICES ASSUME NEW a \in Dirs, NEW d \in exists, d \in Below[a], a \notin exists PROVE FALSE
    BY DEF Closed
  <2>1. Root \in Below[a]
    BY <1>2, WayUp DEF TypeOK
  <2>2. QED
    BY <2>1
<1>4. Watching
  <2>1. \A d \in exists : OnTheWay(d)
    BY <1>2, AllBelowRoot DEF TypeOK, OnTheWay, WalkFrom
  <2>2. QED
    BY <2>1 DEF Watching, Covered, WalkFrom
<1>5. Indexing
  BY DEF Indexing, Excused, Coming
<1>6. Hands
  BY DEF Hands, NoSync
<1>7. QED
  BY <1>1, <1>2, <1>3, <1>4, <1>5, <1>6 DEF TreeInv, Shape

-----------------------------------------------------------------------------
(* The file system. *)

(* What a report adds, and what it leaves as it was. *)
LEMMA Reported ==
  ASSUME TypeOK, NEW W, NEW op \in {"create", "change", "rename"}, NEW path \in Dirs \cup Files,
         Report(W, op, path), UNCHANGED Outside
  PROVE  /\ queue' \in Seq(Event) /\ Len(queue') <= QueueCap /\ overflow' \in BOOLEAN
         /\ overflow => overflow'
         /\ \A d : Announced(d) => Announced(d)'
         /\ \A f : Told(f) => Told(f)'
         /\ \A f : Coming(f) => Coming(f)'
         /\ \A f : hand'[f] = hand[f] => (Excused(f) => Excused(f)')
         /\ \/ W \cap live = {} \/ overflow'
            \/ \E i \in 1..Len(queue') : queue'[i] = [op |-> op, path |-> path]
<1>1. queue \in Seq(Event) /\ Len(queue) <= QueueCap /\ overflow \in BOOLEAN
  BY DEF TypeOK, Event
<1>2. /\ queue' \in Seq(Event) /\ Len(queue') <= QueueCap /\ overflow' \in BOOLEAN
      /\ overflow => overflow'
      /\ Len(queue) <= Len(queue') /\ \A i \in 1..Len(queue) : queue'[i] = queue[i]
      /\ \/ W \cap live = {} \/ overflow'
         \/ \E i \in 1..Len(queue') : queue'[i] = [op |-> op, path |-> path]
  <2>1. CASE W \cap live = {}
    BY <1>1, <2>1 DEF Report, queueVars
  <2>2. CASE W \cap live # {} /\ Len(queue) < QueueCap
    <3>1. queue' = Append(queue, [op |-> op, path |-> path]) /\ UNCHANGED overflow
      BY <2>2 DEF Report
    <3>2. [op |-> op, path |-> path] \in Event
      BY DEF Event
    <3>3. Len(queue') = Len(queue) + 1 /\ queue'[Len(queue) + 1] = [op |-> op, path |-> path]
      BY <1>1, <3>1
    <3>4. QED
      BY <1>1, <2>2, <3>1, <3>2, <3>3, TreeIsATree
  <2>3. CASE W \cap live # {} /\ ~(Len(queue) < QueueCap)
    <3>1. overflow' = TRUE /\ queue' = queue
      BY <2>3 DEF Report
    <3>2. QED
      BY <1>1, <3>1
  <2>4. QED
    BY <2>1, <2>2, <2>3
<1>3. Len(queue) \in Nat /\ Len(queue') \in Nat
  BY <1>1, <1>2
<1>4. \A i \in 1..Len(queue) : i \in 1..Len(queue')
  BY <1>2, <1>3
<1>5. \A d : Announced(d) => Announced(d)'
  BY <1>2, <1>4 DEF Announced
<1>6. \A f : Told(f) => Told(f)'
  BY <1>2, <1>4 DEF Told
<1>7. \A f : Coming(f) => Coming(f)'
  BY <1>5, <1>6 DEF Outside, watchVars, Coming, OnTheWay
<1>8. \A f : hand'[f] = hand[f] => (Excused(f) => Excused(f)')
  BY <1>7 DEF Outside, syncVars, Excused, InSync, Fresh, Hinted
<1>9. QED
  BY <1>2, <1>5, <1>6, <1>7, <1>8

(* A file in a directory that is not watched is found by the walk, or by   *)
(* the one its announcement causes, or at the start.                       *)
LEMMA UnwatchedIsExcused ==
  ASSUME TreeInv, NEW d \in exists, d \notin live, mode # "failed", ~overflow,
         NEW f, d = DirOf[f]
  PROVE  Coming(f)
<1>1. OnTheWay(d) \/ Announced(d)
  BY DEF TreeInv, Watching, Covered
<1>2. OnTheWay(d) => walk.on
  BY TreeIsATree DEF TreeInv, Watching, OnTheWay, NoWalk
<1>3. QED
  BY <1>1, <1>2 DEF TreeInv, Watching, Coming

(* What is remembered of files that have changed. *)
LEMMA ChangedHands ==
  ASSUME TypeOK, NEW fs \in SUBSET Files, Changed(fs)
  PROVE  /\ index' \in [Files -> {"absent", "current", "old"}]
         /\ hand' \in [Files -> {"nothing", "absent", "current", "old"}]
         /\ \A h \in Files : h \notin fs => index'[h] = index[h] /\ hand'[h] = hand[h]
         /\ \A h \in Files : hand'[h] = "nothing" <=> hand[h] = "nothing"
  BY DEF TypeOK, Changed, Outdated

LEMMA FileStep ==
  ASSUME TreeInv, NEW f \in Files, WriteFile(f) \/ RemoveFile(f) PROVE TreeInv'
<1> USE TreeIsATree DEF TreeInv, Shape
<1>1. /\ UNCHANGED <<exists, gone, live, Outside>> /\ Report({DirOf[f]}, "change", f)
      /\ onDisk' \in {onDisk \cup {f}, onDisk \ {f}} /\ DirOf[f] \in exists
      /\ Changed({f}) /\ ops < MaxOps /\ ops' = ops + 1
  BY DEF WriteFile, RemoveFile, DiskStep, TypeOK
<1>2. UNCHANGED <<watchedDirs, mode, walk, dirty, sync, startup>>
  BY <1>1 DEF Outside, watchVars, syncVars
<1>3. /\ queue' \in Seq(Event) /\ Len(queue') <= QueueCap /\ overflow' \in BOOLEAN
      /\ overflow => overflow'
      /\ \A d : Announced(d) => Announced(d)'
      /\ \A h : Coming(h) => Coming(h)'
      /\ \A h : hand'[h] = hand[h] => (Excused(h) => Excused(h)')
      /\ \/ {DirOf[f]} \cap live = {} \/ overflow'
         \/ \E i \in 1..Len(queue') : queue'[i] = [op |-> "change", path |-> f]
  <2>1. TypeOK /\ UNCHANGED Outside
    BY <1>1 DEF Outside
  <2>2. QED
    BY ONLY <1>1, <2>1, Reported
<1>0. /\ index' \in [Files -> {"absent", "current", "old"}]
      /\ hand' \in [Files -> {"nothing", "absent", "current", "old"}]
      /\ \A h \in Files : h # f => index'[h] = index[h] /\ hand'[h] = hand[h]
      /\ \A h \in Files : hand'[h] = "nothing" <=> hand[h] = "nothing"
  BY <1>1, ChangedHands
<1>4. TypeOK'
  BY <1>0, <1>1, <1>2, <1>3 DEF TypeOK, Event
<1>5. Closed' /\ Watching' /\ Hands'
  BY <1>0, <1>1, <1>2, <1>3 DEF Closed, Watching, Covered, OnTheWay, Hands
<1>6. Indexing'
  <2> SUFFICES ASSUME mode # "failed", ~overflow', NEW h \in onDisk' PROVE Right(h)' \/ Excused(h)'
    BY <1>2 DEF Indexing
  <2>1. CASE h = f
    <3>1. CASE DirOf[f] \in live
      BY <1>3, <2>1, <3>1 DEF Excused, Coming, Told
    <3>2. CASE DirOf[f] \notin live
      BY <1>1, <1>3, <2>1, <3>2, UnwatchedIsExcused DEF Excused
    <3>3. QED
      BY <3>1, <3>2
  <2>2. CASE h # f
    <3>1. h \in onDisk /\ h \in Files /\ index'[h] = index[h] /\ hand'[h] = hand[h]
      BY <1>0, <1>1, <2>2 DEF TypeOK
    <3>2. Right(h) => Right(h)'
      BY <3>1 DEF Right, Fresh, UpToDate
    <3>3. QED
      BY <1>3, <3>1, <3>2 DEF Indexing
  <2>3. QED
    BY <2>1, <2>2
<1>7. QED
  BY <1>2, <1>4, <1>5, <1>6

LEMMA RemoveDirStep ==
  ASSUME TreeInv, NEW d \in Dirs, NEW op \in {"change", "rename"}, RemoveDir(d, op) PROVE TreeInv'
<1> USE TreeIsATree DEF TreeInv, Shape
<1>1. /\ exists' = exists \ Below[d] /\ onDisk' = onDisk \ In(d)
      /\ gone' = gone \cup (Below[d] \cap exists) /\ live' = live \ Below[d]
      /\ Changed(In(d)) /\ Report({d, Parent[d]}, op, d) /\ UNCHANGED Outside
      /\ d \in exists \ {Root} /\ ops < MaxOps /\ ops' = ops + 1
  BY DEF RemoveDir, DiskStep
<1>2. UNCHANGED <<watchedDirs, mode, walk, dirty, sync, startup>>
  BY <1>1 DEF Outside, watchVars, syncVars
<1>3. /\ queue' \in Seq(Event) /\ Len(queue') <= QueueCap /\ overflow' \in BOOLEAN
      /\ overflow => overflow'
      /\ \A e : Announced(e) => Announced(e)'
      /\ \A h : Coming(h) => Coming(h)'
      /\ \A h : hand'[h] = hand[h] => (Excused(h) => Excused(h)')
  <2>1. TypeOK /\ UNCHANGED Outside
    BY <1>1 DEF Outside
  <2>2. QED
    BY ONLY <1>1, <2>1, Reported
<1>0. /\ index' \in [Files -> {"absent", "current", "old"}]
      /\ hand' \in [Files -> {"nothing", "absent", "current", "old"}]
      /\ \A h \in Files : h \notin In(d) => index'[h] = index[h] /\ hand'[h] = hand[h]
      /\ \A h \in Files : hand'[h] = "nothing" <=> hand[h] = "nothing"
  BY <1>1, ChangedHands DEF In
<1>4. Closed' /\ Hands'
  BY <1>0, <1>1, <1>2 DEF Closed, TypeOK, Hands
<1>5. TypeOK'
  <2>1. Root \in exists'
    BY <1>1 DEF TypeOK
  <2>2. \A e \in exists' : Parent[e] \in exists'
    <3> SUFFICES ASSUME NEW e \in exists' PROVE Parent[e] \in exists'
      OBVIOUS
    <3>1. e \in exists /\ e \notin Below[d] /\ Parent[e] \in exists /\ e \in Dirs
      BY <1>1 DEF TypeOK
    <3>2. CASE e = Root
      BY <2>1, <3>2
    <3>3. CASE e # Root
      <4>1. e \in Below[Parent[e]]
        BY <3>1, <3>3
      <4>2. QED
        BY <1>1, <3>1, <4>1
    <3>4. QED
      BY <3>2, <3>3
  <2>3. onDisk' \subseteq Files /\ \A f \in onDisk' : DirOf[f] \in exists'
    BY <1>1 DEF TypeOK, In
  <2>4. gone' \subseteq Dirs /\ live' \subseteq watchedDirs \cap exists' /\ exists' \subseteq Dirs
    BY <1>1 DEF TypeOK
  <2>5. QED
    BY <1>0, <1>1, <1>2, <1>3, <2>1, <2>2, <2>3, <2>4 DEF TypeOK, Event
<1>6. Watching'
  BY <1>1, <1>2, <1>3 DEF Watching, Covered, OnTheWay
<1>7. Indexing'
  <2> SUFFICES ASSUME mode # "failed", ~overflow', NEW h \in onDisk' PROVE Right(h)' \/ Excused(h)'
    BY <1>2 DEF Indexing
  <2>1. /\ h \in onDisk /\ h \in Files /\ h \notin In(d)
        /\ index'[h] = index[h] /\ hand'[h] = hand[h]
    BY <1>0, <1>1 DEF TypeOK
  <2>2. Right(h) => Right(h)'
    BY <1>1, <2>1 DEF Right, Fresh, UpToDate
  <2>3. QED
    BY <1>3, <2>1, <2>2 DEF Indexing
<1>8. QED
  BY <1>2, <1>4, <1>5, <1>6, <1>7

(* A directory arrives with what is in it: below a directory that is on    *)
(* the walk's way, or announced, or by an event of its own.                *)
LEMMA AddDirStep ==
  ASSUME TreeInv, ~Recreate, NEW d \in Dirs, NEW ds \in SUBSET Below[d], NEW fs \in SUBSET In(d),
         AddDir(d, ds, fs)
  PROVE  TreeInv'
<1> USE DEF TreeInv, Shape
<1>0. /\ d \in Below[d] /\ Below[d] \subseteq Dirs /\ Parent[d] \in Dirs /\ Root \in Dirs
      /\ \A f \in Files : f \notin Dirs
      /\ \A a \in Dirs : \A e \in Below[a] : Below[e] \subseteq Below[a] /\ (e # a => Parent[e] \in Below[a])
  BY TreeIsATree
<1>1. /\ exists' = exists \cup ds /\ onDisk' = onDisk \cup fs /\ Changed(fs)
      /\ Report({Parent[d]}, "create", d) /\ UNCHANGED <<gone, live, Outside>>
      /\ d \notin exists /\ Parent[d] \in exists /\ Below[d] \cap gone = {}
      /\ d \in ds /\ ds \subseteq Below[d] /\ \A e \in ds \ {d} : Parent[e] \in ds
      /\ fs \subseteq Files /\ \A f \in fs : DirOf[f] \in ds
      /\ ops < MaxOps /\ ops' = ops + 1
  BY DEF AddDir, DiskStep, In
<1>2. UNCHANGED <<watchedDirs, mode, walk, dirty, sync, startup>>
  BY <1>1 DEF Outside, watchVars, syncVars
<1>3. /\ queue' \in Seq(Event) /\ Len(queue') <= QueueCap /\ overflow' \in BOOLEAN
      /\ overflow => overflow'
      /\ \A e : Announced(e) => Announced(e)'
      /\ \A h : Coming(h) => Coming(h)'
      /\ \A h : hand'[h] = hand[h] => (Excused(h) => Excused(h)')
      /\ \/ {Parent[d]} \cap live = {} \/ overflow'
         \/ \E i \in 1..Len(queue') : queue'[i] = [op |-> "create", path |-> d]
  <2>1. TypeOK /\ UNCHANGED Outside
    BY <1>1 DEF Outside
  <2>2. QED
    BY ONLY <1>1, <2>1, Reported
<1>11. /\ index' \in [Files -> {"absent", "current", "old"}]
       /\ hand' \in [Files -> {"nothing", "absent", "current", "old"}]
       /\ \A h \in Files : h \notin fs => index'[h] = index[h] /\ hand'[h] = hand[h]
       /\ \A h \in Files : hand'[h] = "nothing" <=> hand[h] = "nothing"
  BY <1>1, ChangedHands
<1>4. Below[d] \cap exists = {}
  BY <1>1, NothingBelow
<1>5. TypeOK'
  <2>1. exists' \subseteq Dirs /\ Root \in exists' /\ \A e \in exists' : Parent[e] \in exists'
    BY <1>0, <1>1 DEF TypeOK
  <2>2. onDisk' \subseteq Files /\ \A f \in onDisk' : DirOf[f] \in exists'
    BY <1>1 DEF TypeOK
  <2>3. live' \subseteq watchedDirs \cap exists' /\ ops' \in 0..MaxOps
    BY <1>1, TreeIsATree DEF TypeOK
  <2>4. QED
    BY <1>1, <1>2, <1>3, <1>11, <2>1, <2>2, <2>3 DEF TypeOK, Event
<1>6. Closed'
  <2> SUFFICES ASSUME NEW a \in Dirs, NEW e \in exists', e \in Below[a], a \notin exists' PROVE FALSE
    BY DEF Closed
  <2>1. e \in ds /\ a \notin ds /\ a \notin exists
    BY <1>1 DEF Closed
  <2>2. ds \in SUBSET Dirs
    BY <1>0, <1>1
  <2>3. d \in Below[a]
    BY <1>1, <2>1, <2>2, WayUp
  <2>4. Parent[d] \in Below[a]
    BY <1>0, <1>1, <2>1, <2>3
  <2>5. QED
    BY <1>1, <2>1, <2>4 DEF Closed
(* Every directory that has arrived will be walked, or the watcher has failed. *)
<1>7. ASSUME mode # "failed", ~overflow'
      PROVE  \/ \A e \in ds : Announced(e)'
             \/ Parent[d] \notin live /\ \A e \in ds : OnTheWay(e)
  <2>1. CASE Parent[d] \in live
    <3>1. PICK i \in 1..Len(queue') : queue'[i] = [op |-> "create", path |-> d]
      BY <1>3, <1>7, <2>1
    <3>2. queue'[i].op = "create" /\ queue'[i].path = d
      BY <3>1
    <3>3. QED
      BY <1>0, <1>1, <3>1, <3>2 DEF Announced
  <2>2. CASE Parent[d] \notin live
    <3>1. OnTheWay(Parent[d]) \/ Announced(Parent[d])
      BY <1>1, <1>3, <1>7, <2>2 DEF Watching, Covered
    <3>2. d # Root
      BY <1>1 DEF TypeOK
    <3>3. \A a \in Dirs : Parent[d] \in Below[a] => Below[d] \subseteq Below[a]
      <4>1. d \in Below[Parent[d]]
        BY <3>2, TreeIsATree
      <4>2. QED
        BY <1>0, <4>1
    <3>4. CASE OnTheWay(Parent[d])
      BY <1>1, <2>2, <3>3, <3>4 DEF OnTheWay
    <3>5. CASE Announced(Parent[d])
      <4>1. \A e \in ds : Announced(e)
        BY <1>1, <3>3, <3>5 DEF Announced
      <4>2. QED
        BY <1>3, <4>1
    <3>6. QED
      BY <3>1, <3>4, <3>5
  <2>3. QED
    BY <2>1, <2>2
<1>8. Watching'
  <2>1. watchedDirs \cap ds = {}
    BY <1>1, <1>4 DEF Watching
  <2>2. mode # "failed" /\ ~overflow' => \A e \in exists' : Covered(e)'
    BY <1>1, <1>2, <1>3, <1>7 DEF Watching, Covered, OnTheWay
  <2>3. QED
    BY <1>1, <1>2, <2>1, <2>2 DEF Watching
<1>9. Indexing'
  <2> SUFFICES ASSUME mode # "failed", ~overflow', NEW h \in onDisk' PROVE Right(h)' \/ Excused(h)'
    BY <1>2 DEF Indexing
  <2>1. CASE h \in fs
    <3>1. walk.on \/ walk = NoWalk
      BY DEF Watching
    <3>2. OnTheWay(DirOf[h]) => walk.mark \/ mode = "starting"
      BY <3>1, TreeIsATree DEF Watching, OnTheWay, NoWalk
    <3>3. QED
      BY <1>1, <1>2, <1>7, <2>1, <3>2 DEF Excused, Coming, OnTheWay
  <2>2. CASE h \notin fs
    <3>1. h \in onDisk /\ h \in Files /\ index'[h] = index[h] /\ hand'[h] = hand[h]
      BY <1>1, <1>11, <2>2 DEF TypeOK
    <3>2. Right(h) => Right(h)'
      BY <1>1, <2>2, <3>1 DEF Right, Fresh, UpToDate
    <3>3. QED
      BY <1>3, <3>1, <3>2 DEF Indexing
  <2>3. QED
    BY <2>1, <2>2
<1>12. Hands'
  BY <1>2, <1>11 DEF Hands
<1>10. QED
  BY <1>2, <1>5, <1>6, <1>8, <1>9, <1>12

-----------------------------------------------------------------------------
(* The walk, and the events. *)

LEMMA WalkAddStep == ASSUME TreeInv, NEW d \in Dirs, WalkAdd(d) PROVE TreeInv'
<1> USE DEF TreeInv, Shape
<1>1. /\ UNCHANGED <<exists, onDisk, gone, ops, queue, overflow, mode, dirty, sync, startup, hand, index>>
      /\ walk.at = NoDir /\ d \in walk.todo
      /\ \/ /\ d \in watchedDirs' /\ walk' = [walk EXCEPT !.todo = @ \ {d}, !.at = d]
            /\ UNCHANGED <<watchedDirs, live>>
         \/ /\ d \in exists /\ d \in watchedDirs' /\ walk' = [walk EXCEPT !.todo = @ \ {d}, !.at = d]
            /\ ~CapReached /\ watchedDirs' = watchedDirs \cup {d} /\ live' = live \cup {d}
         \/ /\ d \notin exists /\ walk' = [walk EXCEPT !.todo = @ \ {d}]
            /\ UNCHANGED <<watchedDirs, live>>
  BY DEF WalkAdd, diskVars, queueVars, syncVars
<1>2. /\ walk'.on = walk.on /\ walk'.mark = walk.mark /\ walk'.todo = walk.todo \ {d}
      /\ walk'.at \in {d, NoDir} /\ (walk'.at = NoDir => d \notin exists)
      /\ (walk'.at # NoDir => d \in watchedDirs')
      /\ walk' \in [on : BOOLEAN, todo : SUBSET Dirs, at : Dirs \cup {NoDir}, mark : BOOLEAN]
  <2>1. /\ walk \in [on : BOOLEAN, todo : SUBSET Dirs, at : Dirs \cup {NoDir}, mark : BOOLEAN]
        /\ d # NoDir
    BY TreeIsATree DEF TypeOK
  <2>2. CASE walk' = [walk EXCEPT !.todo = @ \ {d}, !.at = d] /\ d \in watchedDirs'
    BY ONLY <2>1, <2>2, d \in Dirs
  <2>3. CASE walk' = [walk EXCEPT !.todo = @ \ {d}] /\ d \notin exists
    BY ONLY <1>1, <2>1, <2>3
  <2>4. QED
    BY <1>1, <2>2, <2>3
<1>3. IsFiniteSet(watchedDirs') /\ Cardinality(watchedDirs') <= MaxDirWatches
  <2>1. CASE UNCHANGED watchedDirs
    BY <2>1 DEF TypeOK
  <2>2. CASE watchedDirs' = watchedDirs \cup {d} /\ ~CapReached
    <3>1. /\ IsFiniteSet(watchedDirs')
          /\ Cardinality(watchedDirs') \in {Cardinality(watchedDirs), Cardinality(watchedDirs) + 1}
      BY <2>2, FS_AddElement
    <3>2. Cardinality(watchedDirs) \in Nat
      BY FS_CardinalityType
    <3>3. QED
      BY <2>2, <3>1, <3>2, TreeIsATree DEF CapReached
  <2>3. QED
    BY <1>1, <2>1, <2>2
<1>4. TypeOK'
  <2>1. watchedDirs' \subseteq Dirs /\ live' \subseteq watchedDirs' \cap exists
    BY <1>1 DEF TypeOK
  <2>2. QED
    BY <1>1, <1>2, <1>3, <2>1 DEF TypeOK
<1>5. Closed'
  BY <1>1 DEF Closed
<1>6. \A e \in exists : OnTheWay(e) => OnTheWay(e)'
  <2> SUFFICES ASSUME NEW e \in exists, NEW a \in Dirs, a \in walk.todo, e \in Below[a]
               PROVE  a \in walk'.todo \cup {walk'.at}
    BY <1>1, TreeIsATree DEF OnTheWay
  <2>1. a \in exists
    BY DEF Closed
  <2>2. QED
    BY <1>2, <2>1
<1>7. Watching'
  <2>1. watchedDirs' \subseteq exists \cup gone /\ watchedDirs' \cap exists \subseteq live'
    BY <1>1 DEF Watching
  <2>2. walk.on
    BY <1>1 DEF Watching, NoWalk
  <2>3. live \subseteq live'
    BY <1>1
  <2>4. mode # "failed" /\ ~overflow => \A e \in exists : Covered(e)'
    BY <1>1, <1>6, <2>3 DEF Watching, Covered, Announced
  <2>5. QED
    BY <1>1, <1>2, <2>1, <2>2, <2>4 DEF Watching
<1>8. Indexing'
  <2> SUFFICES ASSUME mode # "failed", ~overflow, NEW f \in onDisk PROVE Right(f)' \/ Excused(f)'
    BY <1>1 DEF Indexing
  <2>1. DirOf[f] \in exists
    BY DEF TypeOK
  <2>2. Right(f) \/ Excused(f)
    BY DEF Indexing
  <2>3. QED
    BY <1>1, <1>2, <1>6, <2>1, <2>2
    DEF Right, Fresh, UpToDate, Excused, Coming, InSync, Told, Announced
<1>9. Hands'
  BY <1>1 DEF Hands
<1>10. QED
  BY <1>3, <1>4, <1>5, <1>7, <1>8, <1>9

LEMMA WalkFailsStep ==
  ASSUME TreeInv, (\E d \in Dirs : WalkFails(d)) \/ NativeError PROVE TreeInv'
<1> USE DEF TreeInv, Shape
<1>1. /\ UNCHANGED <<exists, onDisk, gone, ops, live, queue, overflow, watchedDirs>>
      /\ UNCHANGED <<dirty, sync, startup, hand, index>>
      /\ mode' = "failed" /\ walk' = NoWalk
  BY DEF WalkFails, NativeError, diskVars, queueVars, syncVars, Walking, Watching
<1>2. TypeOK'
  BY <1>1 DEF TypeOK, NoWalk
<1>3. Closed' /\ Watching' /\ Indexing' /\ Hands'
  BY <1>1 DEF Closed, Watching, Indexing, NoWalk, Hands
<1>4. QED
  BY <1>1, <1>2, <1>3

(* The directory's files become hints, and its directories are visited. *)
LEMMA WalkReadStep == ASSUME TreeInv, WalkRead PROVE TreeInv'
<1> USE DEF TreeInv, Shape
<1>1. /\ UNCHANGED <<exists, onDisk, gone, ops, live, queue, overflow, watchedDirs, mode>>
      /\ UNCHANGED <<sync, startup, hand, index>>
      /\ walk.at # NoDir /\ dirty' = dirty \cup Found(walk.at)
      /\ walk' = [walk EXCEPT !.todo = @ \cup Subdirs(walk.at), !.at = NoDir]
  BY DEF WalkRead, diskVars, queueVars
<1>2. walk \in [on : BOOLEAN, todo : SUBSET Dirs, at : Dirs \cup {NoDir}, mark : BOOLEAN]
  BY DEF TypeOK
<1>3. Subdirs(walk.at) \subseteq Dirs
  BY DEF Subdirs, TypeOK
<1>4. /\ walk'.on = walk.on /\ walk'.mark = walk.mark /\ walk'.at = NoDir
      /\ walk'.todo = walk.todo \cup Subdirs(walk.at)
      /\ walk' \in [on : BOOLEAN, todo : SUBSET Dirs, at : Dirs \cup {NoDir}, mark : BOOLEAN]
  BY ONLY <1>1, <1>2, <1>3
<1>5. TypeOK'
  BY <1>1, <1>4 DEF TypeOK, Found
<1>6. Closed'
  BY <1>1 DEF Closed
<1>7. \A e \in exists : OnTheWay(e) => e = walk.at \/ OnTheWay(e)'
  <2> SUFFICES ASSUME NEW e \in exists, NEW a \in Dirs, a \in walk.todo \cup {walk.at}, e \in Below[a],
                      e # walk.at
               PROVE  OnTheWay(e)'
    BY DEF OnTheWay
  <2>1. CASE a \in walk.todo
    BY <1>4, <2>1 DEF OnTheWay
  <2>2. CASE a = walk.at
    <3>1. PICK c \in Dirs \ {Root} : Parent[c] = a /\ e \in Below[c]
      BY <2>2, TreeIsATree
    <3>2. c \in Subdirs(walk.at)
      BY <2>2, <3>1 DEF Closed, Subdirs
    <3>3. QED
      BY <1>4, <3>1, <3>2 DEF OnTheWay
  <2>3. QED
    BY <2>1, <2>2
<1>8. Watching'
  <2>1. walk.on
    BY <1>1 DEF Watching, NoWalk
  <2>2. walk.at \in exists => walk.at \in live
    BY <1>1 DEF Watching
  <2>3. mode # "failed" /\ ~overflow => \A e \in exists : Covered(e)'
    BY <1>1, <1>7, <2>2 DEF Watching, Covered, Announced
  <2>4. QED
    BY <1>1, <1>4, <2>1, <2>3 DEF Watching
<1>9. Indexing'
  <2> SUFFICES ASSUME mode # "failed", ~overflow, NEW f \in onDisk PROVE Right(f)' \/ Excused(f)'
    BY <1>1 DEF Indexing
  <2>1. DirOf[f] \in exists
    BY DEF TypeOK
  <2>2. Right(f) \/ Excused(f)
    BY DEF Indexing
  <2>3. walk.mark /\ DirOf[f] = walk.at => f \in dirty'
    BY <1>1 DEF Found
  <2>4. QED
    BY <1>1, <1>4, <1>7, <2>1, <2>2, <2>3
    DEF Right, Fresh, UpToDate, Excused, Coming, InSync, Told, Announced, Hinted
<1>10. Hands'
  BY <1>1 DEF Hands
<1>11. QED
  BY <1>1, <1>5, <1>6, <1>8, <1>9, <1>10

LEMMA WalkDoneStep == ASSUME TreeInv, WalkDone PROVE TreeInv'
<1> USE DEF TreeInv, Shape
<1>1. /\ UNCHANGED <<exists, onDisk, gone, ops, live, queue, overflow, watchedDirs>>
      /\ UNCHANGED <<dirty, sync, hand, index>>
      /\ walk.on /\ walk.at = NoDir /\ walk.todo = {}
      /\ walk' = NoWalk /\ mode' = "running"
      /\ startup' = IF mode = "starting" THEN Files ELSE startup
  BY DEF WalkDone, Walking, diskVars, queueVars
<1>2. TypeOK'
  BY <1>1 DEF TypeOK, NoWalk
<1>3. Closed'
  BY <1>1 DEF Closed
<1>4. \A e : ~OnTheWay(e)
  BY <1>1, TreeIsATree DEF OnTheWay
<1>5. mode # "failed"
  BY <1>1 DEF Watching, NoWalk
<1>6. Watching'
  <2>1. ~overflow => \A d \in exists : Covered(d)'
    BY <1>1, <1>4, <1>5 DEF Watching, Covered, Announced
  <2>2. QED
    BY <1>1, <2>1 DEF Watching, NoWalk
<1>7. Indexing'
  <2> SUFFICES ASSUME ~overflow, NEW f \in onDisk PROVE Right(f)' \/ Excused(f)'
    BY <1>1 DEF Indexing
  <2>1. Right(f) \/ Excused(f)
    BY <1>5 DEF Indexing
  <2>2. f \in Files
    BY DEF TypeOK
  <2>3. mode = "starting" => Fresh(f)
    BY <2>2 DEF Hands, Fresh
  <2>4. QED
    BY <1>1, <1>4, <2>1, <2>2, <2>3 DEF Right, Fresh, UpToDate, Excused, Coming, InSync, Told, Announced
<1>8. Hands'
  BY <1>1 DEF Hands
<1>9. QED
  BY <1>1, <1>2, <1>3, <1>6, <1>7, <1>8

(* An event moves its hint to the dirty state, or starts a walk. *)
LEMMA HandleStep == ASSUME TreeInv, HandleFSNotifyEvent PROVE TreeInv'
<1> USE DEF TreeInv, Shape
<1>1. /\ UNCHANGED <<exists, onDisk, gone, ops, live, overflow, watchedDirs, mode>>
      /\ UNCHANGED <<sync, startup, hand, index>>
      /\ mode = "running" /\ walk = NoWalk /\ queue # <<>> /\ queue' = Tail(queue)
      /\ HandleDirEvent(Head(queue)) \/ HandleHint(Head(queue))
  BY DEF HandleFSNotifyEvent, diskVars, Active, Walking, Watching
<1>2. /\ queue \in Seq(Event) /\ Len(queue) <= QueueCap
  BY DEF TypeOK, Event
<1>3. /\ Head(queue) = queue[1] /\ Head(queue) \in Event /\ queue' \in Seq(Event)
      /\ Len(queue') = Len(queue) - 1 /\ Len(queue) \in Nat \ {0}
      /\ \A i \in 1..Len(queue') : queue'[i] = queue[i + 1]
  BY ONLY <1>1, <1>2
<1>4. \A i \in 1..Len(queue) : i = 1 \/ (i - 1 \in 1..Len(queue') /\ queue'[i - 1] = queue[i])
  BY ONLY <1>3
<1>5. PICK event \in Event : event = Head(queue)
  BY <1>3
<1>6. event.op \in {"create", "change", "rename"} /\ event.path \in Dirs \cup Files
  BY DEF Event
(* Where the event leads, the walk or the hints lead afterwards. *)
<1>7. \A d \in exists : Announced(d) => Announced(d)' \/ (OnTheWay(d)' /\ walk'.mark)
  <2> SUFFICES ASSUME NEW d \in exists, NEW i \in 1..Len(queue), queue[i].op = "create",
                      queue[i].path \in Dirs, d \in Below[queue[i].path]
               PROVE  Announced(d)' \/ (OnTheWay(d)' /\ walk'.mark)
    BY DEF Announced
  <2>1. CASE i = 1
    <3>1. event.op = "create" /\ event.path \in Dirs /\ d \in Below[event.path]
      BY <1>3, <1>5, <2>1
    <3>2. event.path \in exists
      BY <3>1 DEF Closed
    <3>3. walk' = WalkFrom(event.path, TRUE)
      BY <1>1, <1>5, <3>1, <3>2 DEF HandleDirEvent, HandleHint
    <3>4. QED
      BY <3>1, <3>3 DEF OnTheWay, WalkFrom
  <2>2. CASE i # 1
    BY <1>4, <2>2 DEF Announced
  <2>3. QED
    BY <2>1, <2>2
<1>8. \A f \in Files : Told(f) => Told(f)' \/ Hinted(f, dirty')
  <2> SUFFICES ASSUME NEW f \in Files, NEW i \in 1..Len(queue), queue[i].path = f
               PROVE  Told(f)' \/ Hinted(f, dirty')
    BY DEF Told
  <2>1. CASE i = 1
    <3>1. event.path = f
      BY <1>3, <1>5, <2>1
    <3>2. f \notin exists
      BY TreeIsATree DEF TypeOK
    <3>3. dirty' = dirty \cup {IF event.op = "rename" THEN WholeTree ELSE event.path}
      BY <1>1, <1>5, <3>1, <3>2 DEF HandleDirEvent, HandleHint
    <3>4. QED
      BY <3>1, <3>3 DEF Hinted
  <2>2. CASE i # 1
    BY <1>4, <2>2 DEF Told
  <2>3. QED
    BY <2>1, <2>2
<1>9. dirty \subseteq dirty' /\ dirty' \subseteq Dirs \cup Files \cup {WholeTree}
  BY <1>1, <1>5, <1>6 DEF HandleDirEvent, HandleHint, TypeOK
<1>10. walk' = NoWalk \/ (walk' = WalkFrom(event.path, TRUE) /\ event.path \in exists)
  BY <1>1, <1>5 DEF HandleDirEvent, HandleHint
<1>11. TypeOK'
  <2>1. walk' \in [on : BOOLEAN, todo : SUBSET Dirs, at : Dirs \cup {NoDir}, mark : BOOLEAN]
    <3>1. exists \subseteq Dirs
      BY DEF TypeOK
    <3>2. NoWalk \in [on : BOOLEAN, todo : SUBSET Dirs, at : Dirs \cup {NoDir}, mark : BOOLEAN]
      BY DEF NoWalk
    <3>3. ASSUME NEW d \in Dirs
          PROVE  WalkFrom(d, TRUE) \in
                   [on : BOOLEAN, todo : SUBSET Dirs, at : Dirs \cup {NoDir}, mark : BOOLEAN]
      BY DEF WalkFrom
    <3>4. QED
      BY <1>10, <3>1, <3>2, <3>3
  <2>2. queue' \in Seq(Event) /\ Len(queue') <= QueueCap
    BY <1>2, <1>3, TreeIsATree
  <2>3. QED
    BY <1>1, <1>9, <2>1, <2>2 DEF TypeOK, Event
<1>12. Closed'
  BY <1>1 DEF Closed
<1>13. \A d : ~OnTheWay(d)
  BY <1>1, TreeIsATree DEF OnTheWay, NoWalk
<1>14. Watching'
  <2>1. ~overflow => \A d \in exists : Covered(d)'
    BY <1>1, <1>7, <1>13 DEF Watching, Covered
  <2>2. QED
    BY <1>1, <1>10, <2>1 DEF Watching, NoWalk, WalkFrom
<1>15. Indexing'
  <2> SUFFICES ASSUME ~overflow, NEW f \in onDisk PROVE Right(f)' \/ Excused(f)'
    BY <1>1 DEF Indexing
  <2>1. Right(f) \/ Excused(f)
    BY <1>1 DEF Indexing
  <2>2. f \in Files /\ DirOf[f] \in exists
    BY DEF TypeOK
  <2>3. Hinted(f, dirty) => Hinted(f, dirty')
    BY <1>9 DEF Hinted
  <2>4. QED
    BY <1>1, <1>7, <1>8, <1>13, <2>1, <2>2, <2>3
    DEF Right, Fresh, UpToDate, Excused, Coming, InSync
<1>16. Hands'
  BY <1>1 DEF Hands
<1>17. QED
  BY <1>1, <1>11, <1>12, <1>14, <1>15, <1>16

-----------------------------------------------------------------------------
(* Reconciliation. *)

(* What is not in its way is left alone. *)
LEMMA SyncFrame ==
  ASSUME TreeInv,
         UNCHANGED <<exists, onDisk, gone, ops, live, queue, overflow, watchedDirs, mode, walk>>
  PROVE  /\ Closed' /\ Watching' /\ IsFiniteSet(watchedDirs')
         /\ \A f : Told(f)' = Told(f) /\ OnTheWay(f)' = OnTheWay(f) /\ Announced(f)' = Announced(f)
<1>1. \A f : Told(f)' = Told(f) /\ OnTheWay(f)' = OnTheWay(f) /\ Announced(f)' = Announced(f)
  BY DEF Told, OnTheWay, Announced
<1>2. Watching'
  BY <1>1 DEF TreeInv, Watching, Covered
<1>3. QED
  BY <1>1, <1>2 DEF TreeInv, Closed, Shape

(* Types of what a reconciliation works on; and each file it might leave wrong stays *)
(* excused.                                                                          *)
SyncTypes ==
  /\ dirty \subseteq Dirs \cup Files \cup {WholeTree}
  /\ sync \in [pc : {"idle", "begun", "reading"}, batch : SUBSET (Dirs \cup Files \cup {WholeTree}),
               files : SUBSET Files, missing : SUBSET Dirs, failed : BOOLEAN]
  /\ startup \subseteq Files /\ index \in [Files -> {"absent", "current", "old"}]
  /\ hand \in [Files -> {"nothing", "absent", "current", "old"}]

Known(f) == Right(f) \/ (f \in startup /\ Fresh(f)) \/ Hinted(f, dirty) \/ InSync(f)

(* A step that only touches one file: it is read, stored, or given up. *)
LEMMA OneFile ==
  ASSUME TreeInv, UNCHANGED <<exists, onDisk, mode>>, NEW f \in Files,
         \/ StartupRead(f) \/ SyncRead(f) \/ StartupStore(f) \/ SyncStore(f) \/ SyncFails(f)
  PROVE  SyncTypes' /\ Hands' /\ \A h \in onDisk : Known(h) => Known(h)'
<1> USE DEF TreeInv, Shape
<1>1. SyncTypes /\ onDisk \subseteq Files
  BY DEF TypeOK, SyncTypes
<1>2. Active => mode # "starting"
  BY DEF Active
<1>3. CASE StartupRead(f) \/ SyncRead(f)
  <2>1. /\ UNCHANGED <<dirty, sync, startup, index>> /\ hand[f] = "nothing"
        /\ hand' = [hand EXCEPT ![f] = IF f \in onDisk THEN "current" ELSE "absent"]
        /\ f \in startup \/ (startup = {} /\ sync.pc = "reading" /\ f \in sync.files)
    BY <1>3 DEF StartupRead, SyncRead, LookAt, syncVars
  <2>2. /\ hand' \in [Files -> {"nothing", "absent", "current", "old"}]
        /\ hand'[f] = IF f \in onDisk THEN "current" ELSE "absent"
        /\ \A h \in Files : h # f => hand'[h] = hand[h]
    BY ONLY <1>1, <2>1, f \in Files DEF SyncTypes
  <2>3. SyncTypes' /\ Hands'
    BY <1>1, <2>1, <2>2 DEF SyncTypes, Hands
  <2>4. \A h \in onDisk : Fresh(h) => Fresh(h)'
    BY <1>1, <2>1, <2>2 DEF Fresh
  <2>5. QED
    BY <2>1, <2>3, <2>4 DEF Known, Right, UpToDate, Hinted, InSync
<1>4. CASE StartupStore(f) \/ SyncStore(f)
  <2>1. /\ UNCHANGED dirty /\ hand[f] # "nothing" /\ index' = [index EXCEPT ![f] = hand[f]]
        /\ hand' = [hand EXCEPT ![f] = "nothing"] /\ mode # "starting"
        /\ \/ f \in startup /\ startup' = startup \ {f} /\ UNCHANGED sync
           \/ /\ startup = {} /\ UNCHANGED startup /\ sync.pc = "reading"
              /\ sync' = [sync EXCEPT !.files = @ \ {f}]
    BY <1>2, <1>4 DEF StartupStore, SyncStore, Keep, Hands
  <2>2. /\ hand' \in [Files -> {"nothing", "absent", "current", "old"}]
        /\ index' \in [Files -> {"absent", "current", "old"}]
        /\ hand'[f] = "nothing" /\ index'[f] = hand[f]
        /\ \A h \in Files : h # f => hand'[h] = hand[h] /\ index'[h] = index[h]
    BY ONLY <1>1, <2>1, f \in Files DEF SyncTypes
  <2>3. /\ sync' \in [pc : {"idle", "begun", "reading"}, batch : SUBSET (Dirs \cup Files \cup {WholeTree}),
                      files : SUBSET Files, missing : SUBSET Dirs, failed : BOOLEAN]
        /\ sync'.pc = sync.pc /\ sync'.batch = sync.batch /\ sync'.failed = sync.failed
        /\ sync.files \ {f} \subseteq sync'.files
        /\ startup \ {f} \subseteq startup' /\ startup' \subseteq startup
    BY ONLY <1>1, <2>1, f \in Files DEF SyncTypes
  <2>4. SyncTypes'
    BY <1>1, <2>1, <2>2, <2>3 DEF SyncTypes
  <2>5. Hands'
    BY <2>1, <2>2, <2>3 DEF Hands
  <2>6. \A h \in onDisk : h # f /\ Known(h) => Known(h)'
    BY <1>1, <2>1, <2>2, <2>3 DEF Known, Right, Fresh, UpToDate, Hinted, InSync
  <2>7. f \in onDisk /\ Fresh(f) => Right(f)'
    BY <2>1, <2>2 DEF Fresh, Right, UpToDate
  <2>8. f \in onDisk /\ ~Fresh(f) /\ Known(f) => Known(f)'
    BY <2>1, <2>2, <2>3 DEF Known, Right, Fresh, Hinted, InSync
  <2>9. QED
    BY <2>4, <2>5, <2>6, <2>7, <2>8 DEF Known
<1>5. CASE SyncFails(f)
  <2>1. /\ UNCHANGED <<dirty, startup, index>> /\ startup = {} /\ sync.pc = "reading"
        /\ hand' = [hand EXCEPT ![f] = "nothing"]
        /\ sync' = [sync EXCEPT !.files = @ \ {f}, !.failed = TRUE]
    BY <1>5 DEF SyncFails
  <2>2. /\ hand' \in [Files -> {"nothing", "absent", "current", "old"}]
        /\ hand'[f] = "nothing" /\ \A h \in Files : h # f => hand'[h] = hand[h]
    BY ONLY <1>1, <2>1, f \in Files DEF SyncTypes
  <2>3. /\ sync' \in [pc : {"idle", "begun", "reading"}, batch : SUBSET (Dirs \cup Files \cup {WholeTree}),
                      files : SUBSET Files, missing : SUBSET Dirs, failed : BOOLEAN]
        /\ sync'.pc = "reading" /\ sync'.batch = sync.batch /\ sync'.failed
        /\ sync'.files = sync.files \ {f}
    BY ONLY <1>1, <2>1, f \in Files DEF SyncTypes
  <2>4. SyncTypes' /\ Hands'
    BY <1>1, <2>1, <2>2, <2>3 DEF SyncTypes, Hands
  <2>5. \A h \in onDisk : Fresh(h) => Fresh(h)'
    BY <1>1, <2>2 DEF Fresh
  <2>6. QED
    BY <2>1, <2>3, <2>4, <2>5 DEF Known, Right, UpToDate, Hinted, InSync
<1>6. QED
  BY <1>3, <1>4, <1>5

LEMMA SyncStep == ASSUME TreeInv, SyncNext PROVE TreeInv'
<1> USE DEF TreeInv, Shape
<1>1. UNCHANGED <<exists, onDisk, gone, ops, live, queue, overflow, watchedDirs, mode, walk>>
  BY DEF SyncNext, StartupRead, StartupStore, SyncRead, SyncStore, SyncFails, SyncMissing, SyncBegin,
     SyncExpand, SyncDone, diskVars, queueVars, watchVars
<1>2. /\ Closed' /\ Watching' /\ IsFiniteSet(watchedDirs')
      /\ \A f : Told(f)' = Told(f) /\ OnTheWay(f)' = OnTheWay(f) /\ Announced(f)' = Announced(f)
  BY <1>1, SyncFrame
<1> DEFINE NotForgotten == \A f \in onDisk : Known(f) => Known(f)'
<1>3. SUFFICES SyncTypes' /\ Hands' /\ NotForgotten
  <2>1. TypeOK'
    BY <1>1, <1>3 DEF TypeOK, SyncTypes
  <2>2. \A f : Coming(f)' = Coming(f)
    BY <1>1, <1>2 DEF Coming
  <2>3. \A f \in onDisk : Right(f) \/ Excused(f) => Right(f)' \/ Excused(f)'
    BY <1>3, <2>2 DEF Excused, Known
  <2>4. Indexing'
    BY <1>1, <2>3 DEF Indexing
  <2>5. QED
    BY <1>2, <1>3, <2>1, <2>4
<1>4. SyncTypes /\ onDisk \subseteq Files /\ \A f \in onDisk : DirOf[f] \in exists
  BY DEF TypeOK, SyncTypes
<1> DEFINE Fields == /\ sync.batch \subseteq Dirs \cup Files \cup {WholeTree}
                     /\ sync.files \subseteq Files /\ sync.missing \subseteq Dirs
<1>5. Fields
  BY <1>4 DEF SyncTypes
<1>7. ASSUME NEW f \in Files,
             \/ StartupRead(f) \/ SyncRead(f) \/ StartupStore(f) \/ SyncStore(f) \/ SyncFails(f)
      PROVE  SyncTypes' /\ Hands' /\ NotForgotten
  BY <1>1, <1>7, OneFile
<1>9. ASSUME NEW d \in Dirs, SyncMissing(d) PROVE SyncTypes' /\ Hands' /\ NotForgotten
  <2>1. /\ UNCHANGED <<dirty, startup, hand>> /\ sync' = [sync EXCEPT !.missing = @ \ {d}]
        /\ index' = [f \in Files |-> IF d \notin exists /\ f \in In(d) THEN "absent" ELSE index[f]]
    BY <1>9 DEF SyncMissing
  <2>2. /\ sync' \in [pc : {"idle", "begun", "reading"},
                      batch : SUBSET (Dirs \cup Files \cup {WholeTree}),
                      files : SUBSET Files, missing : SUBSET Dirs, failed : BOOLEAN]
        /\ sync'.pc = sync.pc /\ sync'.batch = sync.batch /\ sync'.files = sync.files
        /\ sync'.failed = sync.failed
    BY <1>4, <2>1 DEF SyncTypes
  <2>3. \A f \in onDisk : f \in In(d) => d \in exists
    BY <1>4 DEF In, Closed
  <2>4. \A f \in onDisk : UpToDate(f)' = UpToDate(f)
    BY <1>1, <1>4, <2>1, <2>3 DEF UpToDate, SyncTypes
  <2>5. index' \in [Files -> {"absent", "current", "old"}]
    BY <1>4, <2>1 DEF SyncTypes
  <2>6. QED
    BY <1>1, <1>4, <2>1, <2>2, <2>4, <2>5 DEF Known, Right, Fresh, Hinted, InSync, SyncTypes, Hands
<1>10. CASE SyncBegin
  <2>1. /\ UNCHANGED <<startup, hand, index>> /\ dirty' = {} /\ sync.pc = "idle"
        /\ sync' = [NoSync EXCEPT !.pc = "begun", !.batch = dirty]
    BY <1>10 DEF SyncBegin
  <2>2. sync' = [pc |-> "begun", batch |-> dirty, files |-> {}, missing |-> {}, failed |-> FALSE]
    BY <2>1 DEF NoSync
  <2>3. /\ sync' \in [pc : {"idle", "begun", "reading"},
                      batch : SUBSET (Dirs \cup Files \cup {WholeTree}),
                      files : SUBSET Files, missing : SUBSET Dirs, failed : BOOLEAN]
        /\ sync'.pc = "begun" /\ sync'.batch = dirty
    BY <1>4, <2>2 DEF SyncTypes
  <2>4. \A f : Hinted(f, dirty) => InSync(f)'
    BY <2>3 DEF Hinted, InSync
  <2>5. \A f : ~InSync(f)
    BY <2>1 DEF InSync
  <2>6. \A f : UpToDate(f)' = UpToDate(f)
    BY <1>1, <2>1 DEF UpToDate
  <2>7. SyncTypes'
    BY <1>4, <2>1, <2>3 DEF SyncTypes
  <2>8. Hands'
    BY <1>1, <1>10, <2>1 DEF SyncBegin, Active, Hands
  <2>9. NotForgotten
    BY <2>1, <2>4, <2>5, <2>6 DEF Known, Right, Fresh
  <2>10. QED
    BY <2>7, <2>8, <2>9
<1>11. CASE SyncExpand
  <2>1. /\ UNCHANGED <<dirty, startup, hand, index>> /\ sync.pc = "begun"
        /\ \E fs \in SUBSET Files, ms \in SUBSET Dirs :
             /\ sync' = [sync EXCEPT !.pc = "reading", !.files = fs, !.missing = ms]
             /\ \A f \in Files : Hinted(f, sync.batch) => f \in fs
    <3> DEFINE fs == IF WholeTree \in sync.batch THEN Files
                     ELSE (sync.batch \cap Files) \cup
                          UNION {In(d) \cap (onDisk \cup Tracked) : d \in sync.batch \cap exists}
               ms == IF WholeTree \in sync.batch THEN {} ELSE (sync.batch \cap Dirs) \ exists
    <3>1. sync' = [sync EXCEPT !.pc = "reading", !.files = fs, !.missing = ms]
      BY <1>11 DEF SyncExpand
    <3>2. fs \subseteq Files /\ ms \subseteq Dirs
      BY DEF In
    <3>3. \A f \in Files : Hinted(f, sync.batch) => f \in fs
      BY DEF Hinted
    <3>4. UNCHANGED <<dirty, startup, hand, index>> /\ sync.pc = "begun"
      BY <1>11 DEF SyncExpand
    <3> HIDE DEF fs, ms
    <3>5. QED
      BY <3>1, <3>2, <3>3, <3>4
  <2>2. PICK fs \in SUBSET Files, ms \in SUBSET Dirs :
             /\ sync' = [sync EXCEPT !.pc = "reading", !.files = fs, !.missing = ms]
             /\ \A f \in Files : Hinted(f, sync.batch) => f \in fs
    BY <2>1
  <2>3. /\ sync' \in [pc : {"idle", "begun", "reading"},
                      batch : SUBSET (Dirs \cup Files \cup {WholeTree}),
                      files : SUBSET Files, missing : SUBSET Dirs, failed : BOOLEAN]
        /\ sync'.pc = "reading" /\ sync'.batch = sync.batch /\ sync'.files = fs
    BY <1>4, <2>2 DEF SyncTypes
  <2>4. QED
    BY <1>1, <1>4, <2>1, <2>2, <2>3 DEF Known, Right, Fresh, InSync, Hinted, UpToDate, SyncTypes, Hands
<1>12. CASE SyncDone
  <2>1. /\ UNCHANGED <<startup, hand, index>> /\ sync.pc = "reading" /\ sync.files = {}
        /\ sync' = NoSync
        /\ dirty' = IF sync.failed THEN dirty \cup sync.batch ELSE dirty
    BY <1>12 DEF SyncDone
  <2>2. QED
    BY <1>1, <1>4, <1>5, <2>1
    DEF Known, Right, Fresh, Hinted, InSync, NoSync, UpToDate, SyncTypes, Hands
<1>13. QED
  BY <1>7, <1>9, <1>10, <1>11, <1>12 DEF SyncNext

-----------------------------------------------------------------------------
LEMMA TreeStep == ~Recreate /\ TreeInv /\ [Next]_vars => TreeInv'
<1> SUFFICES ASSUME ~Recreate, TreeInv, [Next]_vars PROVE TreeInv'
  OBVIOUS
<1>1. CASE UNCHANGED vars
  <2>1. UNCHANGED <<exists, onDisk, gone, ops, live, queue, overflow, watchedDirs, mode, walk>>
        /\ UNCHANGED <<dirty, sync, startup, hand, index>>
    BY <1>1 DEF vars, diskVars, queueVars, watchVars, syncVars
  <2>2. QED
    BY <2>1 DEF TreeInv, Shape, TypeOK, Closed, Watching, Indexing, Hands, Covered, OnTheWay,
       Announced, Told, Coming, Excused, InSync, Hinted, Right, Fresh, UpToDate
<1>2. CASE DiskNext
  BY <1>2, FileStep, AddDirStep, RemoveDirStep DEF DiskNext
<1>3. CASE WatchNext
  BY <1>3, WalkAddStep, WalkFailsStep, WalkReadStep, WalkDoneStep, HandleStep DEF WatchNext
<1>4. CASE SyncNext
  BY <1>4, SyncStep
<1>5. QED
  BY <1>1, <1>2, <1>3, <1>4 DEF Next

LEMMA TreeInvariant == ASSUME ~Recreate PROVE Spec => []TreeInv
<1>1. TreeInv /\ [Next]_vars => TreeInv'
  BY TreeStep
<1>2. QED
  BY <1>1, TreeInit, PTL DEF Spec

(* The files on disk hang together, a watch is on a directory that is      *)
(* there, and no more paths are watched than MaxDirWatches allows.         *)
THEOREM TreeTypesCorrect == ASSUME ~Recreate PROVE Spec => []TypeOK
<1>1. TreeInv => TypeOK
  BY DEF TreeInv, Shape
<1>2. Spec => []TreeInv
  BY TreeInvariant
<1>3. QED
  BY <1>1, <1>2, PTL

(* A watcher that has read every event watches every directory, however    *)
(* they came into being around the walk (watchTreeLocked).                 *)
THEOREM EveryDirectoryIsWatched == ASSUME ~Recreate PROVE Spec => []CoverageIsComplete
<1>1. TreeInv => CoverageIsComplete
  <2> SUFFICES ASSUME TreeInv, CaughtUp, NEW d \in exists PROVE d \in live
    BY DEF CoverageIsComplete
  <2>1. walk = NoWalk /\ queue = <<>> /\ mode # "failed" /\ ~overflow
    BY DEF CaughtUp, Active, Walking, TreeInv, Watching
  <2>2. ~OnTheWay(d) /\ ~Announced(d)
    BY <2>1, TreeIsATree DEF OnTheWay, Announced, NoWalk
  <2>3. QED
    BY <2>1, <2>2 DEF TreeInv, Watching, Covered
<1>2. Spec => []TreeInv
  BY TreeInvariant
<1>3. QED
  BY <1>1, <1>2, PTL

(* When nothing is left to reconcile, the index has the present content of *)
(* every file there is (handleFSNotifyEvent, SyncFiles): no write falls    *)
(* between a walk, a watch and an event.                                   *)
THEOREM SettledIndexIsTrue == ASSUME ~Recreate PROVE Spec => []IndexShowsDisk
<1>1. TreeInv => IndexShowsDisk
  <2> SUFFICES ASSUME TreeInv, Settled, NEW f \in onDisk PROVE UpToDate(f)
    BY DEF IndexShowsDisk
  <2>1. walk = NoWalk /\ queue = <<>> /\ mode = "running" /\ ~overflow
    BY DEF Settled, CaughtUp, Active, Walking, TreeInv, Watching
  <2>2. ~Excused(f)
    BY <2>1, TreeIsATree DEF Settled, Excused, Coming, Hinted, InSync, Told, Announced, NoWalk
  <2>3. QED
    BY <2>1, <2>2 DEF TreeInv, Indexing, Right
<1>2. Spec => []TreeInv
  BY TreeInvariant
<1>3. QED
  BY <1>1, <1>2, PTL
=============================================================================
