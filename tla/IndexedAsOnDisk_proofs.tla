------------------------ MODULE IndexedAsOnDisk_proofs ------------------------
(***************************************************************************)
(* IndexedAsOnDisk for every value of the constants: once everything is    *)
(* worked off, the index has of every file the pipeline has not lost track *)
(* of what a full rebuild would have.                                      *)
(*                                                                         *)
(* NoStaleText follows from any event being on its way; here it counts     *)
(* which is the last. A file to be indexed is ToBeIndexed: what is queued  *)
(* last about it is a change, or nothing queued takes it away and the      *)
(* index published next has it. A file that is not to be indexed is        *)
(* ToBeForgotten: any event takes it away, a change as well. A change of   *)
(* LoadFolders.xml stands for all files of the project, and so no deletion *)
(* may swallow it on its way (FoldersHeard).                               *)
(***************************************************************************)
EXTENDS EventPipeline_proofs

-----------------------------------------------------------------------------
(* The invariant *)

LoadFoldersFile == <<Locations[1].id, LoadFoldersXml>>

ChangeOf(x, f) == x.kind \in {"Changed", "FileChanged"} /\ <<x.loc, x.path>> = f

ChangeIn(xs, f) == \E x \in xs : ChangeOf(x, f)

NoRemoval(xs, f) == \A x \in xs : ~RemovalOf(x, f)

\* The game would load the file.
Loaded(f) == f[2] \in ActivePaths(f[1])

\* A change of the file with no deletion after it.
LastTold(s, f) ==
    \E i \in DOMAIN s : ChangeOf(s[i], f) /\ \A j \in DOMAIN s : j > i => ~RemovalOf(s[j], f)

RebuildQueued == \E job \in Range(jobQueue) : job.gen = generation /\ job.kind = "FullRebuild"

FoldersChanged ==
    \/ ChangeIn(Range(watcherQueue) \cup Range(pending), LoadFoldersFile)
    \/ worker.pc = "files" /\ ChangeIn(worker.jobs, LoadFoldersFile)

\* All files of the project are to be read again.
FoldersOwed(f) == f[1] = Locations[1].id /\ FoldersChanged

\* The index published next has the file as it is on disk.
WorkerIndexes(f) ==
    \/ worker.pc = "idle" /\ RecordsOf(published.index, f) = Fresh(f)
    \/ /\ worker.pc = "files" /\ NoRemoval(worker.jobs, f)
       /\ ChangeIn(worker.jobs, f) \/ RecordsOf(worker.index, f) = Fresh(f)
    \/ worker.pc = "rebuild" /\ (~Visited(f) \/ RecordsOf(worker.index, f) = Fresh(f))

\* The index published next has nothing of the file.
WorkerForgets(f) ==
    \/ worker.pc = "idle" /\ RecordsOf(published.index, f) = Nothing
    \/ worker.pc = "files" /\ (TellsOne(worker.jobs, f) \/ RecordsOf(worker.index, f) = Nothing)
    \/ worker.pc = "rebuild" /\ \/ f[1] \in {l.id : l \in Range(worker.locations)}
                                \/ f \notin Range(worker.files) /\ RecordsOf(worker.index, f) = Nothing

\* A file to be indexed: what is queued last about it is a change, or nothing is
\* queued that takes it away and the worker has it or will read it.
ToBeIndexed(f) ==
    \/ LastTold(watcherQueue, f)
    \/ /\ NoRemoval(Range(watcherQueue), f) /\ NoRemoval(Range(pending), f)
       /\ \/ ChangeIn(Range(pending), f) \/ RebuildQueued
          \/ ~RemovalQueued(f) /\ (Included(f) => FoldersOwed(f) \/ WorkerIndexes(f))

\* Any event will do for a file that is not to be indexed: handling it removes the file.
ToBeForgotten(f) == Included(f) => Owed(f) \/ FoldersOwed(f) \/ WorkerForgets(f)

FileRight(f) == IF Loaded(f) THEN ToBeIndexed(f) ELSE ToBeForgotten(f)

FilesRight == \A f \in Files \ lost : FileRight(f)

\* No deletion of the LoadFolders.xml can swallow a change of it.
FoldersHeard ==
    \A f \in Files \ lost : f[1] = Locations[1].id =>
        Event("Deleted", f[1], LoadFoldersXml) \notin Range(watcherQueue) \cup Range(pending)

DiskInv == TextInv /\ FoldersHeard /\ FilesRight

-----------------------------------------------------------------------------
(* What is indexed of a file *)

LEMMA LoadedOnDisk ==
    ASSUME DiskTyped, NEW f \in Files, Loaded(f)
    PROVE  disk[f] # Gone /\ disk[f] \in Contents /\ ContentOf(f) = disk[f]
<1>1. f = <<f[1], f[2]>>
  BY FileShape
<1>2. disk[f] # Gone
  BY <1>1, ActivePathsExist DEF Loaded
<1> QED
  BY <1>2 DEF DiskTyped, ContentOf

\* A full rebuild has of a file of the collection what is on disk, if the game
\* would load it, and nothing otherwise.
LEMMA RebuildSays ==
    ASSUME EventShapes, NEW f \in Files, Included(f)
    PROVE  RecordsOf(BuildDefIndex(active), f) = IF Loaded(f) THEN Fresh(f) ELSE Nothing
<1> DEFINE K == {g \in Files : \E l \in Range(IncludedLocations(Locations, active)) :
                    l.id = g[1] /\ g[2] \in ActivePaths(g[1])}
<1>1. DiskTyped
  BY DEF EventShapes
<1>2. RecordsOf(BuildDefIndex(active), f)
         = IF f \in Range(IndexableFiles(active))
           THEN [defs |-> AddedDefs(f, disk[f]), errors |-> AddedErrors(f, disk[f])]
           ELSE Nothing
  BY <1>1, BuildRecords
<1>3. f \in K <=> Loaded(f)
  BY DEF Included, Loaded
<1>4. IndexableFiles(active) = Retain(FileOrder, K)
  BY DEF IndexableFiles
<1>5. FileOrder \in Seq(Files) /\ Range(FileOrder) = Files
  BY EventsAssumption DEF Files, Range
<1> HIDE DEF K
<1>6. Range(IndexableFiles(active)) = Range(FileOrder) \cap K
  BY <1>4, <1>5, RetainRange
<1>7. f \in Range(IndexableFiles(active)) <=> Loaded(f)
  BY <1>3, <1>5, <1>6
<1>8. Loaded(f) => Fresh(f) = [defs |-> AddedDefs(f, disk[f]), errors |-> AddedErrors(f, disk[f])]
  BY <1>1, FreshIs, LoadedOnDisk
<1> QED
  BY <1>2, <1>7, <1>8

LEMMA DiskInvIndexed == ASSUME DiskInv PROVE IndexedAsOnDisk
<1> SUFFICES ASSUME Quiescent, NEW f \in Files \ lost, Included(f)
             PROVE  RecordsOf(published.index, f) = RecordsOf(BuildDefIndex(active), f)
  BY DEF IndexedAsOnDisk
<1>1. EventShapes /\ FileRight(f)
  BY DEF DiskInv, TextInv, FilesRight
<1>2. worker.pc = "idle" /\ watcherQueue = <<>> /\ jobQueue = <<>> /\ pending = <<>>
  BY DEF Quiescent
<1>3. Range(watcherQueue) = {} /\ Range(jobQueue) = {} /\ Range(pending) = {}
  BY <1>2, EmptyRange
<1>4. ~RebuildQueued /\ ~FoldersOwed(f)
  BY <1>2, <1>3 DEF RebuildQueued, FoldersOwed, FoldersChanged, ChangeIn
<1>5. ~LastTold(watcherQueue, f) /\ ~Owed(f) /\ ~ChangeIn(Range(pending), f)
  BY <1>2, <1>3 DEF LastTold, Owed, Tells, ChangeIn
<1>6. RecordsOf(published.index, f) = IF Loaded(f) THEN Fresh(f) ELSE Nothing
  BY <1>1, <1>2, <1>4, <1>5 DEF FileRight, ToBeIndexed, ToBeForgotten, WorkerIndexes, WorkerForgets
<1> QED
  BY <1>1, <1>6, RebuildSays

-----------------------------------------------------------------------------
(* What is told last *)

LEMMA LastToldAppend ==
    ASSUME NEW S, NEW s \in Seq(S), NEW x \in S, NEW f
    PROVE  LastTold(Append(s, x), f) <=>
              ChangeOf(x, f) \/ (LastTold(s, f) /\ ~RemovalOf(x, f))
<1> DEFINE t == Append(s, x)
           n == Len(s)
<1>1. /\ n \in Nat /\ DOMAIN s = 1 .. n /\ DOMAIN t = 1 .. n + 1 /\ t[n + 1] = x
      /\ \A i \in 1 .. n : t[i] = s[i]
  OBVIOUS
<1> HIDE DEF t, n
<1>2. ASSUME LastTold(t, f) PROVE ChangeOf(x, f) \/ (LastTold(s, f) /\ ~RemovalOf(x, f))
  <2>1. PICK i \in 1 .. n + 1 : ChangeOf(t[i], f) /\ \A j \in 1 .. n + 1 : j > i => ~RemovalOf(t[j], f)
    BY <1>1, <1>2 DEF LastTold
  <2>2. CASE i = n + 1
    BY <1>1, <2>1, <2>2
  <2>3. CASE i \in 1 .. n
    <3>1. ~RemovalOf(x, f)
      BY <1>1, <2>1, <2>3
    <3>2. ChangeOf(s[i], f) /\ \A j \in 1 .. n : j > i => ~RemovalOf(s[j], f)
      BY <1>1, <2>1, <2>3
    <3> QED
      BY <1>1, <2>3, <3>1, <3>2 DEF LastTold
  <2> QED
    BY <1>1, <2>2, <2>3
<1>3. ASSUME ChangeOf(x, f) PROVE LastTold(t, f)
  <2>1. n + 1 \in DOMAIN t /\ \A j \in DOMAIN t : ~(j > n + 1)
    BY <1>1
  <2> QED
    BY <1>1, <1>3, <2>1 DEF LastTold
<1>4. ASSUME LastTold(s, f), ~RemovalOf(x, f) PROVE LastTold(t, f)
  <2>1. PICK i \in 1 .. n : ChangeOf(s[i], f) /\ \A j \in 1 .. n : j > i => ~RemovalOf(s[j], f)
    BY <1>1, <1>4 DEF LastTold
  <2>2. i \in DOMAIN t /\ ChangeOf(t[i], f)
    BY <1>1, <2>1
  <2>3. \A j \in DOMAIN t : j > i => ~RemovalOf(t[j], f)
    <3> SUFFICES ASSUME NEW j \in 1 .. n + 1, j > i PROVE ~RemovalOf(t[j], f)
      BY <1>1
    <3>1. CASE j = n + 1
      BY <1>1, <1>4, <3>1
    <3>2. CASE j \in 1 .. n
      BY <1>1, <2>1, <3>2
    <3> QED
      BY <1>1, <3>1, <3>2
  <2> QED
    BY <2>2, <2>3 DEF LastTold
<1> QED
  BY <1>2, <1>3, <1>4 DEF t

LEMMA NothingTold == \A f : ~LastTold(<<>>, f)
  BY DEF LastTold

\* What is told last of two queues is told last of the second, or of the first if
\* the second takes nothing away.
LEMMA LastToldConcat ==
    ASSUME NEW S, NEW s \in Seq(S), NEW t \in Seq(S), NEW f,
           LastTold(t, f) \/ (LastTold(s, f) /\ NoRemoval(Range(t), f))
    PROVE  LastTold(s \o t, f)
<1> DEFINE P == {u \in Seq(S) : LastTold(u, f) \/ (LastTold(s, f) /\ NoRemoval(Range(u), f))
                                => LastTold(s \o u, f)}
<1>1. <<>> \in P
  <2>1. s \o <<>> = s
    OBVIOUS
  <2> QED
    BY <2>1, NothingTold
<1>2. ASSUME NEW u \in Seq(S), NEW x \in S, u \in P
      PROVE  Append(u, x) \in P
  <2>1. s \o Append(u, x) = Append(s \o u, x) /\ s \o u \in Seq(S)
    OBVIOUS
  <2>2. Append(u, x) \in Seq(S) /\ Range(Append(u, x)) = Range(u) \cup {x}
    BY AppendRange
  <2>3. LastTold(Append(u, x), f) <=> ChangeOf(x, f) \/ (LastTold(u, f) /\ ~RemovalOf(x, f))
    BY LastToldAppend
  <2>4. LastTold(Append(s \o u, x), f) <=> ChangeOf(x, f) \/ (LastTold(s \o u, f) /\ ~RemovalOf(x, f))
    <3> DEFINE v == s \o u
    <3>1. v \in Seq(S)
      BY <2>1
    <3> HIDE DEF v
    <3>2. LastTold(Append(v, x), f) <=> ChangeOf(x, f) \/ (LastTold(v, f) /\ ~RemovalOf(x, f))
      BY <3>1, LastToldAppend
    <3> QED
      BY <3>2 DEF v
  <2>5. NoRemoval(Range(Append(u, x)), f) <=> NoRemoval(Range(u), f) /\ ~RemovalOf(x, f)
    BY <2>2 DEF NoRemoval
  <2> QED
    BY <1>2, <2>1, <2>2, <2>3, <2>4, <2>5
<1>3. t \in P
  <2> HIDE DEF P
  <2> QED
    BY <1>1, <1>2, Kept!SequenceInduction
<1> QED
  BY <1>3

\* Leaving out what is no change of the file leaves the last change the last.
LEMMA LastToldKept ==
    ASSUME NEW S, NEW s \in Seq(S), NEW K, NEW f, LastTold(s, f),
           \A x \in Range(s) : ChangeOf(x, f) => x \in K
    PROVE  LastTold(Retain(s, K), f)
<1> DEFINE P == {u \in Seq(S) : LastTold(u, f) /\ (\A x \in Range(u) : ChangeOf(x, f) => x \in K)
                                => LastTold(Retain(u, K), f)}
<1>4. /\ Retain(<<>>, K) = <<>>
      /\ \A u \in Seq(S) : Retain(u, K) \in Seq(S)
      /\ \A u \in Seq(S), x \in S :
            Retain(Append(u, x), K) = IF x \in K THEN Append(Retain(u, K), x)
                                      ELSE Retain(u, K)
  BY RetainLaws
<1>1. <<>> \in P
  BY NothingTold
<1>2. ASSUME NEW u \in Seq(S), NEW x \in S, u \in P
      PROVE  Append(u, x) \in P
  <2>1. Append(u, x) \in Seq(S) /\ Range(Append(u, x)) = Range(u) \cup {x}
    BY AppendRange
  <2>2. LastTold(Append(u, x), f) <=> ChangeOf(x, f) \/ (LastTold(u, f) /\ ~RemovalOf(x, f))
    BY LastToldAppend
  <2>3. LastTold(Append(Retain(u, K), x), f)
           <=> ChangeOf(x, f) \/ (LastTold(Retain(u, K), f) /\ ~RemovalOf(x, f))
    <3> DEFINE v == Retain(u, K)
    <3>1. v \in Seq(S)
      BY <1>4
    <3> HIDE DEF v
    <3>2. LastTold(Append(v, x), f) <=> ChangeOf(x, f) \/ (LastTold(v, f) /\ ~RemovalOf(x, f))
      BY <3>1, LastToldAppend
    <3> QED
      BY <3>2 DEF v
  <2>4. Retain(Append(u, x), K) = IF x \in K THEN Append(Retain(u, K), x) ELSE Retain(u, K)
    BY <1>4
  <2> QED
    BY <1>2, <2>1, <2>2, <2>3, <2>4
<1>3. s \in P
  <2> HIDE DEF P
  <2> QED
    BY <1>1, <1>2, Kept!SequenceInduction
<1> QED
  BY <1>3

-----------------------------------------------------------------------------
(* What the debouncer makes of it *)

\* A change is pending, and no deletion.
Heard(queue, f) == ChangeIn(Range(queue), f) /\ NoRemoval(Range(queue), f)

\* A change that does not find a deletion pending is recorded in place of everything
\* else about the file; what is about other files is left alone.
LEMMA RecordHears ==
    ASSUME NEW queue \in Seq(FileEvents), NEW ev \in FileEvents, NEW f
    PROVE  /\ Record(queue, ev) \in Seq(FileEvents)
           /\ Range(Record(queue, ev)) \subseteq Range(queue) \cup {ev}
           /\ ChangeOf(ev, f) /\ ~DeletePending(queue, ev) => Heard(Record(queue, ev), f)
           /\ ChangeOf(ev, f) /\ NoRemoval(Range(queue), f) => Heard(Record(queue, ev), f)
           /\ Heard(queue, f) /\ ~RemovalOf(ev, f) => Heard(Record(queue, ev), f)
<1> DEFINE K == {e \in Range(queue) : ~SameFile(e, ev)}
           others == Retain(queue, K)
           new == Record(queue, ev)
<1>1. ASSUME NEW e \in FileEvents
      PROVE  /\ e.kind \in {"Changed", "Deleted"}
             /\ ChangeOf(e, f) <=> e.kind = "Changed" /\ <<e.loc, e.path>> = f
             /\ RemovalOf(e, f) <=> e.kind = "Deleted" /\ <<e.loc, e.path>> = f
  BY DEF FileEvents, Events, ChangeOf, RemovalOf
<1>2. Range(queue) \subseteq FileEvents
  BY DEF Range
<1>3. \A e \in Range(queue) : SameFile(e, ev) <=> <<e.loc, e.path>> = <<ev.loc, ev.path>>
  BY DEF SameFile
<1>4. K \subseteq Range(queue) /\ \A e \in Range(queue) : e \in K <=> ~SameFile(e, ev)
  OBVIOUS
<1> HIDE DEF K
<1>5. others \in Seq(FileEvents) /\ Range(others) = K
  <2>1. others \in Seq(FileEvents) /\ Range(others) = Range(queue) \cap K
    BY RetainRange
  <2> QED
    BY <1>4, <2>1
<1>6. new = IF ev.kind = "Changed" /\ DeletePending(queue, ev) THEN queue ELSE Append(others, ev)
  BY DEF Record, PendingOther, K
<1> HIDE DEF others, new
<1>7. Append(others, ev) \in Seq(FileEvents) /\ Range(Append(others, ev)) = K \cup {ev}
  BY <1>5, AppendRange
<1>8. new \in Seq(FileEvents) /\ Range(new) \subseteq Range(queue) \cup {ev}
  BY <1>4, <1>6, <1>7
<1>9. NoRemoval(Range(queue), f) /\ ChangeOf(ev, f) => ~DeletePending(queue, ev)
  BY <1>1, <1>2, <1>3 DEF DeletePending, NoRemoval
<1>10. ASSUME ChangeOf(ev, f), ~DeletePending(queue, ev)
       PROVE  Heard(new, f)
  <2>1. Range(new) = K \cup {ev}
    BY <1>6, <1>7, <1>10
  <2>2. \A e \in K : ~RemovalOf(e, f)
    BY <1>1, <1>2, <1>3, <1>4, <1>10
  <2>3. ~RemovalOf(ev, f)
    BY <1>1, <1>10
  <2> QED
    BY <1>10, <2>1, <2>2, <2>3 DEF Heard, ChangeIn, NoRemoval
<1>11. ASSUME Heard(queue, f), ~RemovalOf(ev, f)
       PROVE  Heard(new, f)
  <2>1. CASE ChangeOf(ev, f)
    BY <1>9, <1>10, <1>11, <2>1 DEF Heard
  <2>2. CASE ~ChangeOf(ev, f)
    <3>1. <<ev.loc, ev.path>> # f
      BY <1>1, <1>11, <2>2
    <3>2. PICK e \in Range(queue) : ChangeOf(e, f)
      BY <1>11 DEF Heard, ChangeIn
    <3>3. e \in K
      BY <1>1, <1>2, <1>3, <1>4, <3>1, <3>2
    <3>4. e \in Range(new)
      BY <1>6, <1>7, <3>2, <3>3
    <3>5. NoRemoval(Range(new), f)
      BY <1>8, <1>11 DEF Heard, NoRemoval
    <3> QED
      BY <3>2, <3>4, <3>5 DEF Heard, ChangeIn
  <2> QED
    BY <2>1, <2>2
<1> QED
  BY <1>8, <1>9, <1>10, <1>11 DEF new

LEMMA RecordAllSteps ==
    ASSUME NEW queue \in Seq(FileEvents)
    PROVE  /\ RecordAll(queue, <<>>) = queue
           /\ \A s \in Seq(FileEvents) : RecordAll(queue, s) \in Seq(FileEvents)
           /\ \A s \in Seq(FileEvents), x \in FileEvents :
                 RecordAll(queue, Append(s, x)) = Record(RecordAll(queue, s), x)
<1>1. Recorded!Steps(0, Seq(FileEvents), FileEvents)
  BY RecordKeepsFiles DEF Recorded!Steps, RecordStep
<1>2. /\ Recorded!Folded(0, queue, <<>>) = queue
      /\ \A s \in Seq(FileEvents) : Recorded!Folded(0, queue, s) \in Seq(FileEvents)
      /\ \A s \in Seq(FileEvents), x \in FileEvents :
            Recorded!Folded(0, queue, Append(s, x)) = RecordStep(0, Recorded!Folded(0, queue, s), x)
  BY <1>1, Recorded!FoldLaws
<1>3. \A s : RecordAll(queue, s) = Recorded!Folded(0, queue, s)
  BY DEF RecordAll, Recorded!Folded, RecordStep, FoldLeft, Recorded!FoldLeft,
         MapThenFoldSet, Recorded!MapThenFoldSet, Max, Recorded!Max
<1> QED
  BY <1>2, <1>3 DEF RecordStep

\* Nothing is pending that was not recorded; and without deletions of the file every
\* change of it is heard.
LEMMA RecordAllHears ==
    ASSUME NEW queue \in Seq(FileEvents), NEW events \in Seq(FileEvents), NEW f
    PROVE  /\ Range(RecordAll(queue, events)) \subseteq Range(queue) \cup Range(events)
           /\ /\ NoRemoval(Range(queue) \cup Range(events), f)
              /\ ChangeIn(Range(queue) \cup Range(events), f)
              => Heard(RecordAll(queue, events), f)
<1> DEFINE All(s) == RecordAll(queue, s)
           P == {s \in Seq(FileEvents) :
                    /\ Range(All(s)) \subseteq Range(queue) \cup Range(s)
                    /\ /\ NoRemoval(Range(queue) \cup Range(s), f)
                       /\ ChangeIn(Range(queue) \cup Range(s), f)
                       => Heard(All(s), f)}
<1>1. /\ All(<<>>) = queue
      /\ \A s \in Seq(FileEvents) : All(s) \in Seq(FileEvents)
      /\ \A s \in Seq(FileEvents), x \in FileEvents : All(Append(s, x)) = Record(All(s), x)
  BY RecordAllSteps
<1> HIDE DEF All
<1>2. <<>> \in P
  <2> DEFINE none == <<>>
  <2>1. none \in Seq(FileEvents) /\ All(none) = queue /\ Range(queue) \cup Range(none) = Range(queue)
    BY <1>1, EmptyRange
  <2> HIDE DEF none
  <2>2. none \in P
    BY <2>1 DEF Heard
  <2> QED
    BY <2>2 DEF none
<1>3. ASSUME NEW s \in Seq(FileEvents), NEW x \in FileEvents, s \in P
      PROVE  Append(s, x) \in P
  <2>1. Append(s, x) \in Seq(FileEvents) /\ Range(Append(s, x)) = Range(s) \cup {x}
    BY AppendRange
  <2>2. All(s) \in Seq(FileEvents) /\ All(Append(s, x)) = Record(All(s), x)
    BY <1>1
  <2>3. /\ Range(Record(All(s), x)) \subseteq Range(All(s)) \cup {x}
        /\ ChangeOf(x, f) /\ NoRemoval(Range(All(s)), f) => Heard(Record(All(s), x), f)
        /\ Heard(All(s), f) /\ ~RemovalOf(x, f) => Heard(Record(All(s), x), f)
    BY <2>2, RecordHears
  <2>4. Range(All(s)) \subseteq Range(queue) \cup Range(s)
    BY <1>3
  <2>5. ASSUME NoRemoval(Range(queue) \cup Range(Append(s, x)), f),
               ChangeIn(Range(queue) \cup Range(Append(s, x)), f)
        PROVE  Heard(All(Append(s, x)), f)
    <3>1. NoRemoval(Range(queue) \cup Range(s), f) /\ ~RemovalOf(x, f) /\ NoRemoval(Range(All(s)), f)
      BY <2>1, <2>4, <2>5 DEF NoRemoval
    <3>2. ChangeOf(x, f) \/ ChangeIn(Range(queue) \cup Range(s), f)
      BY <2>1, <2>5 DEF ChangeIn
    <3> QED
      BY <1>3, <2>2, <2>3, <3>1, <3>2
  <2> QED
    BY <2>1, <2>2, <2>3, <2>4, <2>5
<1>4. events \in P
  <2> HIDE DEF P
  <2> QED
    BY <1>2, <1>3, Recorded!SequenceInduction
<1> QED
  BY <1>4 DEF All

\* A change of which none was dropped is heard if no deletion comes after it.
LEMMA RecordAllTold ==
    ASSUME NEW queue \in Seq(FileEvents), NEW events \in Seq(FileEvents), NEW f \in Files,
           f \notin Dropped(queue, events), LastTold(events, f)
    PROVE  Heard(RecordAll(queue, events), f)
<1> DEFINE All(s) == RecordAll(queue, s)
           P == {s \in Seq(FileEvents) :
                    f \notin Dropped(queue, s) /\ LastTold(s, f) => Heard(All(s), f)}
<1>1. /\ \A s \in Seq(FileEvents) : All(s) \in Seq(FileEvents)
      /\ \A s \in Seq(FileEvents), x \in FileEvents : All(Append(s, x)) = Record(All(s), x)
  BY RecordAllSteps
<1>2. \A s : f \in Dropped(queue, s) <=>
              \E i \in DOMAIN s : /\ s[i].kind = "Changed" /\ <<s[i].loc, s[i].path>> = f
                                  /\ DeletePending(All(SubSeq(s, 1, i - 1)), s[i])
  BY DEF Dropped
<1> HIDE DEF All
<1>3. <<>> \in P
  BY NothingTold
<1>4. ASSUME NEW s \in Seq(FileEvents), NEW x \in FileEvents, s \in P
      PROVE  Append(s, x) \in P
  <2> DEFINE t == Append(s, x)
             n == Len(s)
  <2>1. t \in Seq(FileEvents) /\ Range(t) = Range(s) \cup {x}
    BY AppendRange
  <2>2. /\ n \in Nat /\ DOMAIN s = 1 .. n /\ DOMAIN t = 1 .. n + 1 /\ t[n + 1] = x
        /\ \A i \in 1 .. n : t[i] = s[i]
        /\ SubSeq(t, 1, n) = s
        /\ \A i \in 1 .. n : SubSeq(t, 1, i - 1) = SubSeq(s, 1, i - 1)
    OBVIOUS
  <2>3. LastTold(t, f) <=> ChangeOf(x, f) \/ (LastTold(s, f) /\ ~RemovalOf(x, f))
    BY LastToldAppend
  <2>4. All(s) \in Seq(FileEvents) /\ All(t) = Record(All(s), x)
    BY <1>1
  <2> HIDE DEF t, n
  <2>5. /\ ChangeOf(x, f) /\ ~DeletePending(All(s), x) => Heard(All(t), f)
        /\ Heard(All(s), f) /\ ~RemovalOf(x, f) => Heard(All(t), f)
    BY <2>4, RecordHears
  <2> SUFFICES ASSUME f \notin Dropped(queue, t), LastTold(t, f)
               PROVE  Heard(All(t), f)
    BY <2>1 DEF t
  <2>6. f \notin Dropped(queue, s)
    <3> SUFFICES ASSUME NEW i \in 1 .. n, s[i].kind = "Changed", <<s[i].loc, s[i].path>> = f,
                        DeletePending(All(SubSeq(s, 1, i - 1)), s[i])
                 PROVE  FALSE
      BY <1>2, <2>2
    <3>1. i \in DOMAIN t /\ t[i] = s[i] /\ SubSeq(t, 1, i - 1) = SubSeq(s, 1, i - 1)
      BY <2>2
    <3> QED
      BY <1>2, <3>1
  <2>7. CASE ChangeOf(x, f)
    <3>1. x.kind = "Changed" /\ <<x.loc, x.path>> = f
      BY <2>7 DEF ChangeOf, FileEvents, Events
    <3>2. n + 1 \in DOMAIN t /\ t[n + 1] = x /\ SubSeq(t, 1, (n + 1) - 1) = s
      BY <2>2
    <3>3. ~DeletePending(All(s), x)
      BY <1>2, <3>1, <3>2
    <3> QED
      BY <2>5, <2>7, <3>3
  <2>8. CASE ~ChangeOf(x, f)
    BY <1>4, <2>3, <2>5, <2>6, <2>8
  <2> QED
    BY <2>7, <2>8
<1>5. events \in P
  <2> HIDE DEF P
  <2> QED
    BY <1>3, <1>4, Recorded!SequenceInduction
<1> QED
  BY <1>5 DEF All

-----------------------------------------------------------------------------
(* What a batch makes of it *)

\* Coalescing invents no job.
LEMMA CoalesceAllSub ==
    ASSUME NEW live \in Seq(FileJobs)
    PROVE  FoldLeft(CoalesceJob, {}, live) \subseteq Range(live)
<1> DEFINE none == {}
           All(s) == Coalesced!Folded(0, none, s)
           P == {s \in Seq(FileJobs) : All(s) \subseteq Range(s)}
           V == SUBSET FileJobs
<1>1. Coalesced!Steps(0, V, FileJobs)
  BY CoalesceKeepsFiles DEF Coalesced!Steps, CoalesceStep
<1>2. none \in V
  OBVIOUS
<1>3. \A s : FoldLeft(CoalesceJob, {}, s) = All(s)
  BY DEF Coalesced!Folded, CoalesceStep, FoldLeft, Coalesced!FoldLeft,
         MapThenFoldSet, Coalesced!MapThenFoldSet, Max, Coalesced!Max
<1>4. /\ Coalesced!Folded(0, none, <<>>) = none
      /\ \A s \in Seq(FileJobs) : Coalesced!Folded(0, none, s) \in V
      /\ \A s \in Seq(FileJobs), x \in FileJobs :
            Coalesced!Folded(0, none, Append(s, x)) = CoalesceStep(0, Coalesced!Folded(0, none, s), x)
  <2> HIDE DEF none, V
  <2> QED
    BY <1>1, <1>2, Coalesced!FoldLaws
<1>5. /\ All(<<>>) = {}
      /\ \A s \in Seq(FileJobs), x \in FileJobs : All(Append(s, x)) = CoalesceJob(All(s), x)
  BY <1>4 DEF CoalesceStep
<1> HIDE DEF All
<1>6. <<>> \in P
  BY <1>5
<1>7. ASSUME NEW s \in Seq(FileJobs), NEW x \in FileJobs, s \in P
      PROVE  Append(s, x) \in P
  <2>1. Append(s, x) \in Seq(FileJobs) /\ Range(Append(s, x)) = Range(s) \cup {x}
    BY AppendRange
  <2>2. x.kind \in {"FileChanged", "FileDeleted", "FolderDeleted"}
    BY DEF FileJobs
  <2>3. CoalesceJob(All(s), x) \subseteq All(s) \cup {x}
    BY <2>2 DEF CoalesceJob
  <2> QED
    BY <1>5, <1>7, <2>1, <2>3
<1>8. live \in P
  <2> HIDE DEF P
  <2> QED
    BY <1>6, <1>7, Coalesced!SequenceInduction
<1> QED
  BY <1>3, <1>8

\* The jobs of a batch that count.
Live(batch) == {job \in Range(batch) : job.gen = generation}

LEMMA CoalesceSub ==
    ASSUME NEW batch \in Seq(Jobs)
    PROVE  /\ Coalesce(batch, generation) \subseteq Live(batch)
           /\ (\E job \in Live(batch) : job.kind = "FullRebuild") =>
                 \E job \in Coalesce(batch, generation) : job.kind = "FullRebuild"
<1> DEFINE L == {job \in Range(batch) : job.gen = generation}
           live == Retain(batch, L)
<1>0. L \subseteq Range(batch) /\ L = Live(batch)
  BY DEF Live
<1> HIDE DEF L
<1>1. live \in Seq(Jobs) /\ Range(live) = L
  <2>1. live \in Seq(Jobs) /\ Range(live) = Range(batch) \cap L
    BY RetainRange
  <2> QED
    BY <1>0, <2>1
<1>2. CASE \E job \in Range(live) : job.kind = "FullRebuild"
  <2>1. Coalesce(batch, generation) = {CHOOSE job \in Range(live) : job.kind = "FullRebuild"}
    BY <1>2 DEF Coalesce, L
  <2> QED
    BY <1>0, <1>1, <1>2, <2>1
<1>3. CASE ~(\E job \in Range(live) : job.kind = "FullRebuild")
  <2> DEFINE all == FoldLeft(CoalesceJob, {}, live)
  <2>1. Coalesce(batch, generation) = all
    BY <1>3 DEF Coalesce, L
  <2> HIDE DEF live
  <2>2. Range(live) \subseteq FileJobs
    BY <1>1, <1>3 DEF Jobs, Range
  <2>3. live \in Seq(FileJobs)
    BY <1>1, <2>2 DEF Range
  <2>4. all \subseteq Range(live)
    BY <2>3, CoalesceAllSub
  <2> HIDE DEF all
  <2> QED
    BY <1>0, <1>1, <1>3, <2>1, <2>4
<1> QED
  BY <1>2, <1>3

\* A batch starts a rebuild, or leaves the worker as it is, or starts file jobs.
LEMMA BatchStarts ==
    ASSUME EventShapes, worker.pc = "idle", NEW batch \in Seq(Jobs),
           ProcessBatch(Coalesce(batch, generation))
    PROVE  /\ \/ StartRebuild(active)
              \/ /\ worker' = worker
                 /\ \A job \in Live(batch) : \A f : ~Concerns(job, f)
              \/ /\ worker'.pc = "files" /\ worker'.index = published.index
                 /\ worker'.jobs \subseteq Live(batch) /\ worker'.jobs \in SUBSET FileJobs
                 /\ \A job \in Live(batch) : \A f : Concerns(job, f) => TellsOne(worker'.jobs, f)
           /\ (\E job \in Live(batch) : job.kind = "FullRebuild") => StartRebuild(active)
<1> DEFINE jobs == Coalesce(batch, generation)
<1>1. /\ jobs \subseteq Live(batch)
      /\ (\E job \in Live(batch) : job.kind = "FullRebuild") =>
            \E job \in jobs : job.kind = "FullRebuild"
  BY CoalesceSub
<1>2. \/ \E job \in jobs : job.kind = "FullRebuild"
      \/ /\ jobs \in SUBSET FileJobs
         /\ \A job \in Live(batch) : \A f : Concerns(job, f) => TellsOne(jobs, f)
  BY CoalesceGives DEF Live
<1>3. ProcessBatch(jobs)
  OBVIOUS
<1> HIDE DEF jobs
<1>4. CASE \E job \in jobs : job.kind = "FullRebuild"
  BY <1>3, <1>4 DEF ProcessBatch
<1>5. CASE jobs = {}
  <2>1. worker' = worker /\ \A job \in Live(batch) : \A f : ~Concerns(job, f)
    BY <1>2, <1>3, <1>5 DEF ProcessBatch, TellsOne
  <2> QED
    BY <1>1, <1>5, <2>1
<1>6. CASE jobs # {} /\ ~(\E job \in jobs : job.kind = "FullRebuild")
  <2>1. StartFiles(jobs)
    BY <1>3, <1>6 DEF ProcessBatch
  <2>2. CASE published.project = active
    <3>1. worker' = [IdleWorker EXCEPT !.pc = "files", !.gen = generation, !.project = active,
                                       !.jobs = jobs, !.index = published.index]
      BY <2>1, <2>2 DEF StartFiles
    <3>2. worker' = [pc |-> "files", gen |-> generation, project |-> active, jobs |-> jobs,
                     locations |-> <<>>, files |-> <<>>, index |-> published.index]
      BY <3>1 DEF IdleWorker
    <3>3. worker'.pc = "files" /\ worker'.index = published.index /\ worker'.jobs = jobs
      BY <3>2
    <3> QED
      BY <1>1, <1>2, <1>6, <3>3
  <2>3. CASE published.project # active
    BY <1>1, <1>6, <2>1, <2>3 DEF StartFiles
  <2> QED
    BY <2>2, <2>3
<1> QED
  BY <1>4, <1>5, <1>6

\* What does not depend on the worker stays as it is while it works.
LEMMA SameCollection ==
    ASSUME UNCHANGED <<disk, loadFolders, active>>
    PROVE  \A f : /\ Loaded(f)' <=> Loaded(f)
                  /\ Included(f)' <=> Included(f)
                  /\ Fresh(f)' = Fresh(f)
<1>1. \A f : Loaded(f)' <=> Loaded(f)
  BY DEF Loaded, ActivePaths
<1>2. \A f : Included(f)' <=> Included(f)
  BY DEF Included
<1> QED
  BY <1>1, <1>2, SameDiskSaysSame

\* A rebuild has everything of the collection before it.
LEMMA RebuildReads ==
    ASSUME StartRebuild(active), UNCHANGED active, NEW f, Included(f)
    PROVE  worker'.pc = "rebuild" /\ WorkerIndexes(f)' /\ WorkerForgets(f)'
<1> DEFINE locations == IncludedLocations(Locations, active)
<1>1. worker' = [pc |-> "rebuild", gen |-> generation, project |-> active, jobs |-> {},
                 locations |-> locations, files |-> <<>>, index |-> EmptyIndex]
  BY DEF StartRebuild, IdleWorker
<1>2. f[1] \in {l.id : l \in Range(locations)}
  BY DEF Included
<1> HIDE DEF locations
<1>3. worker'.pc = "rebuild" /\ worker'.locations = locations
  BY <1>1
<1> QED
  BY <1>2, <1>3 DEF WorkerIndexes, WorkerForgets, Visited

\* Of a file that comes up in no deletion of the batch a change in it is applied, if
\* there is one; of a file that comes up the records go, for a change too if the
\* file is not to be indexed.
LEMMA BatchRight ==
    ASSUME EventShapes, worker.pc = "idle", NEW batch \in Seq(Jobs),
           ProcessBatch(Coalesce(batch, generation)),
           UNCHANGED <<disk, loadFolders, active, generation, published>>, NEW f
    PROVE  /\ NoRemoval(Live(batch), f) /\ ChangeIn(Live(batch), f) =>
                 StartRebuild(active) \/ (worker'.pc = "files" /\ ChangeIn(worker'.jobs, f))
           /\ /\ Included(f) /\ NoRemoval(Live(batch), f)
              /\ ChangeIn(Live(batch), f) \/ RecordsOf(published.index, f) = Fresh(f)
              => WorkerIndexes(f)'
           /\ /\ Included(f)
              /\ \/ \E job \in Live(batch) : Concerns(job, f)
                 \/ RecordsOf(published.index, f) = Nothing
              => WorkerForgets(f)'
<1>1. \/ StartRebuild(active)
      \/ /\ worker' = worker
         /\ \A job \in Live(batch) : \A g : ~Concerns(job, g)
      \/ /\ worker'.pc = "files" /\ worker'.index = published.index
         /\ worker'.jobs \subseteq Live(batch) /\ worker'.jobs \in SUBSET FileJobs
         /\ \A job \in Live(batch) : \A g : Concerns(job, g) => TellsOne(worker'.jobs, g)
  BY BatchStarts
<1>2. Fresh(f)' = Fresh(f)
  BY SameCollection
<1>3. ASSUME NEW job PROVE ChangeOf(job, f) => Concerns(job, f)
  BY DEF ChangeOf, Concerns
<1>4. CASE StartRebuild(active)
  <2>1. Included(f) => WorkerIndexes(f)' /\ WorkerForgets(f)'
    BY <1>4, RebuildReads
  <2> QED
    BY <1>4, <2>1
<1>5. CASE worker' = worker /\ \A job \in Live(batch) : \A g : ~Concerns(job, g)
  <2>1. ~ChangeIn(Live(batch), f)
    BY <1>3, <1>5 DEF ChangeIn
  <2>2. worker'.pc = "idle" /\ published'.index = published.index
    BY <1>5
  <2> QED
    BY <1>2, <1>5, <2>1, <2>2 DEF WorkerIndexes, WorkerForgets
<1>6. CASE /\ worker'.pc = "files" /\ worker'.index = published.index
           /\ worker'.jobs \subseteq Live(batch) /\ worker'.jobs \in SUBSET FileJobs
           /\ \A job \in Live(batch) : \A g : Concerns(job, g) => TellsOne(worker'.jobs, g)
  <2>1. ASSUME NoRemoval(Live(batch), f), ChangeIn(Live(batch), f)
        PROVE  ChangeIn(worker'.jobs, f)
    <3>1. TellsOne(worker'.jobs, f)
      BY <1>3, <1>6, <2>1 DEF ChangeIn
    <3>2. PICK job \in worker'.jobs : Concerns(job, f)
      BY <3>1 DEF TellsOne
    <3>3. ~RemovalOf(job, f) /\ job.kind \in {"FileChanged", "FileDeleted", "FolderDeleted"}
      BY <1>6, <2>1 DEF NoRemoval, FileJobs
    <3>4. ChangeOf(job, f)
      BY <3>2, <3>3 DEF ChangeOf, RemovalOf, Concerns
    <3> QED
      BY <3>4 DEF ChangeIn
  <2>2. NoRemoval(Live(batch), f) => NoRemoval(worker'.jobs, f)
    BY <1>6 DEF NoRemoval
  <2>3. RecordsOf(worker'.index, f) = RecordsOf(published.index, f)
    BY <1>6
  <2>5. /\ /\ Included(f) /\ NoRemoval(Live(batch), f)
           /\ ChangeIn(Live(batch), f) \/ RecordsOf(published.index, f) = Fresh(f)
           => WorkerIndexes(f)'
    BY <1>2, <1>6, <2>1, <2>2, <2>3 DEF WorkerIndexes
  <2>6. /\ Included(f)
        /\ \/ \E job \in Live(batch) : Concerns(job, f)
           \/ RecordsOf(published.index, f) = Nothing
        => WorkerForgets(f)'
    BY <1>6, <2>3 DEF WorkerForgets
  <2> QED
    BY <1>6, <2>1, <2>5, <2>6
<1> QED
  BY <1>1, <1>4, <1>5, <1>6

-----------------------------------------------------------------------------
(* Steps of the environment, and what is on disk *)

LEMMA NoRemovalUnion ==
    \A xs, ys, f : NoRemoval(xs \cup ys, f) <=> NoRemoval(xs, f) /\ NoRemoval(ys, f)
  BY DEF NoRemoval

\* A step of the environment tells of what it changes, or a change of the
\* LoadFolders.xml does, or the files are lost.
LEMMA DiskStep ==
    ASSUME DiskInv, UNCHANGED <<active, generation, worker, published, pending>>,
           NEW events \in Seq(Events), watcherQueue' = watcherQueue \o events,
           Range(jobQueue) \subseteq Range(jobQueue'), lost \subseteq lost',
           \A f \in Files \ lost' :
              /\ f[1] = Locations[1].id => Event("Deleted", f[1], LoadFoldersXml) \notin Range(events)
              /\ Loaded(f)' =>
                    /\ RemovalQueued(f)' => RemovalQueued(f)
                    /\ \/ LastTold(events, f)
                       \/ /\ NoRemoval(Range(events), f)
                          /\ \/ Loaded(f) /\ disk'[f] = disk[f]
                             \/ /\ ~RemovalAwaited(f) /\ f[1] = Locations[1].id
                                /\ ChangeIn(Range(events), LoadFoldersFile)
              /\ ~Loaded(f)' =>
                    \/ Tells(events, f) \/ ~Loaded(f)
                    \/ f[1] = Locations[1].id /\ ChangeIn(Range(events), LoadFoldersFile)
    PROVE  FoldersHeard' /\ FilesRight'
<1>1. EventShapes /\ FoldersHeard /\ FilesRight /\ watcherQueue \in Seq(Events)
  BY DEF DiskInv, TextInv, EventShapes
<1>2. Range(watcherQueue') = Range(watcherQueue) \cup Range(events)
  BY <1>1, ConcatRange
<1>3. Range(watcherQueue') \cup Range(pending') = (Range(watcherQueue) \cup Range(pending)) \cup Range(events)
  BY <1>2
<1>4. FoldersHeard'
  BY <1>1, <1>3 DEF FoldersHeard
<1>5. /\ RebuildQueued => RebuildQueued'
      /\ FoldersChanged \/ ChangeIn(Range(events), LoadFoldersFile) => FoldersChanged'
  BY <1>3 DEF RebuildQueued, FoldersChanged, ChangeIn
<1>6. \A f : /\ Owed(f) \/ Tells(events, f) => Owed(f)'
             /\ Included(f)' <=> Included(f)
             /\ Visited(f)' <=> Visited(f)
  BY <1>2 DEF Owed, Tells, Included, Visited
<1>7. ASSUME NEW f \in Files \ lost', Loaded(f)'
      PROVE  ToBeIndexed(f)'
  <2>1. RemovalQueued(f)' => RemovalQueued(f)
    BY <1>7
  <2>2. CASE LastTold(events, f)
    <3>1. LastTold(watcherQueue', f)
      BY <1>1, <2>2, LastToldConcat
    <3> QED
      BY <3>1 DEF ToBeIndexed
  <2>3. CASE NoRemoval(Range(events), f) /\ Loaded(f) /\ disk'[f] = disk[f]
    <3>1. ToBeIndexed(f)
      BY <1>1, <2>3 DEF FilesRight, FileRight
    <3>2. CASE LastTold(watcherQueue, f)
      <4>1. LastTold(watcherQueue', f)
        BY <1>1, <2>3, <3>2, LastToldConcat
      <4> QED
        BY <4>1 DEF ToBeIndexed
    <3>3. CASE ~LastTold(watcherQueue, f)
      <4>1. NoRemoval(Range(watcherQueue'), f) /\ NoRemoval(Range(pending'), f)
        BY <1>2, <2>3, <3>1, <3>3, NoRemovalUnion DEF ToBeIndexed
      <4>2. ContentOf(f)' = ContentOf(f)
        BY <2>3 DEF ContentOf
      <4>3. Fresh(f)' = Fresh(f)
        BY <4>2 DEF Fresh
      <4>4. WorkerIndexes(f) => WorkerIndexes(f)'
        BY <1>6, <4>3 DEF WorkerIndexes
      <4>5. FoldersOwed(f) => FoldersOwed(f)'
        BY <1>5 DEF FoldersOwed
      <4>6. \/ ChangeIn(Range(pending), f) \/ RebuildQueued
            \/ ~RemovalQueued(f) /\ (Included(f) => FoldersOwed(f) \/ WorkerIndexes(f))
        BY <3>1, <3>3 DEF ToBeIndexed
      <4>7. ChangeIn(Range(pending), f) => ChangeIn(Range(pending'), f)
        OBVIOUS
      <4> QED
        BY <1>5, <1>6, <2>1, <4>1, <4>4, <4>5, <4>6, <4>7 DEF ToBeIndexed
    <3> QED
      BY <3>2, <3>3
  <2>4. CASE /\ NoRemoval(Range(events), f) /\ ~RemovalAwaited(f) /\ f[1] = Locations[1].id
             /\ ChangeIn(Range(events), LoadFoldersFile)
    <3>1. NoRemoval(Range(watcherQueue), f) /\ NoRemoval(Range(pending), f) /\ ~RemovalQueued(f)
      BY <2>4 DEF RemovalAwaited, NoRemoval
    <3>2. NoRemoval(Range(watcherQueue'), f) /\ NoRemoval(Range(pending'), f)
      BY <1>2, <2>4, <3>1, NoRemovalUnion
    <3>3. FoldersOwed(f)'
      BY <1>5, <2>4 DEF FoldersOwed
    <3> QED
      BY <2>1, <3>1, <3>2, <3>3 DEF ToBeIndexed
  <2> QED
    BY <1>7, <2>2, <2>3, <2>4
<1>8. ASSUME NEW f \in Files \ lost', ~Loaded(f)'
      PROVE  ToBeForgotten(f)'
  <2>1. CASE Tells(events, f)
    BY <1>6, <2>1 DEF ToBeForgotten
  <2>2. CASE f[1] = Locations[1].id /\ ChangeIn(Range(events), LoadFoldersFile)
    BY <1>5, <2>2 DEF ToBeForgotten, FoldersOwed
  <2>3. CASE ~Loaded(f)
    <3>1. ToBeForgotten(f)
      BY <1>1, <2>3 DEF FilesRight, FileRight
    <3>2. FoldersOwed(f) => FoldersOwed(f)'
      BY <1>5 DEF FoldersOwed
    <3>3. WorkerForgets(f) => WorkerForgets(f)'
      BY DEF WorkerForgets
    <3> QED
      BY <1>6, <3>1, <3>2, <3>3 DEF ToBeForgotten
  <2> QED
    BY <1>8, <2>1, <2>2, <2>3
<1>9. FilesRight'
  BY <1>7, <1>8 DEF FilesRight, FileRight
<1> QED
  BY <1>4, <1>9

\* A file that is neither told of nor lost is loaded after the step if it was before.
LEMMA NotUnannounced ==
    ASSUME NEW told, NEW f \in Files, f \notin told,
           f \notin Unannounced(disk', loadFolders', told)
    PROVE  Loaded(f)' <=> Loaded(f)
<1>1. Loaded(f) <=> f \in ActiveFiles(disk, loadFolders)
  BY DEF Loaded, ActivePaths, ActiveFiles
<1>2. Loaded(f)' <=> f \in ActiveFiles(disk', loadFolders')
  BY DEF Loaded, ActivePaths, ActiveFiles, ActivePathsWith, TreeOf
<1> QED
  BY <1>1, <1>2 DEF Unannounced

\* A file that is gone is not loaded.
LEMMA GoneNotLoaded ==
    ASSUME NEW f \in Files, disk'[f] = Gone
    PROVE  ~Loaded(f)'
<1>1. ASSUME NEW files, NEW blocks, files[f] = Gone
      PROVE  f[2] \notin ActivePathsWith(files, blocks, f[1])
  <2> DEFINE tree == TreeOf(files, blocks, f[1])
  <2>1. tree.files = {g[2] : g \in {h \in Files : h[1] = f[1] /\ files[h] # Gone}}
    BY DEF TreeOf
  <2>2. tree.files \subseteq Seq(PathNames)
    BY <2>1, FileShape
  <2>3. f[2] \notin tree.files
    BY <1>1, <2>1, FilesDiffer
  <2> HIDE DEF tree
  <2> QED
    BY <2>2, <2>3, ScanFinds DEF ActivePathsWith, tree
<1>2. f[2] \notin ActivePathsWith(disk', loadFolders', f[1])
  BY <1>1
<1>3. Loaded(f)' <=> f[2] \in ActivePathsWith(disk', loadFolders', f[1])
  BY DEF Loaded, ActivePaths, ActivePathsWith, TreeOf
<1> QED
  BY <1>2, <1>3

\* A change or a deletion of one file.
LEMMA OneFileRight ==
    ASSUME DiskInv, NEW f \in Files, NEW c \in Contents \cup {Gone},
           NEW kind \in {"Changed", "Deleted"}, c = Gone => kind = "Deleted",
           c # Gone => kind = "Changed",
           disk' = [disk EXCEPT ![f] = c], Send(<<Event(kind, f[1], f[2])>>),
           UNCHANGED <<loadFolders, active, generation, worker, published, pending>>,
           lost' = lost \cup Unannounced(disk', loadFolders, {f}),
           \/ jobQueue' = jobQueue
           \/ /\ jobQueue' = Append(jobQueue, Job(IF kind = "Changed" THEN "FileChanged" ELSE "FileDeleted",
                                                  f[1], f[2], generation))
    PROVE  FoldersHeard' /\ FilesRight'
<1> DEFINE e == Event(kind, f[1], f[2])
           events == <<e>>
           job == Job(IF kind = "Changed" THEN "FileChanged" ELSE "FileDeleted", f[1], f[2], generation)
<1>1. EventShapes /\ generation \in Nat /\ disk \in [Files -> Contents \cup {Gone}]
  BY DEF DiskInv, TextInv, EventShapes, DiskTyped
<1>2. f = <<f[1], f[2]>> /\ f[2] # LoadFoldersXml
  BY FileShape, EventsAssumption
<1>3. e \in Events
  BY EventTyped
<1>4. e.kind = kind /\ <<e.loc, e.path>> = f /\ e.path = f[2]
  BY <1>2 DEF Event
<1>5. events \in Seq(Events) /\ Range(events) = {e}
  BY <1>3 DEF Range
<1>6. watcherQueue' = watcherQueue \o events
  BY DEF Send
<1>7. kind = "Changed" => LastTold(events, f)
  <2>1. DOMAIN events = {1} /\ events[1] = e
    OBVIOUS
  <2> QED
    BY <1>4, <2>1 DEF LastTold, ChangeOf
<1>8. job \in Jobs
  BY <1>1, EventTyped DEF Jobs
<1>9. /\ job.kind = IF kind = "Changed" THEN "FileChanged" ELSE "FileDeleted"
      /\ <<job.loc, job.path>> = f
  BY <1>2 DEF Job
<1>w. jobQueue' = jobQueue \/ jobQueue' = Append(jobQueue, job)
  OBVIOUS
<1> HIDE DEF e, events, job
<1>10. Range(jobQueue) \subseteq Range(jobQueue') /\ Range(jobQueue') \subseteq Range(jobQueue) \cup {job}
  BY <1>1, <1>8, <1>w, OneMoreJob
<1>11. \A g : g # f => ~RemovalOf(e, g) /\ ~RemovalOf(job, g)
  BY <1>4, <1>9 DEF RemovalOf
<1>12. kind = "Changed" => ~RemovalOf(e, f) /\ ~RemovalOf(job, f)
  BY <1>4, <1>9 DEF RemovalOf
<1>13. ASSUME NEW g \in Files, g # f \/ kind = "Changed" PROVE RemovalQueued(g)' => RemovalQueued(g)
  BY <1>10, <1>11, <1>12, <1>13 DEF RemovalQueued
<1>14. kind = "Deleted" => ~Loaded(f)'
  <2> SUFFICES ASSUME kind = "Deleted" PROVE ~Loaded(f)'
    OBVIOUS
  <2>1. disk'[f] = Gone
    BY <1>1
  <2> QED
    BY <2>1, GoneNotLoaded
<1>15. Tells(events, f)
  BY <1>4, <1>5 DEF Tells, Concerns
<1>16. ASSUME NEW g \in Files \ lost'
       PROVE  /\ g[1] = Locations[1].id => Event("Deleted", g[1], LoadFoldersXml) \notin Range(events)
              /\ Loaded(g)' =>
                    /\ RemovalQueued(g)' => RemovalQueued(g)
                    /\ \/ LastTold(events, g)
                       \/ /\ NoRemoval(Range(events), g)
                          /\ \/ Loaded(g) /\ disk'[g] = disk[g]
                             \/ /\ ~RemovalAwaited(g) /\ g[1] = Locations[1].id
                                /\ ChangeIn(Range(events), LoadFoldersFile)
              /\ ~Loaded(g)' =>
                    \/ Tells(events, g) \/ ~Loaded(g)
                    \/ g[1] = Locations[1].id /\ ChangeIn(Range(events), LoadFoldersFile)
  <2>1. Event("Deleted", g[1], LoadFoldersXml) \notin Range(events)
    <3>1. Event("Deleted", g[1], LoadFoldersXml).path = LoadFoldersXml
      BY DEF Event
    <3> QED
      BY <1>2, <1>4, <1>5, <3>1
  <2>2. CASE g = f
    BY <1>7, <1>13, <1>14, <1>15, <2>1, <2>2
  <2>3. CASE g # f
    <3>1. Loaded(g)' <=> Loaded(g)
      <4>1. g \notin Unannounced(disk', loadFolders', {f})
        OBVIOUS
      <4> QED
        BY <2>3, <4>1, NotUnannounced
    <3>2. NoRemoval(Range(events), g)
      BY <1>5, <1>11, <2>3 DEF NoRemoval
    <3>3. disk'[g] = disk[g]
      BY <1>1, <2>3
    <3> QED
      BY <1>13, <2>1, <2>3, <3>1, <3>2, <3>3
  <2> QED
    BY <2>2, <2>3
<1> QED
  BY <1>5, <1>6, <1>10, <1>16, DiskStep

LEMMA FileStepsRight ==
    ASSUME DiskInv, NEW f \in Files,
           \/ \E c \in Contents : Write(f, c) \/ Save(f, c)
           \/ Delete(f) \/ DeleteFile(f)
    PROVE  FoldersHeard' /\ FilesRight'
<1>1. ASSUME NEW c \in Contents PROVE c # Gone /\ c \in Contents \cup {Gone}
  BY EventsAssumption
<1>2. ASSUME NEW c \in Contents, Write(f, c) PROVE FoldersHeard' /\ FilesRight'
  BY <1>1, <1>2, OneFileRight DEF Write
<1>3. ASSUME NEW c \in Contents, Save(f, c) PROVE FoldersHeard' /\ FilesRight'
  BY <1>1, <1>3, OneFileRight DEF Save
<1>4. CASE Delete(f)
  BY <1>4, OneFileRight DEF Delete
<1>5. CASE DeleteFile(f)
  BY <1>5, OneFileRight DEF DeleteFile
<1> QED
  BY <1>2, <1>3, <1>4, <1>5

\* The files below a folder are those a deletion of the folder takes away.
LEMMA FolderFiles ==
    ASSUME NEW d \in Folders, NEW f \in Files, NEW x, x.loc = Locations[1].id, x.path = d,
           x.kind = "FolderDeleted"
    PROVE  RemovalOf(x, f) <=> f \in FilesIn(d)
<1>1. IsPrefix(d, f[2]) <=> Under(d, f[2])
  BY EventsAssumption DEF Under, IsStrictPrefix
<1> QED
  BY <1>1 DEF RemovalOf, FilesIn

\* Files of a folder go, with events or without one for those that come.
LEMMA FolderStepRight ==
    ASSUME DiskInv, NEW d \in Folders, NEW told, told \subseteq FilesIn(d),
           UNCHANGED <<loadFolders, active, generation, worker, published, pending>>,
           NEW events \in Seq(Events), watcherQueue' = watcherQueue \o events,
           lost' = lost \cup Unannounced(disk', loadFolders, told),
           \A f \in Files : f \notin FilesIn(d) => disk'[f] = disk[f],
           \A f \in told : disk'[f] = Gone /\ Tells(events, f),
           \A f \in FilesIn(d) \ told : disk[f] = Gone,
           \A e \in Range(events) : e # Event("Deleted", Locations[1].id, LoadFoldersXml),
           \A e \in Range(events), f \in Files : RemovalOf(e, f) => f \in told,
           Range(jobQueue) \subseteq Range(jobQueue'),
           \A f \in Files : RemovalQueued(f)' => RemovalQueued(f) \/ f \in told
    PROVE  FoldersHeard' /\ FilesRight'
<1>1. EventShapes /\ DiskTyped
  BY DEF DiskInv, TextInv, EventShapes
<1>2. ASSUME NEW f \in Files \ lost'
      PROVE  /\ f[1] = Locations[1].id => Event("Deleted", f[1], LoadFoldersXml) \notin Range(events)
             /\ Loaded(f)' =>
                   /\ RemovalQueued(f)' => RemovalQueued(f)
                   /\ \/ LastTold(events, f)
                      \/ /\ NoRemoval(Range(events), f)
                         /\ \/ Loaded(f) /\ disk'[f] = disk[f]
                            \/ /\ ~RemovalAwaited(f) /\ f[1] = Locations[1].id
                               /\ ChangeIn(Range(events), LoadFoldersFile)
             /\ ~Loaded(f)' =>
                   \/ Tells(events, f) \/ ~Loaded(f)
                   \/ f[1] = Locations[1].id /\ ChangeIn(Range(events), LoadFoldersFile)
  <2>1. f[1] = Locations[1].id => Event("Deleted", f[1], LoadFoldersXml) \notin Range(events)
    OBVIOUS
  <2>2. CASE f \in told
    <3>1. ~Loaded(f)'
      BY <2>2, GoneNotLoaded
    <3> QED
      BY <2>1, <2>2, <3>1
  <2>3. CASE f \notin told
    <3>1. Loaded(f)' <=> Loaded(f)
      <4>1. f \notin Unannounced(disk', loadFolders', told)
        OBVIOUS
      <4> QED
        BY <2>3, <4>1, NotUnannounced
    <3>2. Loaded(f) => disk'[f] = disk[f]
      BY <1>1, <2>3, LoadedOnDisk
    <3>3. NoRemoval(Range(events), f) /\ (RemovalQueued(f)' => RemovalQueued(f))
      BY <2>3 DEF NoRemoval
    <3> QED
      BY <2>1, <3>1, <3>2, <3>3
  <2> QED
    BY <2>2, <2>3
<1>3. lost \subseteq lost'
  OBVIOUS
<1> QED
  BY <1>2, <1>3, DiskStep

LEMMA MoveFolderOutRight ==
    ASSUME DiskInv, NEW d \in Folders, MoveFolderOut(d) PROVE FoldersHeard' /\ FilesRight'
<1> DEFINE e == Event("FolderDeleted", Locations[1].id, d)
           events == <<e>>
<1>1. e \in Events /\ \A f \in FilesIn(d) : Concerns(e, f)
  BY FolderEvent
<1>2. e.kind = "FolderDeleted" /\ e.loc = Locations[1].id /\ e.path = d
  BY DEF Event
<1>3. watcherQueue' = watcherQueue \o events
  BY DEF MoveFolderOut, Send
<1> HIDE DEF e
<1>4. events \in Seq(Events) /\ Range(events) = {e}
  BY <1>1 DEF Range
<1> HIDE DEF events
<1>5. \A f \in FilesIn(d) : f \in Files /\ Tells(events, f)
  BY <1>1, <1>4 DEF Tells, FilesIn
<1>6. \A f \in Files : RemovalOf(e, f) => f \in FilesIn(d)
  BY <1>2, FolderFiles
<1>7. e # Event("Deleted", Locations[1].id, LoadFoldersXml)
  BY <1>2 DEF Event
<1>8. UNCHANGED <<loadFolders, active, generation, worker, published, pending, jobQueue>>
  BY DEF MoveFolderOut
<1>9. \A f \in Files : RemovalQueued(f)' => RemovalQueued(f)
  BY <1>8 DEF RemovalQueued
<1>10. \A f \in Files : disk'[f] = IF f \in FilesIn(d) THEN Gone ELSE disk[f]
  BY DEF MoveFolderOut
<1>11. lost' = lost \cup Unannounced(disk', loadFolders, FilesIn(d))
  BY DEF MoveFolderOut
<1> DEFINE told == FilesIn(d)
<1>12. told \subseteq FilesIn(d) /\ FilesIn(d) = told
  OBVIOUS
<1> HIDE DEF told
<1> QED
  BY <1>3, <1>4, <1>5, <1>6, <1>7, <1>8, <1>9, <1>10, <1>11, <1>12, FolderStepRight

LEMMA MoveFolderInRight ==
    ASSUME DiskInv, NEW d \in Folders, MoveFolderIn(d) PROVE FoldersHeard' /\ FilesRight'
<1> DEFINE events == <<>>
           told == {}
<1>1. events \in Seq(Events) /\ Range(events) = {} /\ watcherQueue \in Seq(Events)
  BY EmptyRange DEF DiskInv, TextInv, EventShapes
<1>2. watcherQueue' = watcherQueue \o events
  BY <1>1 DEF MoveFolderIn
<1>3. UNCHANGED <<loadFolders, active, generation, worker, published, pending, jobQueue>>
  BY DEF MoveFolderIn
<1>4. \A f \in Files : RemovalQueued(f)' => RemovalQueued(f)
  BY <1>3 DEF RemovalQueued
<1>5. \A f \in Files : f \notin FilesIn(d) => disk'[f] = disk[f]
  BY DEF MoveFolderIn
<1>6. \A f \in FilesIn(d) : disk[f] = Gone
  BY DEF MoveFolderIn
<1>7. told \subseteq FilesIn(d) /\ (\A f : f \notin told)
  OBVIOUS
<1>8. lost' = lost \cup Unannounced(disk', loadFolders, told)
  BY DEF MoveFolderIn
<1> HIDE DEF events, told
<1> QED
  BY <1>1, <1>2, <1>3, <1>4, <1>5, <1>6, <1>7, <1>8, FolderStepRight

LEMMA DeleteFolderRight ==
    ASSUME DiskInv, NEW d \in Folders, DeleteFolder(d) PROVE FoldersHeard' /\ FilesRight'
<1> DEFINE K == {f \in FilesIn(d) : disk[f] # Gone}
           gone == Retain(FileOrder, K)
           deleted == [i \in DOMAIN gone |-> Event("Deleted", gone[i][1], gone[i][2])]
           e == Event("FolderDeleted", Locations[1].id, d)
           events == Append(deleted, e)
           job == Job("FolderDeleted", Locations[1].id, d, generation)
           told == FilesIn(d)
<1>1. e \in Events /\ \A f \in FilesIn(d) : Concerns(e, f)
  BY FolderEvent
<1>2. watcherQueue' = watcherQueue \o events
  BY DEF DeleteFolder, Send
<1>3. FileOrder \in Seq(Files)
  BY EventsAssumption DEF Files, Range
<1>k. K \subseteq FilesIn(d)
  OBVIOUS
<1> HIDE DEF K
<1>4. gone \in Seq(Files) /\ Range(gone) \subseteq FilesIn(d)
  BY <1>3, <1>k, RetainRange
<1> HIDE DEF gone
<1>5. deleted \in Seq(Events)
  <2>1. \A i \in DOMAIN gone : Event("Deleted", gone[i][1], gone[i][2]) \in Events
    BY <1>4, EventTyped
  <2> QED
    BY <1>4, <2>1
<1>6. ASSUME NEW x \in Range(deleted)
      PROVE  \E f \in FilesIn(d) : x = Event("Deleted", f[1], f[2])
  <2>1. PICK i \in DOMAIN gone : x = Event("Deleted", gone[i][1], gone[i][2])
    BY <1>6 DEF Range
  <2>2. gone[i] \in Range(gone)
    BY DEF Range
  <2> QED
    BY <1>4, <2>1, <2>2
<1>7. ASSUME NEW x \in Range(deleted)
      PROVE  /\ \A g \in Files : RemovalOf(x, g) => g \in FilesIn(d)
             /\ x # Event("Deleted", Locations[1].id, LoadFoldersXml)
  <2>1. PICK f \in FilesIn(d) : x = Event("Deleted", f[1], f[2])
    BY <1>6
  <2>2. f \in Files
    BY DEF FilesIn
  <2>3. f = <<f[1], f[2]>> /\ f[2] # LoadFoldersXml
    BY <2>2, FileShape, EventsAssumption
  <2>4. x.kind = "Deleted" /\ <<x.loc, x.path>> = f /\ x.path = f[2]
    BY <2>1, <2>3 DEF Event
  <2> QED
    BY <2>3, <2>4 DEF RemovalOf, Event
<1>8. e.kind = "FolderDeleted" /\ e.loc = Locations[1].id /\ e.path = d
  BY DEF Event
<1>9. job.kind = "FolderDeleted" /\ job.loc = Locations[1].id /\ job.path = d
  BY DEF Job
<1> HIDE DEF deleted, e
<1>10. events \in Seq(Events) /\ Range(events) = Range(deleted) \cup {e}
  BY <1>1, <1>5, AppendRange
<1>11. \A x \in Range(events), f \in Files : RemovalOf(x, f) => f \in FilesIn(d)
  BY <1>7, <1>8, <1>10, FolderFiles
<1>12. e # Event("Deleted", Locations[1].id, LoadFoldersXml)
  BY <1>8 DEF Event
<1>13. \A x \in Range(events) : x # Event("Deleted", Locations[1].id, LoadFoldersXml)
  BY <1>7, <1>10, <1>12
<1>14. \A f \in FilesIn(d) : f \in Files /\ Tells(events, f)
  BY <1>1, <1>10 DEF Tells, FilesIn
<1>15. EventShapes /\ generation \in Nat
  BY DEF DiskInv, TextInv, EventShapes
<1>16. job \in Jobs
  BY <1>15, EventTyped DEF Jobs, LocalPaths
<1>17. jobQueue' = Append(jobQueue, job)
  BY DEF DeleteFolder
<1> HIDE DEF events, job
<1>18. Range(jobQueue') = Range(jobQueue) \cup {job}
  BY <1>15, <1>16, <1>17, OneMoreJob
<1>19. UNCHANGED <<loadFolders, active, generation, worker, published, pending>>
  BY DEF DeleteFolder
<1>20. \A f \in Files : RemovalQueued(f)' => RemovalQueued(f) \/ f \in FilesIn(d)
  BY <1>9, <1>18, <1>19, FolderFiles DEF RemovalQueued
<1>21. \A f \in Files : disk'[f] = IF f \in FilesIn(d) THEN Gone ELSE disk[f]
  BY DEF DeleteFolder
<1>22. lost' = lost \cup Unannounced(disk', loadFolders, told)
  BY DEF DeleteFolder
<1>23. told \subseteq FilesIn(d) /\ FilesIn(d) = told
  OBVIOUS
<1> HIDE DEF told
<1> QED
  BY <1>2, <1>10, <1>11, <1>13, <1>14, <1>18, <1>19, <1>20, <1>21, <1>22, <1>23, FolderStepRight

\* The LoadFolders.xml decides about the files of the project only.
LEMMA OtherLocationsSame ==
    ASSUME UNCHANGED disk, NEW f, f[1] # Locations[1].id
    PROVE  Loaded(f)' <=> Loaded(f)
<1>1. TreeOf(disk, loadFolders', f[1]) = TreeOf(disk, loadFolders, f[1])
  BY DEF TreeOf
<1>2. Loaded(f) <=> f[2] \in ScanIndexableDefXmlFiles(LocationById(f[1]).sourceType,
                               TreeOf(disk, loadFolders, f[1]), GameVersion)
  BY DEF Loaded, ActivePaths, ActivePathsWith
<1>3. Loaded(f)' <=> f[2] \in ScanIndexableDefXmlFiles(LocationById(f[1]).sourceType,
                                TreeOf(disk, loadFolders', f[1]), GameVersion)
  BY DEF Loaded, ActivePaths, ActivePathsWith, TreeOf
<1> QED
  BY <1>1, <1>2, <1>3

LEMMA WriteLoadFoldersRight ==
    ASSUME DiskInv, NEW blocks, WriteLoadFolders(blocks) PROVE FoldersHeard' /\ FilesRight'
<1> DEFINE e == Event("Changed", Locations[1].id, LoadFoldersXml)
           events == <<e>>
           none == {}
<1>1. e \in Events
  BY EventTyped DEF LocalPaths
<1>2. e.kind = "Changed" /\ <<e.loc, e.path>> = LoadFoldersFile
  BY DEF Event, LoadFoldersFile
<1>3. watcherQueue' = watcherQueue \o events
  BY DEF WriteLoadFolders, Send
<1>4. \A g : e # Event("Deleted", g[1], LoadFoldersXml)
  BY DEF Event
<1> HIDE DEF e
<1>5. events \in Seq(Events) /\ Range(events) = {e}
  BY <1>1 DEF Range
<1> HIDE DEF events
<1>6. \A f : NoRemoval(Range(events), f)
  BY <1>2, <1>5 DEF NoRemoval, RemovalOf
<1>7. ChangeIn(Range(events), LoadFoldersFile)
  BY <1>2, <1>5 DEF ChangeIn, ChangeOf
<1>8. UNCHANGED <<disk, active, generation, worker, published, pending, jobQueue>>
  BY DEF WriteLoadFolders
<1>9. \A f : RemovalQueued(f)' => RemovalQueued(f)
  BY <1>8 DEF RemovalQueued
<1>10. lost' = lost \cup {f \in Unannounced(disk', loadFolders', none) : RemovalAwaited(f)}
  BY <1>8 DEF WriteLoadFolders
<1>11. \A f : f \notin none
  OBVIOUS
<1> HIDE DEF none
<1>12. ASSUME NEW f \in Files \ lost', ~(Loaded(f)' <=> Loaded(f))
       PROVE  f[1] = Locations[1].id /\ ~RemovalAwaited(f)
  <2>1. f \in Unannounced(disk', loadFolders', none)
    BY <1>11, <1>12, NotUnannounced
  <2>2. ~RemovalAwaited(f)
    BY <1>10, <2>1
  <2>3. f[1] = Locations[1].id
    BY <1>8, <1>12, OtherLocationsSame
  <2> QED
    BY <2>2, <2>3
<1>13. ASSUME NEW f \in Files \ lost'
       PROVE  /\ f[1] = Locations[1].id => Event("Deleted", f[1], LoadFoldersXml) \notin Range(events)
              /\ Loaded(f)' =>
                    /\ RemovalQueued(f)' => RemovalQueued(f)
                    /\ \/ LastTold(events, f)
                       \/ /\ NoRemoval(Range(events), f)
                          /\ \/ Loaded(f) /\ disk'[f] = disk[f]
                             \/ /\ ~RemovalAwaited(f) /\ f[1] = Locations[1].id
                                /\ ChangeIn(Range(events), LoadFoldersFile)
              /\ ~Loaded(f)' =>
                    \/ Tells(events, f) \/ ~Loaded(f)
                    \/ f[1] = Locations[1].id /\ ChangeIn(Range(events), LoadFoldersFile)
  <2>1. f[1] = Locations[1].id => Event("Deleted", f[1], LoadFoldersXml) \notin Range(events)
    BY <1>4, <1>5
  <2>2. CASE Loaded(f)' <=> Loaded(f)
    BY <1>6, <1>8, <1>9, <2>1, <2>2
  <2>3. CASE ~(Loaded(f)' <=> Loaded(f))
    BY <1>6, <1>7, <1>9, <1>12, <2>1, <2>3
  <2> QED
    BY <2>2, <2>3
<1>14. lost \subseteq lost' /\ Range(jobQueue) \subseteq Range(jobQueue')
  BY <1>8, <1>10
<1> QED
  BY <1>3, <1>5, <1>8, <1>13, <1>14, DiskStep

LEMMA RemoveLoadFoldersRight ==
    ASSUME DiskInv, RemoveLoadFolders PROVE FoldersHeard' /\ FilesRight'
<1> DEFINE e == Event("Deleted", Locations[1].id, LoadFoldersXml)
           events == <<e>>
<1>1. e \in Events
  BY EventTyped DEF LocalPaths
<1>2. e.kind = "Deleted" /\ e.path = LoadFoldersXml
  BY DEF Event
<1>3. watcherQueue' = watcherQueue \o events
  BY DEF RemoveLoadFolders, Send
<1> HIDE DEF e
<1>4. events \in Seq(Events) /\ Range(events) = {e}
  BY <1>1 DEF Range
<1> HIDE DEF events
<1>5. UNCHANGED <<disk, active, generation, worker, published, pending, jobQueue>>
  BY DEF RemoveLoadFolders
<1>6. \A f : RemovalQueued(f)' => RemovalQueued(f)
  BY <1>5 DEF RemovalQueued
<1>7. ASSUME NEW f \in Files PROVE NoRemoval(Range(events), f)
  <2>1. f[2] # LoadFoldersXml /\ f = <<f[1], f[2]>>
    BY FileShape, EventsAssumption
  <2>2. <<e.loc, e.path>> # f
    BY <1>2, <2>1
  <2> QED
    BY <1>2, <1>4, <2>2 DEF NoRemoval, RemovalOf
<1>8. \A f \in Files \ lost' : f[1] # Locations[1].id
  BY DEF RemoveLoadFolders
<1>9. \A f \in Files \ lost' : Loaded(f)' <=> Loaded(f)
  BY <1>5, <1>8, OtherLocationsSame
<1>10. lost \subseteq lost' /\ Range(jobQueue) \subseteq Range(jobQueue')
  BY <1>5 DEF RemoveLoadFolders
<1> QED
  BY <1>3, <1>4, <1>5, <1>6, <1>7, <1>8, <1>9, <1>10, DiskStep

LEMMA SetActiveProjectRight ==
    ASSUME DiskInv, NEW p \in Projects, SetActiveProject(p) PROVE FoldersHeard' /\ FilesRight'
<1> DEFINE job == RebuildJob(generation + 1)
<1>1. EventShapes /\ generation \in Nat /\ FoldersHeard /\ FilesRight
  BY DEF DiskInv, TextInv, EventShapes
<1>2. job \in Jobs /\ job.gen = generation + 1 /\ job.kind = "FullRebuild"
  BY <1>1, EventTyped DEF RebuildJob, Job
<1>3. generation' = generation + 1 /\ jobQueue' = Append(jobQueue, job)
  BY DEF SetActiveProject
<1> HIDE DEF job
<1>4. job \in Range(jobQueue')
  BY <1>1, <1>2, <1>3, OneMoreJob DEF EventShapes
<1>5. UNCHANGED <<disk, loadFolders, watcherQueue, pending, lost>>
  BY DEF SetActiveProject
<1>6. RebuildQueued' /\ \A f : Owed(f)'
  BY <1>2, <1>3, <1>4 DEF RebuildQueued, Owed, Concerns
<1>7. \A f : Loaded(f)' <=> Loaded(f)
  BY <1>5 DEF Loaded, ActivePaths
<1>8. \A f : ToBeIndexed(f) => ToBeIndexed(f)'
  BY <1>5, <1>6 DEF ToBeIndexed
<1>9. \A f : ToBeForgotten(f)'
  BY <1>6 DEF ToBeForgotten
<1>10. FilesRight'
  BY <1>1, <1>5, <1>7, <1>8, <1>9 DEF FilesRight, FileRight
<1>11. FoldersHeard'
  BY <1>1, <1>5 DEF FoldersHeard
<1> QED
  BY <1>10, <1>11

-----------------------------------------------------------------------------
(* Steps of the worker, and what is on disk *)

\* A deletion of the LoadFolders.xml that would swallow its changes.
FoldersUnheard(f) ==
    /\ f[1] = Locations[1].id
    /\ Event("Deleted", f[1], LoadFoldersXml) \in Range(watcherQueue) \cup Range(pending)

\* A rebuild that starts gets a file right of which no deletion is awaited.
LEMMA RebuildRight ==
    ASSUME StartRebuild(active), UNCHANGED active, NEW f \in Files, ~RemovalAwaited(f)'
    PROVE  FileRight(f)' /\ ~FoldersUnheard(f)'
<1>1. /\ NoRemoval(Range(watcherQueue'), f) /\ NoRemoval(Range(pending'), f) /\ ~RemovalQueued(f)'
      /\ ~FoldersUnheard(f)'
  BY DEF RemovalAwaited, NoRemoval, FoldersUnheard
<1>2. Included(f)' => WorkerIndexes(f)' /\ WorkerForgets(f)'
  <2>1. Included(f)' <=> Included(f)
    BY DEF Included
  <2> QED
    BY <2>1, RebuildReads
<1>3. ToBeIndexed(f)' /\ ToBeForgotten(f)'
  BY <1>1, <1>2 DEF ToBeIndexed, ToBeForgotten
<1> QED
  BY <1>1, <1>3 DEF FileRight

\* It is enough to look at the files that were right and are not lost now.
LEMMA LosingStep ==
    ASSUME NEW files, Lose(files), UNCHANGED active,
           worker'.pc = "rebuild" /\ worker.pc # "rebuild" => StartRebuild(active),
           \A f \in Files \ (lost \cup files) : FileRight(f)' /\ ~FoldersUnheard(f)'
    PROVE  FoldersHeard' /\ FilesRight'
<1>1. ASSUME NEW f \in Files \ lost'
      PROVE  FileRight(f)' /\ ~FoldersUnheard(f)'
  <2>1. \/ f \in Files \ (lost \cup files)
        \/ worker'.pc = "rebuild" /\ worker.pc # "rebuild" /\ ~RemovalAwaited(f)'
    BY <1>1 DEF Lose
  <2> QED
    BY <2>1, RebuildRight
<1> QED
  BY <1>1 DEF FoldersHeard, FilesRight, FoldersUnheard

LEMMA HeardNow ==
    ASSUME FoldersHeard, NEW f \in Files \ lost
    PROVE  ~FoldersUnheard(f)
  BY DEF FoldersHeard, FoldersUnheard

\* A step of the worker that takes nothing from the queues.
LEMMA WorkStep ==
    ASSUME UNCHANGED <<disk, loadFolders, active, generation, watcherQueue, jobQueue, pending>>,
           NEW f, FileRight(f), ~FoldersUnheard(f),
           \/ RebuildQueued
           \/ /\ Loaded(f) /\ Included(f) /\ (FoldersOwed(f) \/ WorkerIndexes(f))
                 => FoldersOwed(f)' \/ WorkerIndexes(f)'
              /\ ~Loaded(f) /\ Included(f) /\ (FoldersOwed(f) \/ WorkerForgets(f))
                 => FoldersOwed(f)' \/ WorkerForgets(f)'
    PROVE  FileRight(f)' /\ ~FoldersUnheard(f)'
<1>1. /\ Loaded(f)' <=> Loaded(f)
      /\ Included(f)' <=> Included(f)
  BY SameCollection
<1>2. /\ RebuildQueued' <=> RebuildQueued
      /\ Owed(f)' <=> Owed(f)
      /\ RemovalQueued(f)' <=> RemovalQueued(f)
  BY DEF RebuildQueued, Owed, RemovalQueued
<1>3. RebuildQueued => Owed(f)
  BY DEF RebuildQueued, Owed, Concerns
<1>4. ASSUME Loaded(f) PROVE ToBeIndexed(f)'
  <2>1. ToBeIndexed(f)
    BY <1>4 DEF FileRight
  <2> QED
    BY <1>1, <1>2, <1>4, <2>1 DEF ToBeIndexed
<1>5. ASSUME ~Loaded(f) PROVE ToBeForgotten(f)'
  <2>1. ToBeForgotten(f)
    BY <1>5 DEF FileRight
  <2> QED
    BY <1>1, <1>2, <1>3, <1>5, <2>1 DEF ToBeForgotten
<1>6. ~FoldersUnheard(f)'
  BY DEF FoldersUnheard
<1> QED
  BY <1>1, <1>4, <1>5, <1>6 DEF FileRight

\* A job about a file leaves what is on disk of a file to be indexed, unless the job
\* is a deletion, and nothing of another.
LEMMA AppliedRight ==
    ASSUME EventShapes, NEW index, IsIndex(index), NEW job \in FileJobs, NEW f \in Files,
           Concerns(job, f)
    PROVE  LET new == ApplyFileJob(index, job) IN
           /\ Loaded(f) /\ ~RemovalOf(job, f) => RecordsOf(new, f) = Fresh(f)
           /\ ~Loaded(f) => RecordsOf(new, f) = Nothing
<1> DEFINE new == ApplyFileJob(index, job)
<1>1. job.kind \in {"FileChanged", "FileDeleted", "FolderDeleted"}
  BY DEF FileJobs
<1>2. \A g \in Files : (job.loc = g[1] /\ job.path = g[2]) <=> <<job.loc, job.path>> = g
  BY FileShape
<1>3. CASE job.kind = "FolderDeleted"
  <2>1. new = RemoveFolderPrefix(index, job.loc, job.path)
    BY <1>3 DEF ApplyFileJob
  <2>2. \A g : Concerns(job, g) <=> g[1] = job.loc /\ IsPrefix(job.path, g[2])
    BY <1>3 DEF Concerns
  <2> HIDE DEF new
  <2>3. RecordsOf(new, f) = Nothing
    BY <2>1, <2>2, RemoveFolderRecords
  <2>4. RemovalOf(job, f)
    BY <1>3, <2>2 DEF RemovalOf
  <2> QED
    BY <2>3, <2>4 DEF new
<1>4. ASSUME job.kind # "FolderDeleted", new = RemoveFile(index, job.loc, job.path)
      PROVE  RecordsOf(new, f) = Nothing
  <2>1. \A g \in Files : Concerns(job, g) <=> g[1] = job.loc /\ g[2] = job.path
    BY <1>1, <1>2, <1>4 DEF Concerns
  <2> HIDE DEF new
  <2> QED
    BY <1>4, <2>1, RemoveFileRecords
<1>5. CASE job.kind = "FileDeleted"
  <2>1. new = RemoveFile(index, job.loc, job.path)
    BY <1>5 DEF ApplyFileJob
  <2>2. RemovalOf(job, f)
    BY <1>5 DEF RemovalOf, Concerns
  <2> HIDE DEF new
  <2> QED
    BY <1>4, <1>5, <2>1, <2>2 DEF new
<1>6. CASE job.kind = "FileChanged"
  <2>1. <<job.loc, job.path>> = f /\ job.loc = f[1] /\ job.path = f[2]
    BY <1>2, <1>6 DEF Concerns
  <2>2. CASE ~Loaded(f)
    <3>1. new = RemoveFile(index, job.loc, job.path)
      BY <1>6, <2>1, <2>2 DEF ApplyFileJob, Loaded
    <3> HIDE DEF new
    <3> QED
      BY <1>4, <1>6, <2>2, <3>1 DEF new
  <2>3. CASE Loaded(f)
    <3> DEFINE c == disk[f]
    <3>1. c \in Contents /\ ContentOf(f) = c
      BY <2>3, LoadedOnDisk DEF EventShapes
    <3>2. new = ApplyFileChange(index, LocationById(f[1]), f[2], c)
      BY <1>6, <2>1, <2>3 DEF ApplyFileJob, Loaded
    <3>3. Fresh(f) = [defs |-> AddedDefs(f, ContentOf(f)), errors |-> AddedErrors(f, ContentOf(f))]
      BY FreshIs
    <3> HIDE DEF new, c
    <3>4. RecordsOf(new, f) = [defs |-> AddedDefs(f, c), errors |-> AddedErrors(f, c)]
      BY <3>1, <3>2, ChangedRecords
    <3> QED
      BY <2>3, <3>1, <3>3, <3>4 DEF new
  <2> QED
    BY <2>2, <2>3
<1> QED
  BY <1>1, <1>3, <1>5, <1>6

LEMMA FilesApplyRight ==
    ASSUME DiskInv, NEW job \in worker.jobs, FilesApply(job)
    PROVE  FoldersHeard' /\ FilesRight'
<1> DEFINE none == {}
<1>1. /\ EventShapes /\ DiskTyped /\ WorkerTyped /\ Superseded /\ FoldersHeard /\ FilesRight
      /\ worker.pc = "files" /\ job \in FileJobs /\ worker.jobs \in SUBSET FileJobs
      /\ UNCHANGED <<disk, loadFolders, active, generation, watcherQueue, jobQueue, pending>>
      /\ Lose(none)
  BY DEF DiskInv, TextInv, EventShapes, FilesApply, fsVars, WorkerTyped
<1>n. \A f : f \notin none
  OBVIOUS
<1> HIDE DEF none
<1>2. ASSUME NEW f \in Files \ (lost \cup none)
      PROVE  FileRight(f) /\ ~FoldersUnheard(f)
  BY <1>1, HeardNow DEF FilesRight
<1>3. CASE generation # worker.gen
  <2>1. WorkerDone
    BY <1>3 DEF FilesApply
  <2>2. RebuildQueued
    BY <1>1, <1>3 DEF Superseded, RebuildQueued
  <2>3. worker'.pc # "rebuild"
    BY <2>1, IdleShape DEF WorkerDone
  <2>4. ASSUME NEW f \in Files \ (lost \cup none)
        PROVE  FileRight(f)' /\ ~FoldersUnheard(f)'
    BY <1>1, <1>2, <2>2, WorkStep
  <2> QED
    BY <1>1, <2>3, <2>4, LosingStep
<1>4. CASE generation = worker.gen /\ job.kind = "FileChanged" /\ Last(job.path) = "LoadFolders.xml"
  <2>1. StartRebuild(active)
    BY <1>4 DEF FilesApply
  <2>2. \A f : Included(f) => WorkerIndexes(f)' /\ WorkerForgets(f)'
    BY <1>1, <2>1, RebuildReads
  <2>3. ASSUME NEW f \in Files \ (lost \cup none)
        PROVE  FileRight(f)' /\ ~FoldersUnheard(f)'
    BY <1>1, <1>2, <2>2, WorkStep
  <2> QED
    BY <1>1, <2>1, <2>3, LosingStep
<1>5. CASE generation = worker.gen /\ ~(job.kind = "FileChanged" /\ Last(job.path) = "LoadFolders.xml")
  <2> DEFINE new == ApplyFileJob(worker.index, job)
             left == worker.jobs \ {job}
  <2>1. worker' = [worker EXCEPT !.jobs = left, !.index = new]
    BY <1>5 DEF FilesApply
  <2>2. \A f \in Files : ~Concerns(job, f) => RecordsOf(new, f) = RecordsOf(worker.index, f)
    BY <1>1, AppliedJob DEF WorkerTyped
  <2>3. ASSUME NEW f \in Files, Concerns(job, f)
        PROVE  /\ Loaded(f) /\ ~RemovalOf(job, f) => RecordsOf(new, f) = Fresh(f)
               /\ ~Loaded(f) => RecordsOf(new, f) = Nothing
    BY <1>1, <2>3, AppliedRight DEF WorkerTyped
  <2>l. left \subseteq worker.jobs /\ \A x \in worker.jobs : x \in left \/ x = job
    OBVIOUS
  <2> HIDE DEF new, left
  <2>4. worker' = [pc |-> worker.pc, gen |-> worker.gen, project |-> worker.project,
                   jobs |-> left, locations |-> worker.locations,
                   files |-> worker.files, index |-> new]
    BY <1>1, <2>1 DEF WorkerTyped, IsWorker
  <2>5. worker'.pc = "files" /\ worker'.jobs = left /\ worker'.index = new
    BY <1>1, <2>4
  <2>6. \A f : Fresh(f)' = Fresh(f)
    BY <1>1, SameCollection
  <2>7. \A x, f : ChangeOf(x, f) => Concerns(x, f)
    BY DEF ChangeOf, Concerns
  <2>8. ~ChangeOf(job, LoadFoldersFile)
    <3> SUFFICES ASSUME ChangeOf(job, LoadFoldersFile) PROVE FALSE
      OBVIOUS
    <3>1. job.kind = "FileChanged" /\ job.path = LoadFoldersXml
      BY <1>1 DEF ChangeOf, LoadFoldersFile, FileJobs
    <3>2. Last(LoadFoldersXml) = "LoadFolders.xml"
      BY DEF Last, LoadFoldersXml
    <3> QED
      BY <1>5, <3>1, <3>2
  <2>9. FoldersChanged => FoldersChanged'
    BY <1>1, <2>5, <2>8, <2>l DEF FoldersChanged, ChangeIn
  <2>10. ASSUME NEW f \in Files, Loaded(f), WorkerIndexes(f)
         PROVE  WorkerIndexes(f)'
    <3>1. /\ NoRemoval(worker.jobs, f)
          /\ ChangeIn(worker.jobs, f) \/ RecordsOf(worker.index, f) = Fresh(f)
      BY <1>1, <2>10 DEF WorkerIndexes
    <3>2. NoRemoval(left, f) /\ ~RemovalOf(job, f)
      BY <2>l, <3>1 DEF NoRemoval
    <3>3. ChangeIn(left, f) \/ RecordsOf(new, f) = Fresh(f)
      <4>1. CASE Concerns(job, f)
        BY <2>3, <2>10, <3>2, <4>1
      <4>2. CASE ~Concerns(job, f)
        BY <2>2, <2>7, <2>l, <3>1, <4>2 DEF ChangeIn
      <4> QED
        BY <4>1, <4>2
    <3> QED
      BY <2>5, <2>6, <3>2, <3>3 DEF WorkerIndexes
  <2>11. ASSUME NEW f \in Files, ~Loaded(f), WorkerForgets(f)
         PROVE  WorkerForgets(f)'
    <3>1. TellsOne(worker.jobs, f) \/ RecordsOf(worker.index, f) = Nothing
      BY <1>1, <2>11 DEF WorkerForgets
    <3>2. TellsOne(left, f) \/ RecordsOf(new, f) = Nothing
      <4>1. CASE Concerns(job, f)
        BY <2>3, <2>11, <4>1
      <4>2. CASE ~Concerns(job, f)
        BY <2>2, <2>l, <3>1, <4>2 DEF TellsOne
      <4> QED
        BY <4>1, <4>2
    <3> QED
      BY <2>5, <3>2 DEF WorkerForgets
  <2>12. ASSUME NEW f \in Files \ (lost \cup none)
         PROVE  FileRight(f)' /\ ~FoldersUnheard(f)'
    <3>1. FoldersOwed(f) => FoldersOwed(f)'
      BY <2>9 DEF FoldersOwed
    <3> QED
      BY <1>1, <1>2, <2>10, <2>11, <3>1, WorkStep
  <2> QED
    BY <1>1, <2>5, <2>12, LosingStep
<1> QED
  BY <1>3, <1>4, <1>5

\* What the worker made of a file is published as it made it.
LEMMA PublishedRight ==
    ASSUME EventShapes, NEW project, UNCHANGED disk,
           published' = Published(project, RebuildComputedFields(worker.index)), WorkerDone
    PROVE  \A f : /\ RecordsOf(worker.index, f) = Fresh(f) => WorkerIndexes(f)'
                  /\ RecordsOf(worker.index, f) = Nothing => WorkerForgets(f)'
<1> DEFINE new == RebuildComputedFields(worker.index)
<1>1. \A f : RecordsOf(new, f) = RecordsOf(worker.index, f)
  BY RebuiltRecords DEF EventShapes, WorkerTyped
<1>2. published'.index = new
  BY DEF Published
<1> HIDE DEF new
<1>3. worker'.pc = "idle"
  BY IdleShape DEF WorkerDone
<1>4. \A f : Fresh(f)' = Fresh(f)
  BY SameDiskSaysSame
<1> QED
  BY <1>1, <1>2, <1>3, <1>4 DEF WorkerIndexes, WorkerForgets

LEMMA FilesPublishRight ==
    ASSUME DiskInv, FilesPublish PROVE FoldersHeard' /\ FilesRight'
<1>1. /\ EventShapes /\ Superseded /\ FoldersHeard /\ FilesRight
      /\ worker.pc = "files" /\ worker.jobs = {} /\ WorkerDone
      /\ UNCHANGED <<disk, loadFolders, active, generation, watcherQueue, jobQueue, pending, lost>>
  BY DEF DiskInv, TextInv, FilesPublish, fsVars
<1>2. ASSUME NEW f \in Files \ lost
      PROVE  FileRight(f) /\ ~FoldersUnheard(f)
  BY <1>1, HeardNow DEF FilesRight
<1>3. ASSUME NEW f \in Files \ lost
      PROVE  FileRight(f)' /\ ~FoldersUnheard(f)'
  <2>1. CASE generation # worker.gen
    <3>1. RebuildQueued
      BY <1>1, <2>1 DEF Superseded, RebuildQueued
    <3> QED
      BY <1>1, <1>2, <3>1, WorkStep
  <2>2. CASE generation = worker.gen
    <3>1. published' = Published(worker.project, RebuildComputedFields(worker.index))
      BY <2>2 DEF FilesPublish
    <3>2. /\ RecordsOf(worker.index, f) = Fresh(f) => WorkerIndexes(f)'
          /\ RecordsOf(worker.index, f) = Nothing => WorkerForgets(f)'
      BY <1>1, <3>1, PublishedRight
    <3>3. WorkerIndexes(f) => RecordsOf(worker.index, f) = Fresh(f)
      BY <1>1 DEF WorkerIndexes, ChangeIn
    <3>4. WorkerForgets(f) => RecordsOf(worker.index, f) = Nothing
      BY <1>1 DEF WorkerForgets, TellsOne
    <3>5. FoldersOwed(f) => FoldersOwed(f)'
      BY <1>1 DEF FoldersOwed, FoldersChanged, ChangeIn
    <3> QED
      BY <1>1, <1>2, <3>2, <3>3, <3>4, <3>5, WorkStep
  <2> QED
    BY <2>1, <2>2
<1> QED
  BY <1>1, <1>3 DEF FoldersHeard, FilesRight, FoldersUnheard

LEMMA RebuildPublishRight ==
    ASSUME DiskInv, RebuildPublish PROVE FoldersHeard' /\ FilesRight'
<1>1. /\ EventShapes /\ FoldersHeard /\ FilesRight
      /\ worker.pc = "rebuild" /\ worker.files = <<>> /\ worker.locations = <<>> /\ WorkerDone
      /\ published' = Published(worker.project, RebuildComputedFields(worker.index))
      /\ UNCHANGED <<disk, loadFolders, active, generation, watcherQueue, jobQueue, pending, lost>>
  BY DEF DiskInv, TextInv, RebuildPublish, fsVars
<1>2. Range(worker.files) = {} /\ Range(worker.locations) = {}
  BY <1>1, EmptyRange
<1>3. ASSUME NEW f \in Files \ lost
      PROVE  FileRight(f)' /\ ~FoldersUnheard(f)'
  <2>1. FileRight(f) /\ ~FoldersUnheard(f)
    BY <1>1, HeardNow DEF FilesRight
  <2>2. /\ RecordsOf(worker.index, f) = Fresh(f) => WorkerIndexes(f)'
        /\ RecordsOf(worker.index, f) = Nothing => WorkerForgets(f)'
    BY <1>1, PublishedRight
  <2>3. WorkerIndexes(f) => RecordsOf(worker.index, f) = Fresh(f)
    BY <1>1, <1>2 DEF WorkerIndexes, Visited
  <2>4. WorkerForgets(f) => RecordsOf(worker.index, f) = Nothing
    BY <1>1, <1>2 DEF WorkerForgets
  <2>5. FoldersOwed(f) => FoldersOwed(f)'
    BY <1>1 DEF FoldersOwed, FoldersChanged
  <2> QED
    BY <1>1, <2>1, <2>2, <2>3, <2>4, <2>5, WorkStep
<1> QED
  BY <1>1, <1>3 DEF FoldersHeard, FilesRight, FoldersUnheard

LEMMA RebuildScanRight ==
    ASSUME DiskInv, RebuildScan PROVE FoldersHeard' /\ FilesRight'
<1> DEFINE location == Head(worker.locations)
           rest == Tail(worker.locations)
           K == {f \in Files : f[1] = location.id /\ f[2] \in ActivePaths(location.id)}
           found == Retain(FileOrder, K)
<1>1. /\ EventShapes /\ WorkerTyped /\ Rebuilding /\ FoldersHeard /\ FilesRight
      /\ worker.pc = "rebuild" /\ worker.files = <<>> /\ worker.locations # <<>>
      /\ UNCHANGED <<disk, loadFolders, active, generation, watcherQueue, jobQueue, pending, lost>>
  BY DEF DiskInv, TextInv, EventShapes, RebuildScan, fsVars
<1>2. worker.locations \in Seq(Range(Locations)) /\ IsInjective(worker.locations)
  BY <1>1 DEF Rebuilding
<1>3. Range(worker.locations) = Range(rest) \cup {location}
  BY <1>1, <1>2, HeadAndTail
<1>4. worker' = [worker EXCEPT !.locations = rest, !.files = found]
  BY DEF RebuildScan
<1>5. FileOrder \in Seq(Files) /\ K \subseteq Range(FileOrder)
  BY EventsAssumption DEF Files, Range
<1>6. \A f \in Files : f \in K <=> f[1] = location.id /\ Loaded(f)
  BY DEF Loaded
<1> HIDE DEF K
<1>7. Range(found) = K
  <2>1. Range(found) = Range(FileOrder) \cap K
    BY <1>5, RetainRange
  <2> QED
    BY <1>5, <2>1
<1> HIDE DEF found, location, rest
<1>8. worker' = [pc |-> worker.pc, gen |-> worker.gen, project |-> worker.project,
                 jobs |-> worker.jobs, locations |-> rest, files |-> found,
                 index |-> worker.index]
  BY <1>1, <1>4 DEF WorkerTyped, IsWorker
<1>9. /\ worker'.pc = "rebuild" /\ worker'.locations = rest /\ worker'.files = found
      /\ worker'.index = worker.index
  BY <1>1, <1>8
<1>10. Range(worker.files) = {}
  BY <1>1, EmptyRange
<1>11. \A f : Fresh(f)' = Fresh(f)
  BY <1>1, SameCollection
<1>12. ASSUME NEW f \in Files, Loaded(f), WorkerIndexes(f)
       PROVE  WorkerIndexes(f)'
  <2>1. CASE RecordsOf(worker.index, f) = Fresh(f)
    BY <1>9, <1>11, <2>1 DEF WorkerIndexes
  <2>2. CASE ~Visited(f)
    <3>1. f[1] \in {l.id : l \in Range(worker.locations)}
      BY <1>10, <2>2 DEF Visited
    <3>2. f[1] \in {l.id : l \in Range(rest)} \/ f \in Range(found)
      BY <1>3, <1>6, <1>7, <1>12, <3>1
    <3>3. ~Visited(f)'
      BY <1>9, <3>2 DEF Visited
    <3> QED
      BY <1>9, <3>3 DEF WorkerIndexes
  <2> QED
    BY <1>1, <1>12, <2>1, <2>2 DEF WorkerIndexes
<1>13. ASSUME NEW f \in Files, ~Loaded(f), WorkerForgets(f)
       PROVE  WorkerForgets(f)'
  <2>1. f \notin Range(found)
    BY <1>6, <1>7, <1>13
  <2>2. CASE f[1] \in {l.id : l \in Range(worker.locations)}
    <3>1. RecordsOf(worker.index, f) = Nothing
      BY <1>1, <2>2 DEF Rebuilding, Visited
    <3> QED
      BY <1>9, <2>1, <3>1 DEF WorkerForgets
  <2>3. CASE RecordsOf(worker.index, f) = Nothing
    BY <1>9, <2>1, <2>3 DEF WorkerForgets
  <2> QED
    BY <1>1, <1>13, <2>2, <2>3 DEF WorkerForgets
<1>14. ASSUME NEW f \in Files \ lost
       PROVE  FileRight(f)' /\ ~FoldersUnheard(f)'
  <2>1. FileRight(f) /\ ~FoldersUnheard(f)
    BY <1>1, HeardNow DEF FilesRight
  <2>2. FoldersOwed(f) => FoldersOwed(f)'
    BY <1>1 DEF FoldersOwed, FoldersChanged
  <2> QED
    BY <1>1, <1>12, <1>13, <2>1, <2>2, WorkStep
<1> QED
  BY <1>1, <1>14 DEF FoldersHeard, FilesRight, FoldersUnheard

LEMMA RebuildReadRight ==
    ASSUME DiskInv, RebuildRead PROVE FoldersHeard' /\ FilesRight'
<1> DEFINE file == Head(worker.files)
           rest == Tail(worker.files)
           c == ContentOf(file)
           new == AddFile(worker.index, LocationById(file[1]), file[2], c)
<1>1. /\ EventShapes /\ WorkerTyped /\ Rebuilding /\ FoldersHeard /\ FilesRight
      /\ worker.pc = "rebuild" /\ worker.files # <<>> /\ IsIndex(worker.index)
      /\ UNCHANGED <<disk, loadFolders, active, generation, watcherQueue, jobQueue, pending, lost>>
  BY DEF DiskInv, TextInv, EventShapes, RebuildRead, fsVars, WorkerTyped
<1>2. worker.files \in Seq(Files) /\ IsInjective(worker.files)
  BY <1>1 DEF Rebuilding
<1>3. /\ file \in Files /\ Range(worker.files) = Range(rest) \cup {file}
  BY <1>1, <1>2, HeadAndTail
<1>4. worker' = [worker EXCEPT !.files = rest, !.index = new]
  BY DEF RebuildRead
<1> HIDE DEF file, rest
<1>5. /\ c \in Contents \cup {Unreadable}
      /\ Fresh(file) = [defs |-> AddedDefs(file, c), errors |-> AddedErrors(file, c)]
  BY <1>1, <1>3, FreshIs
<1> HIDE DEF c
<1>6. /\ \A g \in Files : g # file => RecordsOf(new, g) = RecordsOf(worker.index, g)
      /\ RecordsOf(worker.index, file) = Nothing =>
            RecordsOf(new, file) = [defs |-> AddedDefs(file, c), errors |-> AddedErrors(file, c)]
  BY <1>1, <1>3, <1>5, AddFileRecords
<1> HIDE DEF new
<1>7. worker' = [pc |-> worker.pc, gen |-> worker.gen, project |-> worker.project,
                 jobs |-> worker.jobs, locations |-> worker.locations, files |-> rest,
                 index |-> new]
  BY <1>1, <1>4 DEF WorkerTyped, IsWorker
<1>8. /\ worker'.pc = "rebuild" /\ worker'.locations = worker.locations
      /\ worker'.files = rest /\ worker'.index = new
  BY <1>1, <1>7
<1>9. RecordsOf(worker.index, file) = Nothing
  BY <1>1, <1>3 DEF Rebuilding, Visited
<1>10. RecordsOf(new, file) = Fresh(file) /\ \A f : Fresh(f)' = Fresh(f)
  BY <1>1, <1>5, <1>6, <1>9, SameCollection
<1>11. ASSUME NEW f \in Files, WorkerIndexes(f)
       PROVE  WorkerIndexes(f)'
  <2>1. CASE f = file
    BY <1>8, <1>10, <2>1 DEF WorkerIndexes
  <2>2. CASE f # file
    <3>1. Visited(f)' => Visited(f)
      BY <1>3, <1>8, <2>2 DEF Visited
    <3>2. RecordsOf(new, f) = RecordsOf(worker.index, f)
      BY <1>6, <2>2
    <3> QED
      BY <1>1, <1>8, <1>10, <1>11, <3>1, <3>2 DEF WorkerIndexes
  <2> QED
    BY <2>1, <2>2
<1>12. ASSUME NEW f \in Files, WorkerForgets(f)
       PROVE  WorkerForgets(f)'
  <2>1. CASE f[1] \in {l.id : l \in Range(worker.locations)}
    BY <1>8, <2>1 DEF WorkerForgets
  <2>2. CASE f \notin Range(worker.files) /\ RecordsOf(worker.index, f) = Nothing
    <3>1. f \notin Range(rest) /\ RecordsOf(new, f) = Nothing
      BY <1>3, <1>6, <2>2
    <3> QED
      BY <1>8, <3>1 DEF WorkerForgets
  <2> QED
    BY <1>1, <1>12, <2>1, <2>2 DEF WorkerForgets
<1>13. ASSUME NEW f \in Files \ lost
       PROVE  FileRight(f)' /\ ~FoldersUnheard(f)'
  <2>1. FileRight(f) /\ ~FoldersUnheard(f)
    BY <1>1, HeardNow DEF FilesRight
  <2>2. FoldersOwed(f) => FoldersOwed(f)'
    BY <1>1 DEF FoldersOwed, FoldersChanged
  <2> QED
    BY <1>1, <1>11, <1>12, <2>1, <2>2, WorkStep
<1> QED
  BY <1>1, <1>13 DEF FoldersHeard, FilesRight, FoldersUnheard

\* A worker that receives a batch goes on with it, or begins a rebuild.
LEMMA BatchLoses ==
    ASSUME EventShapes, worker.pc = "idle", NEW batch \in Seq(Jobs),
           ProcessBatch(Coalesce(batch, generation))
    PROVE  worker'.pc = "rebuild" /\ worker.pc # "rebuild" => StartRebuild(active)
  BY BatchStarts

LEMMA ReceiveJobsRight ==
    ASSUME DiskInv, ReceiveJobs PROVE FoldersHeard' /\ FilesRight'
<1> DEFINE none == {}
           batch == jobQueue
<1>1. /\ EventShapes /\ FoldersHeard /\ FilesRight /\ worker.pc = "idle" /\ batch \in Seq(Jobs)
      /\ UNCHANGED <<disk, loadFolders, active, generation, watcherQueue, pending, published>>
      /\ Lose(none) /\ Range(jobQueue') = {}
  BY EmptyRange DEF DiskInv, TextInv, EventShapes, ReceiveJobs, fsVars
<1>2. ProcessBatch(Coalesce(batch, generation))
  BY DEF ReceiveJobs
<1>3. Live(batch) = {job \in Range(jobQueue) : job.gen = generation}
  BY DEF Live
<1> HIDE DEF none, batch
<1>4. /\ worker'.pc = "rebuild" /\ worker.pc # "rebuild" => StartRebuild(active)
      /\ (\E job \in Live(batch) : job.kind = "FullRebuild") => StartRebuild(active)
  BY <1>1, <1>2, BatchStarts, BatchLoses
<1>5. ASSUME NEW f
      PROVE  /\ /\ Included(f) /\ NoRemoval(Live(batch), f)
                /\ RecordsOf(published.index, f) = Fresh(f)
                => WorkerIndexes(f)'
             /\ /\ Included(f)
                /\ \/ \E job \in Live(batch) : Concerns(job, f)
                   \/ RecordsOf(published.index, f) = Nothing
                => WorkerForgets(f)'
  BY <1>1, <1>2, BatchRight
<1>6. ASSUME NEW f \in Files \ (lost \cup none)
      PROVE  FileRight(f)' /\ ~FoldersUnheard(f)'
  <2>1. FileRight(f) /\ ~FoldersUnheard(f)
    BY <1>1, HeardNow DEF FilesRight
  <2>2. ~FoldersUnheard(f)'
    BY <1>1, <2>1 DEF FoldersUnheard
  <2>3. (Loaded(f)' <=> Loaded(f)) /\ (Included(f)' <=> Included(f))
    BY <1>1, SameCollection
  <2>4. FoldersOwed(f) => FoldersOwed(f)'
    BY <1>1 DEF FoldersOwed, FoldersChanged
  <2>5. ASSUME Loaded(f) PROVE ToBeIndexed(f)'
    <3>1. ToBeIndexed(f)
      BY <2>1, <2>5 DEF FileRight
    <3>2. CASE LastTold(watcherQueue, f) \/ ChangeIn(Range(pending), f)
      BY <1>1, <3>1, <3>2 DEF ToBeIndexed
    <3>3. ~RemovalQueued(f)'
      BY <1>1 DEF RemovalQueued
    <3>4. CASE ~LastTold(watcherQueue, f) /\ RebuildQueued
      <4>1. StartRebuild(active)
        BY <1>3, <1>4, <3>4 DEF RebuildQueued
      <4>2. Included(f) => WorkerIndexes(f)'
        BY <1>1, <4>1, RebuildReads
      <4> QED
        BY <1>1, <2>3, <3>1, <3>3, <3>4, <4>2 DEF ToBeIndexed
    <3>5. CASE ~LastTold(watcherQueue, f) /\ ~ChangeIn(Range(pending), f) /\ ~RebuildQueued
      <4>1. ~RemovalQueued(f) /\ (Included(f) => FoldersOwed(f) \/ WorkerIndexes(f))
        BY <3>1, <3>5 DEF ToBeIndexed
      <4>2. NoRemoval(Live(batch), f)
        BY <1>3, <4>1 DEF NoRemoval, RemovalQueued
      <4>3. Included(f) /\ WorkerIndexes(f) => WorkerIndexes(f)'
        <5>1. WorkerIndexes(f) => RecordsOf(published.index, f) = Fresh(f)
          BY <1>1 DEF WorkerIndexes
        <5> QED
          BY <1>5, <4>2, <5>1
      <4> QED
        BY <1>1, <2>3, <2>4, <3>1, <3>3, <3>5, <4>1, <4>3 DEF ToBeIndexed
    <3> QED
      BY <3>2, <3>4, <3>5
  <2>6. ASSUME ~Loaded(f) PROVE ToBeForgotten(f)'
    <3>1. Included(f) => Owed(f) \/ FoldersOwed(f) \/ WorkerForgets(f)
      BY <2>1, <2>6 DEF FileRight, ToBeForgotten
    <3>2. WorkerForgets(f) => RecordsOf(published.index, f) = Nothing
      BY <1>1 DEF WorkerForgets
    <3>3. Owed(f) => Owed(f)' \/ \E job \in Live(batch) : Concerns(job, f)
      BY <1>1, <1>3 DEF Owed
    <3> QED
      BY <1>5, <2>3, <2>4, <3>1, <3>2, <3>3 DEF ToBeForgotten
  <2> QED
    BY <2>2, <2>3, <2>5, <2>6 DEF FileRight
<1> QED
  BY <1>1, <1>4, <1>6, LosingStep

\* No deletion that is heard of swallows a change of the LoadFolders.xml.
LEMMA FoldersKept ==
    ASSUME NEW f \in Files, f[1] = Locations[1].id, ~FoldersUnheard(f),
           NEW e \in FileEvents, e \in Range(watcherQueue) \cup Range(pending)
    PROVE  ~RemovalOf(e, LoadFoldersFile)
<1> SUFFICES ASSUME RemovalOf(e, LoadFoldersFile) PROVE FALSE
  OBVIOUS
<1>1. e \in Events /\ e.kind # "FolderDeleted"
  BY DEF FileEvents
<1>2. e.kind = "Deleted" /\ <<e.loc, e.path>> = <<f[1], LoadFoldersXml>>
  BY <1>1 DEF RemovalOf, LoadFoldersFile, Events
<1>3. e = [kind |-> e.kind, loc |-> e.loc, path |-> e.path]
  BY <1>1 DEF Events
<1>4. e = Event("Deleted", f[1], LoadFoldersXml)
  BY <1>2, <1>3 DEF Event
<1> QED
  BY <1>4 DEF FoldersUnheard

\* Folder deletions of the watcher become jobs that remove the same files.
LEMMA FolderBatch ==
    ASSUME NEW folders \in Seq(Events), \A e \in Range(folders) : e.kind = "FolderDeleted",
           generation \in Nat
    PROVE  LET batch == [i \in DOMAIN folders |->
                            Job("FolderDeleted", folders[i].loc, folders[i].path, generation)] IN
           /\ batch \in Seq(Jobs)
           /\ \A f : NoRemoval(Range(folders), f) => NoRemoval(Live(batch), f)
           /\ \A f : Tells(folders, f) => \E job \in Live(batch) : Concerns(job, f)
<1> DEFINE JobOf(e) == Job("FolderDeleted", e.loc, e.path, generation)
           batch == [i \in DOMAIN folders |->
                        Job("FolderDeleted", folders[i].loc, folders[i].path, generation)]
<1>1. ASSUME NEW e \in Range(folders)
      PROVE  /\ JobOf(e) \in Jobs /\ JobOf(e).gen = generation
             /\ \A f : Concerns(e, f) => Concerns(JobOf(e), f)
             /\ \A f : ~RemovalOf(e, f) => ~RemovalOf(JobOf(e), f)
  <2>1. e \in Events /\ e.kind = "FolderDeleted"
    BY DEF Range
  <2>2. e.loc \in LocationIds /\ e.path \in LocalPaths
    BY <2>1 DEF Events
  <2>3. JobOf(e) \in Jobs
    BY <2>2, EventTyped DEF Jobs
  <2>4. /\ JobOf(e).kind = "FolderDeleted" /\ JobOf(e).loc = e.loc /\ JobOf(e).path = e.path
        /\ JobOf(e).gen = generation
    BY DEF Job
  <2> HIDE DEF JobOf
  <2> QED
    BY <2>1, <2>3, <2>4 DEF Concerns, RemovalOf
<1>2. DOMAIN batch = DOMAIN folders /\ \A i \in DOMAIN folders : batch[i] = JobOf(folders[i])
  OBVIOUS
<1>3. \A i \in DOMAIN folders : folders[i] \in Range(folders)
  BY DEF Range
<1>4. batch \in Seq(Jobs)
  <2>1. \A i \in DOMAIN folders : JobOf(folders[i]) \in Jobs
    BY <1>1, <1>3
  <2> QED
    BY <2>1
<1> HIDE DEF batch, JobOf
<1>5. \A job \in Range(batch) : \E e \in Range(folders) : job = JobOf(e)
  BY <1>2, <1>3 DEF Range
<1>6. \A e \in Range(folders) : JobOf(e) \in Range(batch)
  BY <1>2 DEF Range
<1>7. ASSUME NEW f, NoRemoval(Range(folders), f) PROVE NoRemoval(Live(batch), f)
  BY <1>1, <1>5, <1>7 DEF NoRemoval, Live
<1>8. ASSUME NEW f, Tells(folders, f) PROVE \E job \in Live(batch) : Concerns(job, f)
  BY <1>1, <1>6, <1>8 DEF Tells, Live
<1> QED
  BY <1>4, <1>7, <1>8 DEF batch

LEMMA ReceiveEventsRight ==
    ASSUME DiskInv, ReceiveEvents PROVE FoldersHeard' /\ FilesRight'
<1> DEFINE F == {ev \in Range(watcherQueue) : ev.kind # "FolderDeleted"}
           D == {ev \in Range(watcherQueue) : ev.kind = "FolderDeleted"}
           files == Retain(watcherQueue, F)
           folders == Retain(watcherQueue, D)
           batch == [i \in DOMAIN folders |->
                        Job("FolderDeleted", folders[i].loc, folders[i].path, generation)]
           dropped == Dropped(pending, files)
<1>1. /\ EventShapes /\ FoldersHeard /\ FilesRight /\ worker.pc = "idle"
      /\ watcherQueue \in Seq(Events) /\ pending \in Seq(FileEvents) /\ generation \in Nat
      /\ UNCHANGED <<disk, loadFolders, active, generation, jobQueue, published>>
      /\ Range(watcherQueue') = {}
  BY EmptyRange DEF DiskInv, TextInv, EventShapes, ReceiveEvents, fsVars
<1>2. /\ ProcessBatch(Coalesce(batch, generation))
      /\ pending' = RecordAll(pending, files)
      /\ Lose(dropped)
  BY DEF ReceiveEvents
<1>a. Range(watcherQueue) \cap F = F /\ Range(watcherQueue) \cap D = D
  OBVIOUS
<1>b. \A e \in Range(watcherQueue) : e \in F \/ e \in D
  OBVIOUS
<1>c. (\A e \in F : e.kind # "FolderDeleted") /\ (\A e \in D : e.kind = "FolderDeleted")
  OBVIOUS
<1> HIDE DEF F, D
<1>3. files \in Seq(Events) /\ Range(files) = F /\ F \subseteq Range(watcherQueue)
  BY <1>1, <1>a, RetainRange
<1>4. folders \in Seq(Events) /\ Range(folders) = D /\ D \subseteq Range(watcherQueue)
  BY <1>1, <1>a, RetainRange
<1>d. \A f : LastTold(watcherQueue, f) => LastTold(files, f)
  <2>1. \A x \in Range(watcherQueue) : \A f : ChangeOf(x, f) => x \in F
    BY <1>b, <1>c DEF ChangeOf
  <2> HIDE DEF files
  <2> QED
    BY <1>1, <2>1, LastToldKept DEF files
<1> HIDE DEF files, folders
<1>5. files \in Seq(FileEvents)
  <2>1. \A e \in Range(files) : e \in FileEvents
    BY <1>3, <1>c DEF FileEvents, Range
  <2> QED
    BY <1>3, <2>1 DEF Range
<1>6. /\ batch \in Seq(Jobs)
      /\ \A f : NoRemoval(D, f) => NoRemoval(Live(batch), f)
      /\ \A f : Tells(folders, f) => \E job \in Live(batch) : Concerns(job, f)
  BY <1>1, <1>4, <1>c, FolderBatch
<1> HIDE DEF batch, dropped
<1>7. worker'.pc = "rebuild" /\ worker.pc # "rebuild" => StartRebuild(active)
  BY <1>1, <1>2, <1>6, BatchLoses
<1>8. ASSUME NEW f
      PROVE  /\ /\ Included(f) /\ NoRemoval(Live(batch), f)
                /\ RecordsOf(published.index, f) = Fresh(f)
                => WorkerIndexes(f)'
             /\ /\ Included(f)
                /\ \/ \E job \in Live(batch) : Concerns(job, f)
                   \/ RecordsOf(published.index, f) = Nothing
                => WorkerForgets(f)'
  BY <1>1, <1>2, <1>6, BatchRight
<1>9. /\ Range(pending') \subseteq Range(pending) \cup F
      /\ \A f : NoRemoval(Range(pending) \cup F, f) /\ ChangeIn(Range(pending) \cup F, f)
                   => Heard(pending', f)
      /\ \A f : Tells(pending, f) \/ Tells(files, f) => Tells(pending', f)
  BY <1>1, <1>2, <1>3, <1>5, RecordAllHears, RecordAllKeepsFiles
<1>10. ASSUME NEW f \in Files \ dropped, LastTold(watcherQueue, f)
       PROVE  Heard(pending', f)
  BY <1>1, <1>2, <1>5, <1>10, <1>d, RecordAllTold DEF dropped
<1>11. ASSUME NEW f \in Files, ~FoldersUnheard(f), FoldersOwed(f)
       PROVE  FoldersOwed(f)'
  <2>1. f[1] = Locations[1].id /\ ChangeIn(Range(watcherQueue) \cup Range(pending), LoadFoldersFile)
    BY <1>1, <1>11 DEF FoldersOwed, FoldersChanged
  <2>2. ChangeIn(Range(pending) \cup F, LoadFoldersFile)
    BY <1>b, <1>c, <2>1 DEF ChangeIn, ChangeOf
  <2>3. \A e \in Range(pending) \cup F : e \in FileEvents /\ e \in Range(watcherQueue) \cup Range(pending)
    BY <1>1, <1>3, <1>5 DEF Range
  <2>4. NoRemoval(Range(pending) \cup F, LoadFoldersFile)
    BY <1>11, <2>1, <2>3, FoldersKept DEF NoRemoval
  <2>5. ChangeIn(Range(pending'), LoadFoldersFile)
    BY <1>9, <2>2, <2>4 DEF Heard
  <2> QED
    BY <2>1, <2>5 DEF FoldersOwed, FoldersChanged, ChangeIn
<1>12. ASSUME NEW f \in Files \ (lost \cup dropped)
       PROVE  FileRight(f)' /\ ~FoldersUnheard(f)'
  <2>1. FileRight(f) /\ ~FoldersUnheard(f)
    BY <1>1, HeardNow DEF FilesRight
  <2>2. ~FoldersUnheard(f)'
    BY <1>1, <1>3, <1>9, <2>1 DEF FoldersUnheard
  <2>3. (Loaded(f)' <=> Loaded(f)) /\ (Included(f)' <=> Included(f))
    BY <1>1, SameCollection
  <2>4. FoldersOwed(f) => FoldersOwed(f)'
    BY <1>11, <2>1
  <2>5. /\ RebuildQueued' <=> RebuildQueued
        /\ RemovalQueued(f)' <=> RemovalQueued(f)
        /\ NoRemoval(Range(watcherQueue'), f)
    BY <1>1 DEF RebuildQueued, RemovalQueued, NoRemoval
  <2>6. ASSUME Loaded(f) PROVE ToBeIndexed(f)'
    <3>1. ToBeIndexed(f)
      BY <2>1, <2>6 DEF FileRight
    <3>2. CASE LastTold(watcherQueue, f)
      <4>1. Heard(pending', f)
        BY <1>10, <3>2
      <4> QED
        BY <2>5, <4>1 DEF Heard, ToBeIndexed
    <3>3. CASE ~LastTold(watcherQueue, f)
      <4>1. NoRemoval(Range(watcherQueue), f) /\ NoRemoval(Range(pending), f)
        BY <3>1, <3>3 DEF ToBeIndexed
      <4>2. NoRemoval(Range(pending) \cup F, f) /\ NoRemoval(Live(batch), f)
        BY <1>3, <1>4, <1>6, <4>1 DEF NoRemoval
      <4>3. NoRemoval(Range(pending'), f)
        BY <1>9, <4>2 DEF NoRemoval
      <4>4. CASE ChangeIn(Range(pending), f)
        <5>1. Heard(pending', f)
          BY <1>9, <4>2, <4>4 DEF ChangeIn
        <5> QED
          BY <2>5, <5>1 DEF Heard, ToBeIndexed
      <4>5. CASE RebuildQueued
        BY <2>5, <4>3, <4>5 DEF ToBeIndexed
      <4>6. CASE ~RemovalQueued(f) /\ (Included(f) => FoldersOwed(f) \/ WorkerIndexes(f))
        <5>1. Included(f) /\ WorkerIndexes(f) => WorkerIndexes(f)'
          <6>1. WorkerIndexes(f) => RecordsOf(published.index, f) = Fresh(f)
            BY <1>1 DEF WorkerIndexes
          <6> QED
            BY <1>8, <4>2, <6>1
        <5> QED
          BY <2>3, <2>4, <2>5, <4>3, <4>6, <5>1 DEF ToBeIndexed
      <4> QED
        BY <3>1, <3>3, <4>4, <4>5, <4>6 DEF ToBeIndexed
    <3> QED
      BY <3>2, <3>3
  <2>7. ASSUME ~Loaded(f) PROVE ToBeForgotten(f)'
    <3>1. Included(f) => Owed(f) \/ FoldersOwed(f) \/ WorkerForgets(f)
      BY <2>1, <2>7 DEF FileRight, ToBeForgotten
    <3>2. WorkerForgets(f) => RecordsOf(published.index, f) = Nothing
      BY <1>1 DEF WorkerForgets
    <3>3. Owed(f) => Owed(f)' \/ \E job \in Live(batch) : Concerns(job, f)
      <4>1. Tells(watcherQueue, f) => Tells(files, f) \/ Tells(folders, f)
        BY <1>3, <1>4, <1>b DEF Tells
      <4> QED
        BY <1>1, <1>6, <1>9, <4>1 DEF Owed
    <3> QED
      BY <1>8, <2>3, <2>4, <3>1, <3>2, <3>3 DEF ToBeForgotten
  <2> QED
    BY <2>2, <2>3, <2>6, <2>7 DEF FileRight
<1> QED
  BY <1>1, <1>2, <1>7, <1>12, LosingStep

\* The first events become jobs of the same effect, the others stay.
LEMMA DrainBatch ==
    ASSUME pending \in Seq(FileEvents), generation \in Nat, NEW n \in 1 .. Len(pending)
    PROVE  LET batch == [i \in 1 .. n |->
                            Job(IF pending[i].kind = "Changed" THEN "FileChanged" ELSE "FileDeleted",
                                pending[i].loc, pending[i].path, generation)]
               first == SubSeq(pending, 1, n)
               rest == SubSeq(pending, n + 1, Len(pending)) IN
           /\ batch \in Seq(Jobs) /\ rest \in Seq(FileEvents) /\ Range(rest) \subseteq Range(pending)
           /\ \A f : NoRemoval(Range(pending), f) => NoRemoval(Live(batch), f)
           /\ \A f : ChangeIn(Range(pending), f) =>
                 \/ ChangeIn(Range(rest), f)
                 \/ /\ ChangeIn(Live(batch), f)
                    /\ \E i \in DOMAIN first : /\ first[i].kind = "Changed"
                                               /\ <<first[i].loc, first[i].path>> = f
           /\ \A f : Tells(pending, f) =>
                 Tells(rest, f) \/ \E job \in Live(batch) : Concerns(job, f)
<1> DEFINE JobOf(e) == Job(IF e.kind = "Changed" THEN "FileChanged" ELSE "FileDeleted",
                           e.loc, e.path, generation)
           batch == [i \in 1 .. n |->
                        Job(IF pending[i].kind = "Changed" THEN "FileChanged" ELSE "FileDeleted",
                            pending[i].loc, pending[i].path, generation)]
           first == SubSeq(pending, 1, n)
           rest == SubSeq(pending, n + 1, Len(pending))
<1>1. ASSUME NEW e \in FileEvents
      PROVE  /\ e.kind \in {"Changed", "Deleted"}
             /\ JobOf(e) \in Jobs /\ JobOf(e).gen = generation
             /\ \A f : Concerns(e, f) => Concerns(JobOf(e), f)
             /\ \A f : ~RemovalOf(e, f) => ~RemovalOf(JobOf(e), f)
             /\ \A f : ChangeOf(e, f) => ChangeOf(JobOf(e), f)
  <2>1. e.loc \in LocationIds /\ e.path \in LocalPaths /\ e.kind \in {"Changed", "Deleted"}
    BY DEF FileEvents, Events
  <2>2. JobOf(e) \in Jobs
    BY <2>1, EventTyped DEF Jobs
  <2>3. /\ JobOf(e).kind = (IF e.kind = "Changed" THEN "FileChanged" ELSE "FileDeleted")
        /\ JobOf(e).loc = e.loc /\ JobOf(e).path = e.path /\ JobOf(e).gen = generation
    BY DEF Job
  <2> HIDE DEF JobOf
  <2>4. \A f : Concerns(e, f) => Concerns(JobOf(e), f)
    BY <2>1, <2>3 DEF Concerns
  <2>5. \A f : ~RemovalOf(e, f) => ~RemovalOf(JobOf(e), f)
    BY <2>1, <2>3 DEF RemovalOf
  <2>6. \A f : ChangeOf(e, f) => ChangeOf(JobOf(e), f)
    BY <2>1, <2>3 DEF ChangeOf
  <2> QED
    BY <2>1, <2>2, <2>3, <2>4, <2>5, <2>6
<1>2. /\ n \in Nat /\ n \in 0 .. Len(pending) /\ \A i \in 1 .. n : i \in DOMAIN pending
      /\ DOMAIN first = 1 .. n /\ \A i \in 1 .. n : first[i] = pending[i]
  OBVIOUS
<1>3. \A i \in DOMAIN pending : i \in 1 .. n \/ i > n
  BY <1>2
<1>4. DOMAIN batch = 1 .. n /\ \A i \in 1 .. n : batch[i] = JobOf(pending[i])
  OBVIOUS
<1>5. \A i \in 1 .. n : pending[i] \in FileEvents /\ pending[i] \in Range(pending)
  BY <1>2 DEF Range
<1>6. batch \in Seq(Jobs)
  <2>1. batch \in [1 .. n -> Jobs]
    <3>1. \A i \in 1 .. n : JobOf(pending[i]) \in Jobs
      BY <1>1, <1>5
    <3> QED
      BY <3>1
  <2>2. n \in Nat
    BY <1>2
  <2> HIDE DEF batch
  <2> QED
    BY <2>1, <2>2
<1>7. Range(rest) \subseteq Range(pending)
  <2>1. /\ DOMAIN rest = 1 .. Len(pending) - n
        /\ \A k \in 1 .. Len(pending) - n : rest[k] = pending[n + k] /\ n + k \in DOMAIN pending
    BY <1>2
  <2> HIDE DEF rest
  <2> QED
    BY <2>1 DEF Range
<1>8. rest \in Seq(FileEvents) /\ \A i \in DOMAIN pending : i > n => pending[i] \in Range(rest)
  BY <1>2, TailOfQueue
<1> HIDE DEF batch, first, rest, JobOf
<1>9. \A job \in Live(batch) : \E i \in 1 .. n : job = JobOf(pending[i])
  BY <1>4 DEF Live, Range
<1>10. \A i \in 1 .. n : JobOf(pending[i]) \in Live(batch)
  <2>1. \A i \in 1 .. n : JobOf(pending[i]) \in Range(batch)
    BY <1>4 DEF Range
  <2> QED
    BY <1>1, <1>5, <2>1 DEF Live
<1>11. ASSUME NEW f, NoRemoval(Range(pending), f) PROVE NoRemoval(Live(batch), f)
  BY <1>1, <1>5, <1>9, <1>11 DEF NoRemoval
<1>12. ASSUME NEW f, ChangeIn(Range(pending), f)
       PROVE  \/ ChangeIn(Range(rest), f)
              \/ /\ ChangeIn(Live(batch), f)
                 /\ \E i \in DOMAIN first : /\ first[i].kind = "Changed"
                                            /\ <<first[i].loc, first[i].path>> = f
  <2>1. PICK i \in DOMAIN pending : ChangeOf(pending[i], f)
    BY <1>12 DEF ChangeIn, Range
  <2>2. CASE i > n
    BY <1>8, <2>1, <2>2 DEF ChangeIn
  <2>3. CASE i \in 1 .. n
    <3>1. pending[i].kind = "Changed" /\ <<pending[i].loc, pending[i].path>> = f
      BY <1>1, <1>5, <2>1, <2>3 DEF ChangeOf
    <3>2. ChangeOf(JobOf(pending[i]), f)
      BY <1>1, <1>5, <2>1, <2>3
    <3> QED
      BY <1>2, <1>10, <2>3, <3>1, <3>2 DEF ChangeIn
  <2> QED
    BY <1>3, <2>2, <2>3
<1>13. ASSUME NEW f, Tells(pending, f)
       PROVE  Tells(rest, f) \/ \E job \in Live(batch) : Concerns(job, f)
  <2>1. PICK i \in DOMAIN pending : Concerns(pending[i], f)
    BY <1>13 DEF Tells, Range
  <2>2. CASE i > n
    BY <1>8, <2>1, <2>2 DEF Tells
  <2>3. CASE i \in 1 .. n
    BY <1>1, <1>5, <1>10, <2>1, <2>3
  <2> QED
    BY <1>3, <2>2, <2>3
<1> QED
  BY <1>6, <1>7, <1>8, <1>11, <1>12, <1>13 DEF batch, first, rest

LEMMA DrainReadyRight ==
    ASSUME DiskInv, NEW n \in 1 .. Len(pending), DrainReady(n)
    PROVE  FoldersHeard' /\ FilesRight'
<1> DEFINE batch == [i \in 1 .. n |->
                        Job(IF pending[i].kind = "Changed" THEN "FileChanged" ELSE "FileDeleted",
                            pending[i].loc, pending[i].path, generation)]
           first == SubSeq(pending, 1, n)
           rest == SubSeq(pending, n + 1, Len(pending))
           overtaking == Overtaking(first)
<1>1. /\ EventShapes /\ FoldersHeard /\ FilesRight /\ worker.pc = "idle"
      /\ pending \in Seq(FileEvents) /\ generation \in Nat
      /\ UNCHANGED <<disk, loadFolders, active, generation, watcherQueue, jobQueue, published>>
  BY DEF DiskInv, TextInv, EventShapes, DrainReady, fsVars
<1>2. /\ ProcessBatch(Coalesce(batch, generation))
      /\ pending' = rest
      /\ Lose(overtaking)
  BY DEF DrainReady
<1>3. /\ batch \in Seq(Jobs) /\ Range(rest) \subseteq Range(pending)
      /\ \A f : NoRemoval(Range(pending), f) => NoRemoval(Live(batch), f)
      /\ \A f : ChangeIn(Range(pending), f) =>
            \/ ChangeIn(Range(rest), f)
            \/ /\ ChangeIn(Live(batch), f)
               /\ \E i \in DOMAIN first : /\ first[i].kind = "Changed"
                                          /\ <<first[i].loc, first[i].path>> = f
      /\ \A f : Tells(pending, f) =>
            Tells(rest, f) \/ \E job \in Live(batch) : Concerns(job, f)
  BY <1>1, DrainBatch
<1>4. \A f \in Files \ overtaking :
         (\E i \in DOMAIN first : /\ first[i].kind = "Changed"
                                  /\ <<first[i].loc, first[i].path>> = f) => ~RemovalQueued(f)
  BY DEF Overtaking
<1> HIDE DEF batch, first, rest, overtaking
<1>5. worker'.pc = "rebuild" /\ worker.pc # "rebuild" => StartRebuild(active)
  BY <1>1, <1>2, <1>3, BatchLoses
<1>6. ASSUME NEW f
      PROVE  /\ NoRemoval(Live(batch), f) /\ ChangeIn(Live(batch), f) =>
                   StartRebuild(active) \/ (worker'.pc = "files" /\ ChangeIn(worker'.jobs, f))
             /\ /\ Included(f) /\ NoRemoval(Live(batch), f)
                /\ ChangeIn(Live(batch), f) \/ RecordsOf(published.index, f) = Fresh(f)
                => WorkerIndexes(f)'
             /\ /\ Included(f)
                /\ \/ \E job \in Live(batch) : Concerns(job, f)
                   \/ RecordsOf(published.index, f) = Nothing
                => WorkerForgets(f)'
  BY <1>1, <1>2, <1>3, BatchRight
<1>7. ASSUME NEW f \in Files, ~FoldersUnheard(f), FoldersOwed(f), Included(f)
      PROVE  FoldersOwed(f)' \/ (WorkerIndexes(f)' /\ WorkerForgets(f)')
  <2>1. f[1] = Locations[1].id /\ ChangeIn(Range(watcherQueue) \cup Range(pending), LoadFoldersFile)
    BY <1>1, <1>7 DEF FoldersOwed, FoldersChanged
  <2>2. CASE ChangeIn(Range(watcherQueue) \cup Range(rest), LoadFoldersFile)
    BY <1>1, <1>2, <2>1, <2>2 DEF FoldersOwed, FoldersChanged
  <2>3. CASE ~ChangeIn(Range(watcherQueue) \cup Range(rest), LoadFoldersFile)
    <3>1. ChangeIn(Range(pending), LoadFoldersFile) /\ ~ChangeIn(Range(rest), LoadFoldersFile)
      BY <2>1, <2>3 DEF ChangeIn
    <3>2. ChangeIn(Live(batch), LoadFoldersFile)
      BY <1>3, <3>1
    <3>3. NoRemoval(Range(pending), LoadFoldersFile)
      <4>1. \A e \in Range(pending) : e \in FileEvents
        BY <1>1 DEF Range
      <4> QED
        BY <1>7, <2>1, <4>1, FoldersKept DEF NoRemoval
    <3>4. StartRebuild(active) \/ (worker'.pc = "files" /\ ChangeIn(worker'.jobs, LoadFoldersFile))
      BY <1>3, <1>6, <3>2, <3>3
    <3>5. CASE StartRebuild(active)
      BY <1>1, <1>7, <3>5, RebuildReads
    <3>6. CASE worker'.pc = "files" /\ ChangeIn(worker'.jobs, LoadFoldersFile)
      BY <2>1, <3>6 DEF FoldersOwed, FoldersChanged
    <3> QED
      BY <3>4, <3>5, <3>6
  <2> QED
    BY <2>2, <2>3
<1>8. ASSUME NEW f \in Files \ (lost \cup overtaking)
      PROVE  FileRight(f)' /\ ~FoldersUnheard(f)'
  <2>1. FileRight(f) /\ ~FoldersUnheard(f)
    BY <1>1, HeardNow DEF FilesRight
  <2>2. ~FoldersUnheard(f)'
    BY <1>1, <1>2, <1>3, <2>1 DEF FoldersUnheard
  <2>3. (Loaded(f)' <=> Loaded(f)) /\ (Included(f)' <=> Included(f))
    BY <1>1, SameCollection
  <2>4. Included(f) /\ FoldersOwed(f) => FoldersOwed(f)' \/ (WorkerIndexes(f)' /\ WorkerForgets(f)')
    BY <1>7, <2>1
  <2>5. /\ RebuildQueued' <=> RebuildQueued
        /\ RemovalQueued(f)' <=> RemovalQueued(f)
    BY <1>1 DEF RebuildQueued, RemovalQueued
  <2>6. ASSUME Loaded(f) PROVE ToBeIndexed(f)'
    <3>1. ToBeIndexed(f)
      BY <2>1, <2>6 DEF FileRight
    <3>2. CASE LastTold(watcherQueue, f)
      BY <1>1, <3>2 DEF ToBeIndexed
    <3>3. CASE ~LastTold(watcherQueue, f)
      <4>1. NoRemoval(Range(watcherQueue), f) /\ NoRemoval(Range(pending), f)
        BY <3>1, <3>3 DEF ToBeIndexed
      <4>2. NoRemoval(Live(batch), f)
        BY <1>3, <4>1
      <4>3. NoRemoval(Range(watcherQueue'), f) /\ NoRemoval(Range(pending'), f)
        BY <1>1, <1>2, <1>3, <4>1 DEF NoRemoval
      <4>4. CASE ChangeIn(Range(pending), f)
        <5>1. CASE ChangeIn(Range(rest), f)
          BY <1>2, <4>3, <5>1 DEF ToBeIndexed
        <5>2. CASE ~ChangeIn(Range(rest), f)
          <6>1. ChangeIn(Live(batch), f) /\ ~RemovalQueued(f)
            BY <1>3, <1>4, <4>4, <5>2
          <6>2. Included(f) => WorkerIndexes(f)'
            BY <1>6, <4>2, <6>1
          <6> QED
            BY <2>3, <2>5, <4>3, <6>1, <6>2 DEF ToBeIndexed
        <5> QED
          BY <5>1, <5>2
      <4>5. CASE RebuildQueued
        BY <2>5, <4>3, <4>5 DEF ToBeIndexed
      <4>6. CASE ~RemovalQueued(f) /\ (Included(f) => FoldersOwed(f) \/ WorkerIndexes(f))
        <5>1. Included(f) /\ WorkerIndexes(f) => WorkerIndexes(f)'
          <6>1. WorkerIndexes(f) => RecordsOf(published.index, f) = Fresh(f)
            BY <1>1 DEF WorkerIndexes
          <6> QED
            BY <1>6, <4>2, <6>1
        <5> QED
          BY <2>3, <2>4, <2>5, <4>3, <4>6, <5>1 DEF ToBeIndexed
      <4> QED
        BY <3>1, <3>3, <4>4, <4>5, <4>6 DEF ToBeIndexed
    <3> QED
      BY <3>2, <3>3
  <2>7. ASSUME ~Loaded(f) PROVE ToBeForgotten(f)'
    <3>1. Included(f) => Owed(f) \/ FoldersOwed(f) \/ WorkerForgets(f)
      BY <2>1, <2>7 DEF FileRight, ToBeForgotten
    <3>2. WorkerForgets(f) => RecordsOf(published.index, f) = Nothing
      BY <1>1 DEF WorkerForgets
    <3>3. Owed(f) => Owed(f)' \/ \E job \in Live(batch) : Concerns(job, f)
      BY <1>1, <1>2, <1>3 DEF Owed
    <3> QED
      BY <1>6, <2>3, <2>4, <3>1, <3>2, <3>3 DEF ToBeForgotten
  <2> QED
    BY <2>2, <2>3, <2>6, <2>7 DEF FileRight
<1> QED
  BY <1>1, <1>2, <1>5, <1>8, LosingStep

-----------------------------------------------------------------------------
(* The theorem *)

LEMMA DiskInvInit == ASSUME Init PROVE DiskInv
<1>1. TextInv /\ EventShapes
  BY TextInvInit DEF TextInv
<1>2. /\ published.index = BuildDefIndex(active) /\ worker = IdleWorker
      /\ watcherQueue = <<>> /\ pending = <<>> /\ jobQueue = <<>>
  BY DEF Init
<1>3. worker.pc = "idle"
  BY <1>2, IdleShape
<1>4. Range(watcherQueue) = {} /\ Range(pending) = {} /\ Range(jobQueue) = {}
  BY <1>2, EmptyRange
<1>5. FoldersHeard
  BY <1>4 DEF FoldersHeard
<1>6. ASSUME NEW f \in Files PROVE FileRight(f)
  <2>1. Included(f) => RecordsOf(published.index, f) = IF Loaded(f) THEN Fresh(f) ELSE Nothing
    BY <1>1, <1>2, RebuildSays
  <2>2. Loaded(f) => ToBeIndexed(f)
    BY <1>3, <1>4, <2>1 DEF ToBeIndexed, NoRemoval, RemovalQueued, WorkerIndexes
  <2>3. ~Loaded(f) => ToBeForgotten(f)
    BY <1>3, <2>1 DEF ToBeForgotten, WorkerForgets
  <2> QED
    BY <2>2, <2>3 DEF FileRight
<1> QED
  BY <1>1, <1>5, <1>6 DEF DiskInv, FilesRight

LEMMA DiskInvNext == ASSUME DiskInv, [Next]_vars PROVE DiskInv'
<1>1. TextInv'
  BY TextInvNext DEF DiskInv
<1>2. CASE Environment
  BY <1>1, <1>2, FileStepsRight, MoveFolderOutRight, MoveFolderInRight, DeleteFolderRight,
     WriteLoadFoldersRight, RemoveLoadFoldersRight, SetActiveProjectRight DEF Environment, DiskInv
<1>3. CASE Worker
  BY <1>1, <1>3, ReceiveJobsRight, ReceiveEventsRight, DrainReadyRight, FilesApplyRight,
     FilesPublishRight, RebuildScanRight, RebuildReadRight, RebuildPublishRight DEF Worker, DiskInv
<1>4. CASE UNCHANGED vars
  <2>1. /\ UNCHANGED <<disk, loadFolders, active, generation, watcherQueue, jobQueue, pending>>
        /\ UNCHANGED <<worker, published, lost>>
    BY <1>4 DEF vars
  <2>2. \A f : /\ FoldersOwed(f)' <=> FoldersOwed(f)
               /\ WorkerForgets(f)' <=> WorkerForgets(f)
    BY <2>1 DEF FoldersOwed, FoldersChanged, WorkerForgets
  <2>3. \A f : WorkerIndexes(f)' <=> WorkerIndexes(f)
    <3>1. \A f : (Fresh(f)' = Fresh(f)) /\ (Visited(f)' <=> Visited(f))
      BY <2>1, SameCollection DEF Visited
    <3> QED
      BY <2>1, <3>1 DEF WorkerIndexes
  <2>4. ASSUME NEW f \in Files \ lost PROVE FileRight(f)' /\ ~FoldersUnheard(f)'
    <3>1. FileRight(f) /\ ~FoldersUnheard(f)
      BY HeardNow DEF DiskInv, FilesRight
    <3> QED
      BY <2>1, <2>2, <2>3, <3>1, WorkStep
  <2>5. FoldersHeard' /\ FilesRight'
    BY <2>1, <2>4 DEF FoldersHeard, FilesRight, FoldersUnheard
  <2> QED
    BY <1>1, <2>5 DEF DiskInv
<1> QED
  BY <1>2, <1>3, <1>4 DEF Next

\* Once every event and every job is worked off, the index has of every file the
\* pipeline has not lost track of what a full rebuild would have, for any collection,
\* any load folders, any changes and any number of them.
THEOREM IndexAlwaysAsOnDisk == Spec => []IndexedAsOnDisk
<1>1. Init => DiskInv
  BY DiskInvInit
<1>2. DiskInv /\ [Next]_vars => DiskInv'
  BY DiskInvNext
<1>3. DiskInv => IndexedAsOnDisk
  BY DiskInvIndexed
<1> QED
  BY <1>1, <1>2, <1>3, PTL DEF Spec

================================================================================
