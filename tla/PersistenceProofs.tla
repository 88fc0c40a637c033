-------------------------- MODULE PersistenceProofs --------------------------
(***************************************************************************)
(* Proofs about Persistence, for every bound on records, ticks, crashes    *)
(* and I/O errors and every snapshot interval.                             *)
(***************************************************************************)
EXTENDS Persistence, TLAPS, SequenceTheorems

----------------------------------------------------------------------------
(* Type correctness.                                                       *)

(* The images the writer builds are images. *)
LEMMA FreshIsImage == ASSUME NEW t \in Nat \cup {NoHeader} PROVE FreshImage(t) \in Image
  BY RecordsAssumption DEF FreshImage, Image

LEMMA LandedIsImage ==
  ASSUME NEW f \in Image, NEW b \in SUBSET Ids PROVE Landed(f, b) \in Image
  BY DEF Landed, Image

LEMMA TornIsImage ==
  ASSUME NEW f \in Image, NEW t \in 0 .. MaxRecords + 1 PROVE [f EXCEPT !.torn = t] \in Image
  BY DEF Image

(* What an fsync, done by a timer or not, may leave behind is well typed. *)
LEMMA TimedFsyncType ==
  ASSUME JournalTypeOK, faults \in Nat, NEW f \in Image, NEW b \in SUBSET Ids, TimedFsync(f, b)
  PROVE  /\ jbuf' \in SUBSET Ids /\ jfile' \in Image /\ jsync' \in Image
         /\ jpending' \in BOOLEAN /\ durable' \in SUBSET Ids /\ faults' \in Nat
<1>1. Landed(f, b) \in Image /\ f.recs \in SUBSET Ids
  BY LandedIsImage DEF Image
<1>2. CASE NoFault /\ FsyncOf(f, b)
  BY <1>1, <1>2 DEF TimedFsync, FsyncOf, JournalTypeOK, NoFault
<1>3. CASE Fault /\ FsyncFails(f, b)
  <2>1. faults' \in Nat
    BY <1>3 DEF Fault
  <2>2. jbuf' \in SUBSET Ids /\ jfile' \in Image
    BY <1>1, <1>3 DEF FsyncFails
  <2>3. jsync' \in Image /\ durable' \in SUBSET Ids
    BY <1>3 DEF FsyncFails, JournalTypeOK
  <2> QED BY <2>1, <2>2, <2>3, TimedFsync(f, b) DEF TimedFsync
<1> QED BY <1>2, <1>3 DEF TimedFsync

(* A writer step keeps the journal's state well typed. *)
LEMMA WriterStepType ==
  ASSUME JournalTypeOK, faults \in Nat, WriterStep
  PROVE  JournalTypeOK' /\ faults' \in Nat
<1> USE DEF JournalTypeOK, Fault, NoFault
<1>1. /\ Landed(jfile, jbuf) \in Image /\ jfile.recs \in SUBSET Ids
      /\ FreshImage(jtick) \in Image /\ FreshImage(NoHeader) \in Image
      /\ [FreshImage(jtick) EXCEPT !.torn = 1] \in Image
  <2>1. FreshImage(jtick) \in Image /\ FreshImage(NoHeader) \in Image
    BY FreshIsImage
  <2>2. 1 \in 0 .. MaxRecords + 1
    BY RecordsAssumption
  <2>3. [FreshImage(jtick) EXCEPT !.torn = 1] \in Image
    BY <2>1, <2>2, TornIsImage
  <2>4. jfile.recs \in SUBSET Ids
    BY DEF Image
  <2> QED BY <2>1, <2>3, <2>4, LandedIsImage
<1>2. ASSUME NEW r \in Ids, WriteRecord(r) PROVE JournalTypeOK' /\ faults' \in Nat
  <2>1. PICK f \in {jfile, Landed(jfile, jbuf)} :
          LET b == IF f = jfile THEN jbuf \cup {r} ELSE {r} IN
          \/ /\ jfile' = f /\ jbuf' = b /\ jpending' = TRUE
             /\ UNCHANGED <<jsync, durable, faults>>
          \/ TimedFsync(f, b)
    BY <1>2 DEF WriteRecord
  <2> DEFINE b == IF f = jfile THEN jbuf \cup {r} ELSE {r}
  <2>2. f \in Image /\ b \in SUBSET Ids
    BY <1>1
  <2>3. /\ jbuf' \in SUBSET Ids /\ jfile' \in Image /\ jsync' \in Image
        /\ jpending' \in BOOLEAN /\ durable' \in SUBSET Ids /\ faults' \in Nat
    <3> HIDE DEF b
    <3>1. CASE /\ jfile' = f /\ jbuf' = b /\ jpending' = TRUE
               /\ UNCHANGED <<jsync, durable, faults>>
      BY <2>2, <3>1
    <3>2. CASE TimedFsync(f, b)
      BY <2>2, <3>2, TimedFsyncType
    <3> QED BY <2>1, <3>1, <3>2 DEF b
  <2> QED BY <1>2, <2>3 DEF WriteRecord
<1>3. ASSUME NEW r \in Ids, WriteFails(r) PROVE JournalTypeOK' /\ faults' \in Nat
  <2>1. r \in 0 .. MaxRecords + 1
    BY RecordsAssumption DEF Ids
  <2>2. [Landed(jfile, jbuf) EXCEPT !.torn = r] \in Image
    BY <1>1, <2>1, TornIsImage
  <2> QED BY <1>3, <2>2 DEF WriteFails
<1>4. CASE IdleFsync
  BY <1>4, TimedFsyncType DEF IdleFsync
<1>5. CASE RotateTruncate
  BY <1>1, <1>5 DEF RotateTruncate
<1>6. CASE RotateHeader
  BY <1>1, <1>6 DEF RotateHeader
<1>7. CASE RotateRefused
  BY <1>1, <1>7 DEF RotateRefused, FsyncFails
<1>8. CASE RotateBroken
  BY <1>1, <1>8 DEF RotateBroken
<1>9. CASE FlushDone
  BY <1>1, <1>9 DEF FlushDone, FsyncOf
<1>10. CASE FlushFails
  BY <1>1, <1>10 DEF FlushFails, FsyncFails
<1>11. CASE WriterExit
  BY <1>1, <1>11 DEF WriterExit, FsyncOf
<1> QED
  BY <1>2, <1>3, <1>4, <1>5, <1>6, <1>7, <1>8, <1>9, <1>10, <1>11 DEF WriterStep

(* A step of the snapshot writer keeps its state well typed. *)
LEMMA SnapshotStepType ==
  ASSUME SnapTypeOK, faults \in Nat, SnapshotStep
  PROVE  SnapTypeOK' /\ faults' \in Nat
<1> USE DEF SnapTypeOK, Job, Fault
<1>1. CASE WriteTmp
  BY <1>1, HeadTailProperties DEF WriteTmp
<1>2. CASE Rename
  BY <1>2 DEF Rename
<1>3. CASE WriteLost
  BY <1>3 DEF WriteLost
<1> QED BY <1>1, <1>2, <1>3 DEF SnapshotStep

(* Every image a crash leaves is an image. *)
LEMMA CrashLeavesAnImage ==
  ASSUME TypeOK, NEW e \in Outcomes
  PROVE  e \in Image
<1> USE RecordsAssumption DEF TypeOK, JournalTypeOK, Image, Ids, NoHeader
<1>1. ASSUME NEW lo \in SUBSET Ids, NEW c \in CutImages(lo, nrec + 1) PROVE c \in Image
  <2>1. PICK k \in 0 .. MaxRecords, t \in {jfile.torn, nrec + 1} :
          c = [hdr |-> jfile.hdr, recs |-> lo \cup {i \in jfile.recs \cup jbuf : i <= k},
               torn |-> t]
    BY <1>1 DEF CutImages
  <2>2. t \in 0 .. MaxRecords + 1
    OBVIOUS
  <2>3. lo \cup {i \in jfile.recs \cup jbuf : i <= k} \in SUBSET Ids
    <3> HIDE DEF Ids
    <3> QED OBVIOUS
  <2> QED BY <2>1, <2>2, <2>3
<1>2. CASE e \in CrashImages(nrec + 1)
  BY <1>1, <1>2 DEF CrashImages
<1>3. CASE e \in PowerImages(nrec + 1)
  BY <1>1, <1>3 DEF PowerImages
<1> QED BY <1>2, <1>3 DEF Outcomes

(* The initial state is well typed, and every step keeps it so. *)
LEMMA InitType == Init => TypeOK
<1> SUFFICES ASSUME Init PROVE TypeOK
  OBVIOUS
<1>1. FreshImage(0) \in Image
  BY FreshIsImage
<1>2. JournalTypeOK
  BY <1>1 DEF Init, JournalInit, JournalTypeOK
<1>3. SnapTypeOK
  BY DEF Init, SnapInit, SnapTypeOK, Job
<1>4. 0 \in 0 .. MaxRecords
  BY RecordsAssumption
<1>5. tickOf \in [Ids -> Nat] /\ rolled \in Job
  BY DEF Init, Job
<1> QED BY <1>2, <1>3, <1>4, <1>5 DEF Init, TypeOK, Phases

(* Losing the memory leaves a well-typed state behind. *)
LEMMA MemoryLostType ==
  ASSUME TypeOK, MemoryLost, jfile' \in Image, jsync' \in Image
  PROVE  TypeOK'
<1>1. JournalTypeOK'
  BY DEF TypeOK, MemoryLost, JournalTypeOK
<1>2. SnapTypeOK'
  <2>1. snapq' \in Seq(Job) /\ tmp' \in SUBSET Job
    BY DEF MemoryLost
  <2>2. snap' \in Job /\ swAlive' \in BOOLEAN
    BY DEF TypeOK, MemoryLost, SnapTypeOK
  <2> QED BY <2>1, <2>2 DEF SnapTypeOK
<1>3. crashes' \in Nat /\ phase' \in Phases
  BY DEF TypeOK, MemoryLost, Phases
<1> QED BY <1>1, <1>2, <1>3 DEF TypeOK, MemoryLost

LEMMA NextType == TypeOK /\ [Next]_vars => TypeOK'
<1> SUFFICES ASSUME TypeOK, [Next]_vars PROVE TypeOK'
  OBVIOUS
<1> USE RecordsAssumption, PersistenceAssumption DEF TypeOK
<1>1. CASE WriterNext
  BY <1>1, WriterStepType DEF WriterNext, SnapTypeOK, snapVars, simVars
<1>2. CASE SnapshotNext
  BY <1>2, SnapshotStepType DEF SnapshotNext, JournalTypeOK, journalVars, simVars
<1>3. CASE SimNext
  <2> USE DEF JournalTypeOK, SnapTypeOK, NoFault, Fault, snapVars, journalVars, Phases
  <2>1. CASE RecordDelta
    BY <2>1 DEF RecordDelta, AppendOp, Ids
  <2>2. CASE Tick
    BY <2>2 DEF Tick, AppendOp, Ids
  <2>3. CASE RollSnapshot
    <3>1. Serialized \in Job
      BY DEF Serialized, Job
    <3> QED BY <2>3, <3>1 DEF RollSnapshot, Serialize, Enqueue, CallRotate
  <2>4. CASE RollSynchronously
    <3>1. Serialized \in Job
      BY DEF Serialized, Job
    <3> QED BY <2>4, <3>1 DEF RollSynchronously, Serialize, CallRotate, CloseChannel
  <2>5. CASE RotateReturns
    BY <2>5 DEF RotateReturns, CloseChannel, CallFlush
  <2>6. CASE Shutdown
    BY <2>6 DEF Shutdown
  <2>7. CASE FlushReturns
    BY <2>7 DEF FlushReturns
  <2>8. CASE JoinSnapshotWriter
    BY <2>8 DEF JoinSnapshotWriter
  <2>9. CASE DropSim
    BY <2>9 DEF DropSim, CloseChannel
  <2>10. CASE Dropped
    BY <2>10 DEF Dropped
  <2> QED
    BY <1>3, <2>1, <2>2, <2>3, <2>4, <2>5, <2>6, <2>7, <2>8, <2>9, <2>10 DEF SimNext
<1>4. CASE ProcessCrash
  <2>1. jfile' \in Image
    BY <1>4, CrashLeavesAnImage DEF ProcessCrash, Outcomes
  <2>2. jsync' \in Image
    BY <1>4, <2>1 DEF ProcessCrash, JournalTypeOK
  <2> QED
    BY <1>4, <2>1, <2>2, MemoryLostType DEF ProcessCrash
<1>5. CASE PowerLoss
  <2>1. jfile' \in Image
    BY <1>5, CrashLeavesAnImage DEF PowerLoss, Outcomes
  <2>2. jsync' \in Image
    BY <1>5, <2>1 DEF PowerLoss, JournalTypeOK
  <2> QED
    BY <1>5, <2>1, <2>2, MemoryLostType DEF PowerLoss
<1>6. CASE Load
  <2> DEFINE R == Replay(jfile, snap)
  <2>1. R \in SUBSET Ids /\ snap \in Job
    BY DEF Replay, Readable, JournalTypeOK, SnapTypeOK, Image
  <2>2. PICK k \in {0} \cup R : clock' = IF k = 0 THEN snap.tick ELSE tickOf[k]
    BY <1>6 DEF Load
  <2>3. clock' \in Nat /\ world' \in SUBSET Ids
    BY <1>6, <2>1, <2>2 DEF Load, Job, Ids
  <2>4. jfile' \in Image /\ jsync' \in Image
    BY <1>6, <2>1 DEF Load, OpenJournal, FreshImage, Image, Job, JournalTypeOK, Ids
  <2> QED
    BY <1>6, <2>1, <2>3, <2>4 DEF Load, JournalTypeOK, SnapTypeOK, Phases
<1>7. CASE UNCHANGED vars
  BY <1>7 DEF vars, journalVars, snapVars, simVars, JournalTypeOK, SnapTypeOK
<1> QED
  BY <1>1, <1>2, <1>3, <1>4, <1>5, <1>6, <1>7 DEF Next

(* Every reachable state of the composition of the simulation thread, the
   two writer threads and the files has the declared types. *)
THEOREM TypeCorrect == Spec => []TypeOK
<1>1. Init => TypeOK
  BY InitType
<1>2. TypeOK /\ [Next]_vars => TypeOK'
  BY NextType
<1> QED BY <1>1, <1>2, PTL DEF Spec

----------------------------------------------------------------------------
(* The floor of the store.                                                 *)

(* A step that leaves the snapshots alone and takes nothing from the world
   keeps them growing. *)
LEMMA GrowingWorld ==
  ASSUME SnapshotsGrow, UNCHANGED <<snapq, tmp, snap, swAlive>>, world \subseteq world',
         ~swAlive => /\ phase' \notin {"roll", "shutroll"}
                     /\ stopping' \/ phase' = "down",
         phase' = "syncroll" => ~swAlive,
         phase' \in {"off", "down"} => Drained,
         phase' \in {"shutroll", "rotS", "flushing", "join"} => stopping'
  PROVE  SnapshotsGrow' /\ snap.body \subseteq snap'.body
  BY DEF SnapshotsGrow, Drained

(* Losing the memory drops the queue and the temporary file. *)
LEMMA MemoryLostFloor ==
  ASSUME SnapshotsGrow, MemoryLost
  PROVE  SnapshotsGrow' /\ snap.body \subseteq snap'.body
<1>1. snapq' = <<>> /\ tmp' = {} /\ snap' = snap /\ world' = world /\ phase' = "down"
  BY DEF MemoryLost
<1>2. Len(snapq') = 0
  BY <1>1
<1> QED BY <1>1, <1>2 DEF SnapshotsGrow, Drained

(* Serializing the world puts a job behind all others. *)
LEMMA EnqueueFloor ==
  ASSUME TypeOK, SnapshotsGrow, swAlive, Enqueue(Serialized),
         UNCHANGED <<world, tmp, snap, swAlive>>,
         phase' \in {"rotT", "rotS"}, phase' = "rotS" => stopping'
  PROVE  SnapshotsGrow' /\ snap.body \subseteq snap'.body
<1>1. Serialized \in Job /\ Serialized.body = world
  BY DEF TypeOK, Serialized, Job
<1>2. /\ Len(snapq') = Len(snapq) + 1
      /\ \A i \in 1 .. Len(snapq) : snapq'[i] = snapq[i]
      /\ snapq'[Len(snapq) + 1] = Serialized
      /\ Len(snapq) \in Nat
  BY <1>1, AppendProperties DEF TypeOK, SnapTypeOK, Enqueue
<1>3. ASSUME NEW i \in 1 .. Len(snapq')
      PROVE  /\ snap.body \subseteq snapq'[i].body /\ snapq'[i].body \subseteq world
             /\ \A j \in tmp : j.body \subseteq snapq'[i].body
             /\ \A k \in i .. Len(snapq') : snapq'[i].body \subseteq snapq'[k].body
  <2>1. i \in 1 .. Len(snapq) \/ i = Len(snapq) + 1
    BY <1>2
  <2>2. ASSUME NEW k \in i .. Len(snapq') PROVE k \in i .. Len(snapq) \/ k = Len(snapq) + 1
    BY <1>2
  <2> QED BY <1>1, <1>2, <2>1, <2>2 DEF SnapshotsGrow
<1> QED BY <1>3 DEF SnapshotsGrow

(* The snapshot writer moves the snapshots along in their order. *)
LEMMA SnapshotStepFloor ==
  ASSUME TypeOK, SnapshotsGrow, SnapshotNext
  PROVE  SnapshotsGrow' /\ snap.body \subseteq snap'.body
<1>0. UNCHANGED <<world, phase, stopping>>
  BY DEF SnapshotNext, simVars
<1>1. CASE WriteTmp
  <2>1. /\ snapq \in Seq(Job) /\ snapq # <<>> /\ snapq' = Tail(snapq) /\ tmp' = {Head(snapq)}
        /\ tmp = {} /\ UNCHANGED <<snap, swAlive>>
    BY <1>1 DEF WriteTmp, TypeOK, SnapTypeOK
  <2>2. /\ Len(snapq) \in Nat /\ Len(snapq) >= 1 /\ Len(snapq') = Len(snapq) - 1
        /\ \A i \in 1 .. Len(snapq') : snapq'[i] = snapq[i + 1]
        /\ tmp' = {snapq[1]}
    BY <2>1, HeadTailProperties, EmptySeq
  <2>3. swAlive
    BY <2>1 DEF SnapshotsGrow, Drained
  <2>4. ASSUME NEW i \in 1 .. Len(snapq')
        PROVE  /\ snap.body \subseteq snapq'[i].body /\ snapq'[i].body \subseteq world
               /\ snapq[1].body \subseteq snapq'[i].body
               /\ \A k \in i .. Len(snapq') : snapq'[i].body \subseteq snapq'[k].body
    <3>1. i + 1 \in 1 .. Len(snapq) /\ 1 \in 1 .. Len(snapq) /\ i + 1 \in 1 .. Len(snapq)
      BY <2>2
    <3>2. ASSUME NEW k \in i .. Len(snapq')
          PROVE k \in 1 .. Len(snapq') /\ k + 1 \in (i + 1) .. Len(snapq)
      BY <2>2
    <3> QED BY <2>2, <3>1, <3>2 DEF SnapshotsGrow
  <2>5. snap.body \subseteq snapq[1].body /\ snapq[1].body \subseteq world
    <3>1. 1 \in 1 .. Len(snapq)
      BY <2>2
    <3> QED BY <3>1 DEF SnapshotsGrow
  <2>6. phase \notin {"off", "down"}
    BY <2>1 DEF SnapshotsGrow, Drained
  <2>7. \A j \in tmp' : snap.body \subseteq j.body /\ j.body \subseteq world
    BY <2>2, <2>5
  <2> QED BY <1>0, <2>1, <2>2, <2>3, <2>4, <2>6, <2>7 DEF SnapshotsGrow
<1>2. CASE Rename
  BY <1>0, <1>2 DEF Rename, SnapshotsGrow, Drained
<1>3. CASE WriteLost
  BY <1>0, <1>3 DEF WriteLost, SnapshotsGrow, Drained
<1> QED BY <1>1, <1>2, <1>3 DEF SnapshotNext, SnapshotStep

(* Every step keeps the snapshots growing and the floor where it is or above. *)
LEMMA FloorNext ==
  ASSUME TypeOK, SnapshotsGrow, [Next]_vars
  PROVE  SnapshotsGrow' /\ snap.body \subseteq snap'.body
<1>1. CASE WriterNext
  BY <1>1, GrowingWorld DEF WriterNext, snapVars, simVars, SnapshotsGrow
<1>2. CASE SnapshotNext
  BY <1>2, SnapshotStepFloor
<1>3. CASE SimNext
  <2> USE DEF snapVars
  <2> DEFINE Dead == ~swAlive => /\ phase \notin {"roll", "shutroll"}
                                 /\ stopping \/ phase = "down"
  <2>0. /\ Dead /\ (phase = "syncroll" => ~swAlive)
        /\ phase \in {"shutroll", "rotS", "flushing", "join"} => stopping
    BY DEF SnapshotsGrow
  <2>1. CASE RecordDelta
    BY <1>3, <2>0, <2>1, GrowingWorld DEF RecordDelta
  <2>2. CASE Tick
    BY <1>3, <2>0, <2>2, GrowingWorld DEF Tick
  <2>3. CASE RollSnapshot
    <3>1. swAlive /\ (phase = "shutroll" => stopping)
      BY <2>0, <2>3 DEF RollSnapshot
    <3>2. Enqueue(Serialized) /\ UNCHANGED <<world, tmp, snap, swAlive, stopping>>
      BY <2>3 DEF RollSnapshot
    <3>3. phase' = "rotT" \/ (phase' = "rotS" /\ phase = "shutroll")
      BY <2>3 DEF RollSnapshot
    <3>4. UNCHANGED <<world, tmp, snap, swAlive>>
      BY <3>2
    <3>5. phase' \in {"rotT", "rotS"} /\ (phase' = "rotS" => stopping')
      BY <3>1, <3>2, <3>3
    <3> QED BY <3>1, <3>2, <3>4, <3>5, EnqueueFloor, Zenon
  <2>4. CASE RollSynchronously
    <3>1. UNCHANGED <<world, snapq, tmp, swAlive, stopping>> /\ phase' \in {"rotT", "dropping"}
      BY <2>4 DEF RollSynchronously
    <3>2. snap' = snap \/ snap'.body = world
      BY <2>4 DEF RollSynchronously, Serialized
    <3>3. ~swAlive /\ snapq = <<>> /\ tmp = {} /\ Len(snapq) = 0
      BY <2>4, EmptySeq DEF RollSynchronously, SnapshotsGrow, Drained
    <3>4. snap'.body \subseteq world /\ snap.body \subseteq snap'.body
      BY <3>2 DEF SnapshotsGrow
    <3>5. stopping /\ phase = "syncroll"
      BY <2>4, <3>3 DEF RollSynchronously, SnapshotsGrow
    <3> QED BY <3>1, <3>3, <3>4, <3>5 DEF SnapshotsGrow, Drained
  <2>5. CASE RotateReturns
    BY <2>0, <2>5, GrowingWorld DEF RotateReturns
  <2>6. CASE Shutdown
    BY <2>0, <2>6, GrowingWorld DEF Shutdown
  <2>7. CASE FlushReturns
    BY <2>0, <2>7, GrowingWorld DEF FlushReturns
  <2>8. CASE JoinSnapshotWriter
    <3>1. /\ UNCHANGED <<world, snapq, tmp, snap, stopping>> /\ phase' = "run" /\ stopping
          /\ snapq = <<>> /\ tmp = {} /\ Len(snapq) = 0
      BY <2>0, <2>8, EmptySeq DEF JoinSnapshotWriter, Drained
    <3> QED BY <3>1 DEF SnapshotsGrow, Drained
  <2>9. CASE DropSim
    BY <2>0, <2>9, GrowingWorld DEF DropSim
  <2>10. CASE Dropped
    BY <2>0, <2>10, GrowingWorld DEF Dropped
  <2> QED
    BY <1>3, <2>1, <2>2, <2>3, <2>4, <2>5, <2>6, <2>7, <2>8, <2>9, <2>10 DEF SimNext
<1>4. CASE ProcessCrash
  BY <1>4, MemoryLostFloor DEF ProcessCrash
<1>5. CASE PowerLoss
  BY <1>5, MemoryLostFloor DEF PowerLoss
<1>6. CASE Load
  <2>1. /\ UNCHANGED <<snapq, tmp, snap>> /\ swAlive' = TRUE /\ snap.body \subseteq world'
        /\ phase' = "run"
    BY <1>6 DEF Load
  <2>2. snapq = <<>> /\ tmp = {} /\ Len(snapq) = 0
    BY <1>6, EmptySeq DEF Load, SnapshotsGrow, Drained
  <2> QED BY <2>1, <2>2 DEF SnapshotsGrow
<1>7. CASE UNCHANGED vars
  BY <1>7, GrowingWorld DEF vars, snapVars, simVars, SnapshotsGrow
<1> QED
  BY <1>1, <1>2, <1>3, <1>4, <1>5, <1>6, <1>7 DEF Next

LEMMA FloorInit == Init => SnapshotsGrow
<1>1. Len(<<>>) = 0
  BY EmptySeq
<1> QED BY <1>1 DEF Init, SnapInit, SnapshotsGrow, Drained

(* The snapshots under way reflect more and more of the present world, in
   every reachable state. *)
THEOREM SnapshotsAlwaysGrow == Spec => []SnapshotsGrow
<1>1. Init => TypeOK /\ SnapshotsGrow
  BY InitType, FloorInit
<1>2. TypeOK /\ SnapshotsGrow /\ [Next]_vars => (TypeOK /\ SnapshotsGrow)'
  BY NextType, FloorNext
<1> QED BY <1>1, <1>2, PTL DEF Spec

(* No step, neither of the background writer nor of the synchronous roll nor
   of a crash or a load, replaces the renamed snapshot by one that holds less. *)
THEOREM FloorNeverRetreats == Spec => DurableFloorNeverRetreats
<1>1. TypeOK /\ SnapshotsGrow /\ [Next]_vars => [snap.body \subseteq snap'.body]_vars
  BY FloorNext
<1> QED
  BY <1>1, TypeCorrect, SnapshotsAlwaysGrow, PTL DEF Spec, DurableFloorNeverRetreats

----------------------------------------------------------------------------
(* What the threads keep true between them: who waits for whom, in which   *)
(* order snapshots and records are on their way, what a crash leaves in    *)
(* memory and on disk.  The theorems on replay build on these invariants.  *)

Below(X, Y) == \A x \in X, y \in Y : x < y

----------------------------------------------------------------------------
(* Who waits for whom.                                                     *)

(* The simulation thread blocks in a roll with the world it serialized, the
   journal's writer empties its channel before it rotates or ends, and dead
   threads leave nothing in memory. *)
Blocking ==
  /\ phase \in {"rotT", "rotS", "flushing", "join"} => world = rolled.body
  /\ jop = "rotate" => phase \in {"rotT", "rotS"} /\ jtick = rolled.tick
  /\ phase \in {"rotT", "rotS"} => jop \in {"rotate", "ok", "err"}
  /\ phase \in {"rotT", "rotS"} /\ jop # "rotate" => jq = {}
  /\ phase \in {"rotT", "rotS"} /\ jop = "ok" => jbuf = {}
  /\ phase \in {"flushing", "join"} => jq = {} /\ jbuf = {}
  /\ jthread = "truncated" => jop = "rotate" /\ jq = {} /\ jbuf = {} /\ jfile = FreshImage(NoHeader)
  /\ jthread = "dead" <=> phase = "down"
  /\ jthread = "exited" => phase \in {"dropping", "off"}
  /\ phase = "off" => jthread = "exited"
  /\ jthread \in {"dead", "exited"} => jq = {} /\ jbuf = {}
  /\ jop = "closed" <=> phase \in {"dropping", "off"}
  /\ jop = "flush" => phase = "flushing"

LEMMA BlockingInit == Init => Blocking
  BY DEF Init, JournalInit, Blocking

LEMMA BlockingWriter == ASSUME TypeOK, Blocking, WriterNext PROVE Blocking'
<1> USE DEF Blocking
<1>0. UNCHANGED <<phase, world, rolled>>
  BY DEF WriterNext, simVars
<1>1. ASSUME NEW r \in Ids, WriteRecord(r) PROVE Blocking'
  <2>1. UNCHANGED <<jop, jtick, jthread>> /\ jthread = "loop" /\ jq # {} /\ jq' \subseteq jq
    BY <1>1 DEF WriteRecord
  <2>2. phase \notin {"flushing", "join"} /\ ~(phase \in {"rotT", "rotS"} /\ jop # "rotate")
    BY <2>1
  <2> QED BY <1>0, <2>1, <2>2
<1>2. ASSUME NEW r \in Ids, WriteFails(r) PROVE Blocking'
  <2>1. UNCHANGED <<jop, jtick, jthread>> /\ jthread = "loop" /\ jq # {} /\ jq' \subseteq jq
    BY <1>2 DEF WriteFails
  <2>2. phase \notin {"flushing", "join"} /\ ~(phase \in {"rotT", "rotS"} /\ jop # "rotate")
    BY <2>1
  <2> QED BY <1>0, <2>1, <2>2
<1>3. CASE IdleFsync
  <2>1. UNCHANGED <<jop, jtick, jthread, jq>> /\ jthread = "loop" /\ (jbuf = {} => jbuf' = {})
    BY <1>3 DEF IdleFsync, TimedFsync, FsyncOf, FsyncFails
  <2> QED BY <1>0, <2>1
<1>4. CASE RotateTruncate
  BY <1>0, <1>4 DEF RotateTruncate
<1>5. CASE RotateHeader
  BY <1>0, <1>5 DEF RotateHeader
<1>6. CASE RotateRefused
  BY <1>0, <1>6 DEF RotateRefused
<1>7. CASE RotateBroken
  BY <1>0, <1>7 DEF RotateBroken
<1>8. CASE FlushDone
  BY <1>0, <1>8 DEF FlushDone, FsyncOf
<1>9. CASE FlushFails
  BY <1>0, <1>9 DEF FlushFails, FsyncFails
<1>10. CASE WriterExit
  BY <1>0, <1>10 DEF WriterExit, FsyncOf
<1> QED BY <1>1, <1>2, <1>3, <1>4, <1>5, <1>6, <1>7, <1>8, <1>9, <1>10 DEF WriterNext, WriterStep

LEMMA BlockingKept == ASSUME TypeOK, Blocking, [Next]_vars PROVE Blocking'
<1> USE DEF Blocking
<1>1. CASE WriterNext
  BY <1>1, BlockingWriter
<1>2. CASE SnapshotNext
  BY <1>2 DEF SnapshotNext, journalVars, simVars
<1>3. CASE RecordDelta
  BY <1>3 DEF RecordDelta
<1>4. CASE Tick
  BY <1>4 DEF Tick
<1>5. CASE RollSnapshot
  BY <1>5 DEF RollSnapshot, Serialize, Serialized, CallRotate
<1>6. CASE RollSynchronously
  BY <1>6 DEF RollSynchronously, Serialize, Serialized, CallRotate, CloseChannel
<1>7. CASE RotateReturns
  BY <1>7 DEF RotateReturns, CloseChannel, CallFlush
<1>8. CASE Shutdown
  BY <1>8 DEF Shutdown, journalVars
<1>9. CASE FlushReturns
  BY <1>9 DEF FlushReturns
<1>10. CASE JoinSnapshotWriter
  BY <1>10 DEF JoinSnapshotWriter, journalVars
<1>11. CASE DropSim
  BY <1>11 DEF DropSim, CloseChannel
<1>12. CASE Dropped
  BY <1>12 DEF Dropped, journalVars
<1>13. CASE ProcessCrash \/ PowerLoss
  BY <1>13 DEF ProcessCrash, PowerLoss, MemoryLost
<1>14. CASE Load
  BY <1>14 DEF Load
<1>15. CASE UNCHANGED vars
  BY <1>15 DEF vars, journalVars, simVars
<1> QED
  BY <1>1, <1>2, <1>3, <1>4, <1>5, <1>6, <1>7, <1>8, <1>9, <1>10, <1>11, <1>12, <1>13, <1>14, <1>15
  DEF Next, SimNext

----------------------------------------------------------------------------
(* One order.                                                              *)

(* Records move from the channel to the buffer to the file in the order of
   their numbers, and what is fsynced is the beginning of the file, or comes
   from the file before it. *)
InOrder ==
  /\ Below(jfile.recs \cup jsync.recs, jbuf \cup jq) /\ Below(jbuf, jq)
  /\ \A i \in jfile.recs, j \in jsync.recs : i <= j => i \in jsync.recs
  /\ jfile.recs \cup jsync.recs \cup jbuf \cup jq \subseteq 1 .. nrec
  /\ world \cup durable \cup dropped \subseteq 1 .. nrec
  /\ jbuf \cup jq \subseteq world

(* The snapshots that exist anywhere, the one last serialized or loaded
   included. *)
Snaps == {snap, rolled} \cup tmp \cup {snapq[i] : i \in 1 .. Len(snapq)}

Memory == <<world, clock, nrec, tickOf, rolled, sameTick>>

LEMMA LandedFields ==
  ASSUME NEW f \in Image, NEW b \in SUBSET Ids
  PROVE  /\ Landed(f, b).hdr = f.hdr /\ Landed(f, b).torn = f.torn
         /\ Landed(f, b).recs = f.recs \cup b
  BY DEF Landed, Image

(* What every step of the journal's writer outside a rotation does: it takes
   records from the front of the channel, which reach the buffer or the file
   or are dropped; an fsync covers all of the file; an error of the last
   flush loses the buffer. *)
Advances(Q) ==
  /\ jthread = "loop" /\ jthread' \in {"loop", "exited"}
  /\ jq' = jq \ Q /\ Q \subseteq jq /\ Below(Q, jq')
  /\ jfile'.hdr = jfile.hdr /\ jfile.recs \subseteq jfile'.recs
  /\ jfile'.recs \cup jbuf' \subseteq jfile.recs \cup jbuf \cup Q
  /\ \A i \in jfile.recs \cup jbuf \cup Q :
       \/ i \in jfile'.recs \cup jbuf' \cup dropped'
       \/ faults' # 0 /\ jthread' = "exited" /\ Below(jfile'.recs \cup jbuf', {i})
  /\ Below(jfile'.recs, jbuf')
  /\ \/ jfile'.torn = jfile.torn
     \/ jfile.torn = 0 /\ jfile'.torn \in Q /\ Below(jfile'.recs, Q) /\ jbuf' = {}
  /\ dropped \subseteq dropped' /\ dropped' \subseteq dropped \cup Q
  /\ faults' = 0 => dropped' = dropped /\ jfile'.torn = jfile.torn
  /\ \/ UNCHANGED <<jsync, durable>>
     \/ jsync' = jfile' /\ jbuf' = {} /\ jfile'.torn = jfile.torn /\ durable' = durable \cup jfile'.recs

LEMMA FaultCounts == ASSUME TypeOK, Fault PROVE faults' # 0
  BY DEF TypeOK, Fault

(* A timed fsync advances with what was put in the buffer or the file. *)
LEMMA TimedFsyncAdvances ==
  ASSUME TypeOK, InOrder, jthread = "loop", jthread' = "loop", dropped' = dropped,
         NEW Q \in SUBSET jq, jq' = jq \ Q, Below(Q, jq'),
         NEW f \in Image, NEW b \in SUBSET Ids, f.hdr = jfile.hdr, f.torn = jfile.torn,
         jfile.recs \subseteq f.recs, f.recs \cup b = jfile.recs \cup jbuf \cup Q, Below(f.recs, b),
         TimedFsync(f, b)
  PROVE  Advances(Q)
<1>1. /\ Landed(f, b).hdr = f.hdr /\ Landed(f, b).torn = f.torn
      /\ Landed(f, b).recs = f.recs \cup b
  BY LandedFields
<1>2. CASE FsyncOf(f, b)
  BY <1>1, <1>2 DEF FsyncOf, Advances, Below
<1>3. CASE FsyncFails(f, b)
  BY <1>1, <1>3 DEF FsyncFails, Advances, Below
<1> QED BY <1>2, <1>3 DEF TimedFsync

LEMMA WriterAdvances ==
  ASSUME TypeOK, InOrder, WriterNext
  PROVE  (\E Q \in SUBSET jq : Advances(Q)) \/ RotateTruncate \/ RotateHeader \/ RotateBroken
<1> USE DEF Below
<1>0. /\ jfile \in Image /\ jbuf \in SUBSET Ids /\ jq \in SUBSET Ids /\ jfile.recs \in SUBSET Ids
      /\ Landed(jfile, jbuf) \in Image
      /\ Landed(jfile, jbuf).hdr = jfile.hdr /\ Landed(jfile, jbuf).torn = jfile.torn
      /\ Landed(jfile, jbuf).recs = jfile.recs \cup jbuf
      /\ jfile = Landed(jfile, jbuf) => jbuf \subseteq jfile.recs
  BY LandedFields, LandedIsImage DEF TypeOK, JournalTypeOK, Image
<1>1. /\ Below(jfile.recs, jbuf) /\ Below(jbuf, jq) /\ Below(jfile.recs, jq)
      /\ \A i \in jfile.recs : i \notin jbuf
  BY <1>0 DEF InOrder, Ids
<1>2. ASSUME NEW r \in Ids, WriteRecord(r) PROVE Advances({r})
  <2>1. /\ jq' = jq \ {r} /\ {r} \in SUBSET jq /\ Below({r}, jq') /\ jthread = "loop"
        /\ UNCHANGED <<jthread, dropped>>
    BY <1>0, <1>2 DEF WriteRecord, Ids
  <2>2. PICK f \in {jfile, Landed(jfile, jbuf)} :
          LET b == IF f = jfile THEN jbuf \cup {r} ELSE {r} IN
          \/ /\ jfile' = f /\ jbuf' = b /\ jpending' = TRUE
             /\ UNCHANGED <<jsync, durable, faults>>
          \/ TimedFsync(f, b)
    BY <1>2 DEF WriteRecord
  <2>3. PICK b : b = IF f = jfile THEN jbuf \cup {r} ELSE {r}
    OBVIOUS
  <2>4. /\ f \in Image /\ b \in SUBSET Ids /\ f.hdr = jfile.hdr /\ f.torn = jfile.torn
        /\ jfile.recs \subseteq f.recs /\ f.recs \cup b = jfile.recs \cup jbuf \cup {r}
        /\ Below(f.recs, b)
    BY <1>0, <1>1, <2>1, <2>2, <2>3
  <2>5. CASE /\ jfile' = f /\ jbuf' = b
             /\ UNCHANGED <<jsync, durable, faults>>
    BY <2>1, <2>4, <2>5 DEF Advances
  <2>6. CASE TimedFsync(f, b)
    <3> HIDE DEF Below
    <3> QED BY <2>1, <2>4, <2>6, TimedFsyncAdvances
  <2> QED BY <2>2, <2>3, <2>5, <2>6
<1>3. ASSUME NEW r \in Ids, WriteFails(r) PROVE Advances({r})
  <2>1. /\ jq' = jq \ {r} /\ {r} \in SUBSET jq /\ Below({r}, jq') /\ jthread = "loop" /\ faults' # 0
        /\ UNCHANGED <<jthread, jsync, durable>> /\ dropped' = dropped \cup {r}
    BY <1>0, <1>3, FaultCounts DEF WriteFails, Ids
  <2>2. CASE UNCHANGED <<jfile, jbuf>>
    BY <1>1, <2>1, <2>2 DEF Advances
  <2>3. CASE jfile.torn = 0 /\ jfile' = [Landed(jfile, jbuf) EXCEPT !.torn = r] /\ jbuf' = {}
    <3>1. jfile'.hdr = jfile.hdr /\ jfile'.recs = jfile.recs \cup jbuf /\ jfile'.torn = r
      BY <1>0, <2>3 DEF Image
    <3>2. Below(jfile'.recs, {r})
      BY <1>1, <2>1, <3>1
    <3> QED BY <1>1, <2>1, <2>3, <3>1, <3>2 DEF Advances
  <2> QED BY <1>3, <2>2, <2>3 DEF WriteFails
<1>4. CASE IdleFsync
  <2>1. /\ UNCHANGED <<jq, jthread, dropped>> /\ jthread = "loop" /\ TimedFsync(jfile, jbuf)
    BY <1>4 DEF IdleFsync
  <2>2. {} \in SUBSET jq /\ jq' = jq \ {} /\ jfile.recs \cup jbuf = jfile.recs \cup jbuf \cup {} /\ Below({}, jq')
    BY <2>1
  <2>3. Advances({})
    <3> HIDE DEF Below
    <3> QED BY <1>0, <1>1, <2>1, <2>2, TimedFsyncAdvances
  <2> QED BY <2>2, <2>3
<1>5. CASE RotateRefused
  <2>1. UNCHANGED <<jq, jthread, dropped>> /\ jthread = "loop" /\ faults' # 0 /\ FsyncFails(jfile, jbuf)
    BY <1>5, FaultCounts DEF RotateRefused
  <2>2. Advances({})
    BY <1>0, <1>1, <2>1 DEF Advances, FsyncFails
  <2> QED BY <2>2
<1>6. CASE FlushDone
  <2>1. UNCHANGED <<jq, jthread, dropped>> /\ jthread = "loop" /\ FsyncOf(jfile, jbuf)
    BY <1>6 DEF FlushDone
  <2>2. Advances({})
    BY <1>0, <1>1, <2>1 DEF Advances, FsyncOf
  <2> QED BY <2>2
<1>7. CASE FlushFails
  <2>1. UNCHANGED <<jq, jthread, dropped>> /\ jthread = "loop" /\ faults' # 0 /\ FsyncFails(jfile, jbuf)
    BY <1>7, FaultCounts DEF FlushFails
  <2>2. Advances({})
    BY <1>0, <1>1, <2>1 DEF Advances, FsyncFails
  <2> QED BY <2>2
<1>8. CASE WriterExit
  <2>1. UNCHANGED <<jq, dropped>> /\ jthread = "loop" /\ jthread' = "exited"
    BY <1>8 DEF WriterExit
  <2>2. CASE FsyncOf(jfile, jbuf)
    BY <1>0, <1>1, <2>1, <2>2 DEF Advances, FsyncOf
  <2>3. CASE ~FsyncOf(jfile, jbuf)
    <3>1. Fault /\ jfile' \in {jfile, Landed(jfile, jbuf)} /\ jbuf' = {} /\ UNCHANGED <<jsync, durable>>
      BY <1>8, <2>3 DEF WriterExit
    <3>2. faults' # 0
      BY <3>1, FaultCounts
    <3> QED BY <1>0, <1>1, <2>1, <3>1, <3>2 DEF Advances
  <2> QED BY <2>2, <2>3
<1> QED BY <1>2, <1>3, <1>4, <1>5, <1>6, <1>7, <1>8 DEF WriterNext, WriterStep, WriteRecord, WriteFails

----------------------------------------------------------------------------
(* The other steps, by what they do to records and snapshots.              *)

Files == <<jq, jbuf, jfile, jsync, durable, dropped, jthread>>

(* The snapshot's writer moves snapshots along or loses one. *)
Forwards == Snaps' \subseteq Snaps /\ UNCHANGED <<phase, Files, Memory>>

(* A delta or a Tick marker is recorded. *)
RecordsOne ==
  /\ phase = "run" /\ phase' \in {"run", "roll", "syncroll"}
  /\ nrec' = nrec + 1
  /\ world' = world \cup {nrec + 1} /\ jq' = jq \cup {nrec + 1}
  /\ \/ clock' = clock /\ tickOf' = tickOf
     \/ clock' = clock + 1 /\ tickOf' = [tickOf EXCEPT ![nrec + 1] = clock + 1]
  /\ nrec + 1 \in Ids
  /\ Snaps' = Snaps
  /\ UNCHANGED <<jbuf, jfile, jsync, durable, dropped, jthread, rolled, sameTick, faults>>

(* The world is serialized. *)
Serializes ==
  /\ phase \in {"roll", "syncroll", "shutroll"}
  /\ phase' = "rotT" => phase \in {"roll", "syncroll"}
  /\ Serialize
  /\ Snaps' \subseteq Snaps \cup {Serialized}
  /\ UNCHANGED <<Files, world, clock, nrec, tickOf>>

(* The phases of Sim::shutdown that follow the serialization. *)
Stops == {"rotS", "flushing", "join"}

(* The simulation thread goes on. *)
Idles ==
  /\ phase' = "rotT" => phase = "rotT"
  /\ phase \in Stops => phase' \in Stops \/ jop = "err" \/ Drained
  /\ Snaps' = Snaps
  /\ UNCHANGED <<Files, Memory, faults>>

(* e is what a crash may leave of the file: a beginning of what is in the file
   and in the buffer. *)
IsCut(e) ==
  /\ e.hdr = jfile.hdr
  /\ e.recs \subseteq jfile.recs \cup jbuf
  /\ \A i \in jfile.recs \cup jbuf, j \in e.recs : i <= j => i \in e.recs
  /\ e.torn = jfile.torn \/ (jfile.torn = 0 /\ e.torn = nrec + 1)
  /\ SameFile => jsync.recs \subseteq e.recs

Crashes ==
  /\ \/ IsCut(jfile') /\ jfile.recs \subseteq jfile'.recs /\ jsync' = jsync
     \/ (IsCut(jfile') \/ jfile' = jsync) /\ jsync' = jfile'
  /\ jq' = {} /\ jbuf' = {}
  /\ jthread' = "dead" /\ phase' = "down"
  /\ Snaps' \subseteq Snaps
  /\ UNCHANGED <<durable, dropped, Memory, faults>>

LEMMA CutIs ==
  ASSUME TypeOK, InOrder, NEW lo \in SUBSET jfile.recs,
         \A i \in jfile.recs, j \in lo : i <= j => i \in lo,
         SameFile => jsync.recs \subseteq lo,
         NEW e \in CutImages(lo, nrec + 1)
  PROVE  IsCut(e) /\ lo \subseteq e.recs
<1>0. jfile.recs \in SUBSET Int /\ jbuf \in SUBSET Int /\ Below(jfile.recs, jbuf)
  BY DEF TypeOK, JournalTypeOK, Image, Ids, InOrder, Below
<1>1. PICK k \in 0 .. MaxRecords, t \in {jfile.torn, nrec + 1} :
        e = [hdr |-> jfile.hdr, recs |-> lo \cup {i \in jfile.recs \cup jbuf : i <= k},
             torn |-> t]
  BY DEF CutImages
<1>2. e.torn = jfile.torn \/ (jfile.torn = 0 /\ e.torn = nrec + 1)
  BY <1>1 DEF CutImages
<1>3. k \in Int
  BY <1>1
<1>4. e.hdr = jfile.hdr /\ e.recs = lo \cup {i \in jfile.recs \cup jbuf : i <= k}
  BY <1>1
<1>5. ASSUME NEW i \in jfile.recs \cup jbuf, NEW j \in e.recs, i <= j PROVE i \in e.recs
  <2>1. i \in Int /\ j \in Int
    BY <1>0, <1>4
  <2>2. CASE j \in lo
    <3>1. i \in jfile.recs
      BY <1>0, <1>5, <2>1, <2>2 DEF Below
    <3> QED BY <1>4, <1>5, <2>2, <3>1
  <2>3. CASE j \notin lo
    <3>1. i <= k
      BY <1>3, <1>4, <1>5, <2>1, <2>3
    <3> QED BY <1>4, <3>1
  <2> QED BY <2>2, <2>3
<1> QED BY <1>2, <1>4, <1>5 DEF IsCut

LEMMA OutcomeIs ==
  ASSUME TypeOK, InOrder, NEW e \in Outcomes
  PROVE  e = jsync \/ IsCut(e)
<1>0. \A i \in jfile.recs, j \in jsync.recs : i <= j => i \in jsync.recs
  BY DEF InOrder
<1>1. CASE e \in CrashImages(nrec + 1)
  BY <1>1, CutIs DEF CrashImages, SameFile
<1>2. CASE e \in CutImages(IF SameFile THEN jsync.recs ELSE {}, nrec + 1)
  <2>1. CASE SameFile
    BY <1>0, <1>2, <2>1, CutIs DEF SameFile
  <2>2. CASE ~SameFile
    BY <1>2, <2>2, CutIs
  <2> QED BY <2>1, <2>2
<1> QED BY <1>1, <1>2 DEF Outcomes, PowerImages

LEMMA CrashIs ==
  ASSUME TypeOK, InOrder, ProcessCrash \/ PowerLoss
  PROVE  Crashes
<1>1. Snaps' = {snap, rolled} /\ jq' = {} /\ jbuf' = {} /\ jthread' = "dead" /\ phase' = "down"
      /\ UNCHANGED <<durable, dropped, Memory, faults>>
  <2>1. snapq' = <<>> /\ Len(snapq') = 0 /\ tmp' = {} /\ snap' = snap /\ rolled' = rolled
    BY EmptySeq DEF ProcessCrash, PowerLoss, MemoryLost
  <2>2. Snaps' = {snap, rolled}
    BY <2>1 DEF Snaps
  <2> QED BY <2>2 DEF ProcessCrash, PowerLoss, MemoryLost, Memory
<1>2. CASE ProcessCrash
  <2>1. jfile' \in CutImages(jfile.recs, nrec + 1) /\ jsync' = jsync
    BY <1>2 DEF ProcessCrash, CrashImages
  <2>2. IsCut(jfile') /\ jfile.recs \subseteq jfile'.recs
    BY <2>1, CutIs DEF SameFile
  <2> QED BY <1>1, <2>1, <2>2 DEF Crashes, Snaps
<1>3. CASE PowerLoss
  <2>1. jfile' \in Outcomes /\ jsync' = jfile'
    BY <1>3 DEF PowerLoss, Outcomes
  <2>2. jfile' = jsync \/ IsCut(jfile')
    BY <2>1, OutcomeIs
  <2> QED BY <1>1, <2>1, <2>2 DEF Crashes, Snaps
<1> QED BY <1>2, <1>3

LEMMA WriterLeaves ==
  ASSUME WriterNext
  PROVE  Snaps' = Snaps /\ UNCHANGED Memory
  BY DEF WriterNext, snapVars, simVars, Snaps, Memory

LEMMA Steps ==
  ASSUME TypeOK, InOrder, [Next]_vars
  PROVE  WriterNext \/ Forwards \/ RecordsOne \/ Serializes \/ Idles \/ Crashes \/ Load
<1> USE DEF Files, Memory
<1>1. CASE SnapshotNext
  <2>1. UNCHANGED <<phase, Files, Memory>>
    BY <1>1 DEF SnapshotNext, journalVars, simVars
  <2>2. CASE WriteTmp
    <3>1. snapq \in Seq(Job) /\ snapq # <<>> /\ snapq' = Tail(snapq) /\ tmp' = {Head(snapq)} /\ snap' = snap
      BY <2>2 DEF WriteTmp, TypeOK, SnapTypeOK
    <3>2. /\ Len(snapq) \in Nat /\ Len(snapq) >= 1 /\ Len(snapq') = Len(snapq) - 1
          /\ \A i \in 1 .. Len(snapq') : snapq'[i] = snapq[i + 1]
          /\ tmp' = {snapq[1]}
      BY <3>1, HeadTailProperties, EmptySeq
    <3>3. 1 \in 1 .. Len(snapq) /\ \A i \in 1 .. Len(snapq') : i + 1 \in 1 .. Len(snapq)
      BY <3>2
    <3>4. Snaps' \subseteq Snaps
      BY <2>1, <3>1, <3>2, <3>3 DEF Snaps
    <3> QED BY <2>1, <3>4 DEF Forwards
  <2>3. CASE Rename \/ WriteLost
    <3>1. Snaps' \subseteq Snaps
      BY <2>1, <2>3 DEF Snaps, Rename, WriteLost
    <3> QED BY <2>1, <3>1 DEF Forwards
  <2> QED BY <1>1, <2>2, <2>3 DEF SnapshotNext, SnapshotStep
<1>2. CASE RecordDelta
  <2>1. nrec + 1 \in Ids
    BY <1>2, RecordsAssumption DEF RecordDelta, TypeOK, Ids
  <2> QED BY <1>2, <2>1 DEF RecordDelta, AppendOp, snapVars, NoFault, Snaps, RecordsOne
<1>3. CASE Tick
  <2>1. nrec + 1 \in Ids
    BY <1>3, RecordsAssumption DEF Tick, TypeOK, Ids
  <2> QED BY <1>3, <2>1 DEF Tick, AppendOp, snapVars, NoFault, Snaps, RecordsOne
<1>4. CASE RollSnapshot
  <2>1. Serialized \in Job
    BY DEF TypeOK, Serialized, Job
  <2>2. /\ Len(snapq') = Len(snapq) + 1
        /\ \A i \in 1 .. Len(snapq) : snapq'[i] = snapq[i]
        /\ snapq'[Len(snapq) + 1] = Serialized
        /\ Len(snapq) \in Nat
    BY <1>4, <2>1, AppendProperties DEF TypeOK, SnapTypeOK, Enqueue, RollSnapshot
  <2>3. \A i \in 1 .. Len(snapq') : i \in 1 .. Len(snapq) \/ i = Len(snapq) + 1
    BY <2>2
  <2>4. rolled' = Serialized /\ UNCHANGED <<snap, tmp>>
    BY <1>4 DEF RollSnapshot, Serialize
  <2>5. Snaps' \subseteq Snaps \cup {Serialized}
    BY <2>2, <2>3, <2>4 DEF Snaps
  <2> QED BY <1>4, <2>5 DEF RollSnapshot, Serializes
<1>5. CASE RollSynchronously
  <2>1. rolled' = Serialized /\ UNCHANGED <<snapq, tmp>> /\ (snap' = snap \/ snap' = Serialized)
    BY <1>5 DEF RollSynchronously, Serialize
  <2>2. Snaps' \subseteq Snaps \cup {Serialized}
    BY <2>1 DEF Snaps
  <2> QED BY <1>5, <2>2 DEF RollSynchronously, Serializes
<1>6. CASE RotateReturns \/ Shutdown \/ FlushReturns \/ JoinSnapshotWriter \/ DropSim \/ Dropped \/ UNCHANGED vars
  <2>1. UNCHANGED <<Files, Memory, faults>>
    BY <1>6 DEF RotateReturns, Shutdown, FlushReturns, JoinSnapshotWriter, DropSim, Dropped, vars,
         journalVars, simVars, NoFault
  <2>2. UNCHANGED <<snapq, tmp, snap, rolled>>
    BY <1>6 DEF RotateReturns, Shutdown, FlushReturns, JoinSnapshotWriter, DropSim, Dropped, vars,
         snapVars, simVars
  <2>3. /\ phase' = "rotT" => phase = "rotT"
        /\ phase \in Stops => phase' \in Stops \/ jop = "err" \/ Drained
    BY <1>6 DEF RotateReturns, Shutdown, FlushReturns, JoinSnapshotWriter, DropSim, Dropped, vars,
         simVars, Stops
  <2> QED BY <2>1, <2>2, <2>3 DEF Idles, Snaps
<1>7. CASE ProcessCrash \/ PowerLoss
  BY <1>7, CrashIs
<1> QED BY <1>1, <1>2, <1>3, <1>4, <1>5, <1>6, <1>7 DEF Next, SimNext

LEMMA InOrderInit == Init => InOrder
  BY DEF Init, JournalInit, SnapInit, InOrder, Below, FreshImage

(* What load_with_content reads from the files. *)
LEMMA LoadReads ==
  ASSUME TypeOK, Load
  PROVE  /\ world' = snap.body \cup Replay(jfile, snap)
         /\ Replay(jfile, snap) \subseteq jfile.recs
         /\ jfile.hdr = snap.tick => UNCHANGED <<jfile, jsync>> /\ Replay(jfile, snap) = Readable(jfile)
         /\ jfile.hdr # snap.tick => /\ jfile' = FreshImage(snap.tick) /\ jsync' = FreshImage(snap.tick)
                                     /\ Replay(jfile, snap) = {}
         /\ durable' = durable \cap world' /\ dropped' = dropped \cap world'
         /\ rolled' = snap /\ UNCHANGED <<jq, jbuf, snapq, tmp, snap, nrec, tickOf, sameTick, faults>>
  BY DEF Load, Replay, Readable, OpenJournal

LEMMA InOrderKept ==
  ASSUME TypeOK, SnapshotsGrow, Blocking, InOrder, [Next]_vars
  PROVE  InOrder'
<1>0. /\ jfile.recs \in SUBSET Int /\ jsync.recs \in SUBSET Int /\ jbuf \in SUBSET Int
      /\ jq \in SUBSET Int /\ nrec \in Nat
  BY DEF TypeOK, JournalTypeOK, Image, Ids
<1>1. /\ Below(jfile.recs \cup jsync.recs, jbuf \cup jq) /\ Below(jbuf, jq)
      /\ \A i \in jfile.recs, j \in jsync.recs : i <= j => i \in jsync.recs
      /\ jfile.recs \cup jsync.recs \cup jbuf \cup jq \subseteq 1 .. nrec
      /\ world \cup durable \cup dropped \subseteq 1 .. nrec
      /\ jbuf \cup jq \subseteq world
  BY DEF InOrder
<1>2. ASSUME WriterNext, NEW Q \in SUBSET jq, Advances(Q) PROVE InOrder'
  <2>0. UNCHANGED <<world, nrec>>
    BY <1>2, WriterLeaves DEF Memory
  <2>1. /\ jq' = jq \ Q /\ Below(Q, jq') /\ jfile.recs \subseteq jfile'.recs
        /\ jfile'.recs \cup jbuf' \subseteq jfile.recs \cup jbuf \cup Q
        /\ Below(jfile'.recs, jbuf')
        /\ dropped' \subseteq dropped \cup Q
    BY <1>2 DEF Advances
  <2>2. Below(jfile'.recs \cup jbuf', jq') /\ Below(jsync.recs, jq')
    BY <1>1, <2>1 DEF Below
  <2>3. CASE UNCHANGED <<jsync, durable>>
    <3>1. Below(jsync.recs, jbuf') \/ jbuf' \cap jfile.recs # {}
      BY <1>1, <2>1 DEF Below
    <3>2. \A i \in jbuf' : i \notin jfile.recs
      BY <1>0, <2>1 DEF Below
    <3>3. Below(jsync.recs, jbuf')
      BY <3>1, <3>2
    <3>4. \A i \in jfile'.recs, j \in jsync.recs : i <= j => i \in jsync.recs
      <4>1. \A i \in jfile'.recs, j \in jsync.recs : i \in jfile.recs \/ j < i
        BY <1>1, <2>1 DEF Below
      <4>2. \A i \in jfile'.recs : i \in Int
        BY <1>0, <2>1
      <4> QED BY <1>0, <1>1, <4>1, <4>2
    <3> QED BY <1>1, <2>0, <2>1, <2>2, <2>3, <3>3, <3>4 DEF InOrder, Below
  <2>4. CASE jsync' = jfile' /\ jbuf' = {} /\ durable' = durable \cup jfile'.recs
    BY <1>1, <2>0, <2>1, <2>2, <2>4 DEF InOrder, Below
  <2> QED BY <1>2, <2>3, <2>4 DEF Advances
<1>3. CASE WriterNext /\ RotateTruncate
  <2>1. /\ Landed(jfile, jbuf).recs = jfile.recs \cup jbuf /\ jfile'.recs = {}
        /\ jsync' = Landed(jfile, jbuf) /\ jbuf' = {} /\ jq' = {} /\ jq = {} /\ dropped' = dropped
        /\ durable' = durable \cup jfile.recs \cup jbuf
    BY <1>3, LandedFields DEF TypeOK, JournalTypeOK, RotateTruncate, FreshImage
  <2>2. UNCHANGED <<world, nrec>>
    BY <1>3, WriterLeaves DEF Memory
  <2> QED BY <1>1, <2>1, <2>2 DEF InOrder, Below
<1>4. CASE WriterNext /\ (RotateHeader \/ RotateBroken)
  <2>1. UNCHANGED <<world, nrec>> /\ jq = {} /\ jbuf = {}
    BY <1>4, WriterLeaves DEF Memory, Blocking, RotateHeader, RotateBroken
  <2>2. /\ jfile'.recs = {} /\ UNCHANGED <<jq, jbuf, durable, dropped>>
        /\ jsync' = jsync \/ jsync'.recs = {}
    BY <1>4 DEF RotateHeader, RotateBroken, FreshImage
  <2> QED BY <1>1, <2>1, <2>2 DEF InOrder, Below
<1>5. CASE Forwards \/ Serializes \/ Idles
  <2>1. UNCHANGED <<jq, jbuf, jfile, jsync, durable, dropped, world, nrec>>
    BY <1>5 DEF Forwards, Serializes, Idles, Files, Memory
  <2> QED BY <1>1, <2>1 DEF InOrder, Below
<1>6. CASE RecordsOne
  <2>1. /\ jq' = jq \cup {nrec + 1} /\ world' = world \cup {nrec + 1} /\ nrec' = nrec + 1
        /\ UNCHANGED <<jbuf, jfile, jsync, durable, dropped>>
    BY <1>6 DEF RecordsOne
  <2>2. \A i \in 1 .. nrec : i < nrec + 1 /\ i \in 1 .. nrec + 1
    BY <1>0
  <2> QED BY <1>0, <1>1, <2>1, <2>2 DEF InOrder, Below
<1>7. CASE Crashes
  <2>1. UNCHANGED <<world, nrec, durable, dropped>> /\ jq' = {} /\ jbuf' = {}
    BY <1>7 DEF Crashes, Memory
  <2>2. CASE IsCut(jfile') /\ jfile.recs \subseteq jfile'.recs /\ jsync' = jsync
    <3>1. jfile'.recs \subseteq jfile.recs \cup jbuf
      BY <2>2 DEF IsCut
    <3>2. \A i \in jfile'.recs, j \in jsync.recs : i <= j => i \in jsync.recs
      <4>1. \A i \in jfile'.recs, j \in jsync.recs : i \in jfile.recs \/ j < i
        BY <1>1, <3>1 DEF Below
      <4>2. \A i \in jfile'.recs : i \in Int
        BY <1>0, <3>1
      <4> QED BY <1>0, <1>1, <4>1, <4>2
    <3> QED BY <1>1, <2>1, <2>2, <3>1, <3>2 DEF InOrder, Below
  <2>3. CASE (IsCut(jfile') \/ jfile' = jsync) /\ jsync' = jfile'
    <3>1. jfile'.recs \subseteq 1 .. nrec
      BY <1>1, <2>3 DEF IsCut
    <3> QED BY <1>1, <2>1, <2>3, <3>1 DEF InOrder, Below
  <2> QED BY <1>7, <2>2, <2>3 DEF Crashes
<1>8. CASE Load
  <2>1. jq = {} /\ jbuf = {} /\ UNCHANGED <<jq, jbuf, nrec>>
    BY <1>8, LoadReads DEF Load, Blocking
  <2>2. world' \cup durable' \cup dropped' \subseteq 1 .. nrec
    BY <1>1, <1>8, LoadReads DEF SnapshotsGrow
  <2>3. UNCHANGED <<jfile, jsync>> \/ (jfile'.recs = {} /\ jsync'.recs = {})
    BY <1>8, LoadReads DEF FreshImage
  <2> QED BY <1>1, <2>1, <2>2, <2>3 DEF InOrder, Below
<1> QED BY <1>2, <1>3, <1>4, <1>5, <1>6, <1>7, <1>8, Steps, WriterAdvances

----------------------------------------------------------------------------
(* Ticks.                                                                  *)

(* No snapshot is younger than the last one serialized or loaded, no file
   carries a younger header, and the markers in a file are no older than its
   header.  A number not handed out yet is no marker's. *)
Ticks ==
  /\ \A i \in Ids : i > nrec => tickOf[i] = 0
  /\ \A s \in Snaps : s.tick <= rolled.tick
  /\ rolled.tick <= clock
  /\ jfile.hdr <= rolled.tick /\ jsync.hdr <= rolled.tick
  /\ jfile.hdr # NoHeader => jsync.hdr <= jfile.hdr
  /\ \A i \in jfile.recs \cup jbuf \cup jq : tickOf[i] = 0 \/ tickOf[i] >= jfile.hdr
  /\ \A i \in jsync.recs : tickOf[i] = 0 \/ tickOf[i] >= jsync.hdr

(* A periodic roll serializes a tick that no snapshot has. *)
RollsForward == phase \in {"roll", "syncroll"} => rolled.tick < clock

LEMMA TicksInit == Init => Ticks /\ RollsForward
<1> SUFFICES ASSUME Init PROVE Ticks /\ RollsForward
  OBVIOUS
<1>1. snapq = <<>> /\ Len(snapq) = 0 /\ tmp = {} /\ snap = rolled /\ rolled.tick = 0 /\ clock = 0 /\ phase = "run"
  BY EmptySeq DEF Init, SnapInit
<1>2. jfile.hdr = 0 /\ jsync.hdr = 0 /\ jfile.recs = {} /\ jsync.recs = {} /\ jbuf = {} /\ jq = {}
  BY DEF Init, JournalInit, FreshImage
<1>3. Snaps = {rolled}
  BY <1>1 DEF Snaps
<1>4. \A i \in Ids : tickOf[i] = 0
  BY DEF Init
<1> QED BY <1>1, <1>2, <1>3, <1>4 DEF Ticks, RollsForward

LEMMA SnapTypes ==
  ASSUME TypeOK
  PROVE  /\ \A s \in Snaps : s \in Job /\ s.tick \in Nat /\ s.body \in SUBSET Ids
         /\ rolled \in Snaps /\ snap \in Snaps /\ clock \in Nat
         /\ Serialized \in Job /\ Serialized.tick = clock /\ Serialized.body = world
         /\ jfile.hdr \in Int /\ jsync.hdr \in Int /\ \A i \in Ids : tickOf[i] \in Nat
<1>1. \A i \in 1 .. Len(snapq) : snapq[i] \in Job
  BY ElementOfSeq DEF TypeOK, SnapTypeOK
<1>2. \A s \in Snaps : s \in Job
  BY <1>1 DEF Snaps, TypeOK, SnapTypeOK
<1>3. rolled \in Snaps /\ snap \in Snaps
  BY DEF Snaps
<1>4. Serialized \in Job /\ Serialized.tick = clock /\ Serialized.body = world
  BY DEF Serialized, TypeOK, Job
<1>5. jfile.hdr \in Int /\ jsync.hdr \in Int
  BY DEF TypeOK, JournalTypeOK, Image, NoHeader
<1> QED BY <1>2, <1>3, <1>4, <1>5 DEF Job, TypeOK

(* After a load the snapshot under its final name is the only one. *)
LEMMA LoadForgets ==
  ASSUME SnapshotsGrow, Load
  PROVE  Snaps' = {snap}
<1>1. snapq = <<>> /\ tmp = {} /\ Len(snapq) = 0 /\ UNCHANGED <<snapq, tmp, snap>> /\ rolled' = snap
  BY EmptySeq DEF Load, SnapshotsGrow, Drained
<1> QED BY <1>1 DEF Snaps

LEMMA RollsForwardKept ==
  ASSUME TypeOK, Ticks, RollsForward, [Next]_vars
  PROVE  RollsForward'
<1>1. CASE Tick
  BY <1>1, SnapTypes DEF Tick, Ticks, RollsForward, TypeOK, Job
<1>2. CASE ~Tick
  <2>1. phase' \notin {"roll", "syncroll"} \/ UNCHANGED <<phase, rolled, clock>>
    <3>1. CASE SimNext
      BY <1>2, <3>1 DEF SimNext, RecordDelta, RollSnapshot, RollSynchronously, RotateReturns, Shutdown,
           FlushReturns, JoinSnapshotWriter, DropSim, Dropped
    <3>2. CASE WriterNext \/ SnapshotNext \/ UNCHANGED vars
      BY <3>2 DEF WriterNext, SnapshotNext, vars, simVars
    <3>3. CASE ProcessCrash \/ PowerLoss \/ Load
      BY <3>3 DEF ProcessCrash, PowerLoss, MemoryLost, Load
    <3> QED BY <3>1, <3>2, <3>3 DEF Next
  <2> QED BY <2>1 DEF RollsForward
<1> QED BY <1>1, <1>2

LEMMA TicksKept ==
  ASSUME TypeOK, SnapshotsGrow, Blocking, InOrder, Ticks, [Next]_vars
  PROVE  Ticks'
<1>0. /\ \A s \in Snaps : s.tick \in Nat
      /\ rolled \in Snaps /\ snap \in Snaps /\ clock \in Nat
      /\ Serialized.tick = clock
      /\ jfile.hdr \in Int /\ jsync.hdr \in Int /\ \A i \in Ids : tickOf[i] \in Nat
  BY SnapTypes
<1>1. /\ \A i \in Ids : i > nrec => tickOf[i] = 0
      /\ \A s \in Snaps : s.tick <= rolled.tick
      /\ rolled.tick <= clock
      /\ jfile.hdr <= rolled.tick /\ jsync.hdr <= rolled.tick
      /\ jfile.hdr # NoHeader => jsync.hdr <= jfile.hdr
      /\ \A i \in jfile.recs \cup jbuf \cup jq : tickOf[i] = 0 \/ tickOf[i] >= jfile.hdr
      /\ \A i \in jsync.recs : tickOf[i] = 0 \/ tickOf[i] >= jsync.hdr
  BY DEF Ticks
<1>2. ASSUME WriterNext, NEW Q \in SUBSET jq, Advances(Q) PROVE Ticks'
  <2>1. Snaps' = Snaps /\ UNCHANGED <<rolled, clock, nrec, tickOf>>
    BY <1>2, WriterLeaves DEF Memory
  <2>2. /\ jfile'.hdr = jfile.hdr /\ jfile'.recs \cup jbuf' \cup jq' \subseteq jfile.recs \cup jbuf \cup jq
        /\ jsync' = jsync \/ jsync' = jfile'
    BY <1>2 DEF Advances
  <2>3. jfile.hdr <= jfile.hdr
    BY <1>0
  <2>4. CASE jsync' = jsync
    BY <1>1, <2>1, <2>2, <2>4 DEF Ticks
  <2>5. CASE jsync' = jfile'
    BY <1>1, <2>1, <2>2, <2>3, <2>5 DEF Ticks
  <2> QED BY <2>2, <2>4, <2>5
<1>3. CASE WriterNext /\ RotateTruncate
  <2>1. Snaps' = Snaps /\ UNCHANGED <<rolled, clock, nrec, tickOf>>
    BY <1>3, WriterLeaves DEF Memory
  <2>2. /\ jsync'.recs = jfile.recs \cup jbuf /\ jsync'.hdr = jfile.hdr
        /\ jfile'.recs = {} /\ jfile'.hdr = NoHeader /\ jbuf' = {} /\ jq' = {}
    BY <1>3, LandedFields DEF TypeOK, JournalTypeOK, RotateTruncate, FreshImage
  <2>3. NoHeader <= rolled.tick
    BY <1>0 DEF NoHeader
  <2> QED BY <1>1, <2>1, <2>2, <2>3 DEF Ticks
<1>4. CASE WriterNext /\ (RotateHeader \/ RotateBroken)
  <2>1. Snaps' = Snaps /\ UNCHANGED <<rolled, clock, nrec, tickOf>>
    BY <1>4, WriterLeaves DEF Memory
  <2>2. jq = {} /\ jbuf = {} /\ jtick = rolled.tick
    BY <1>4 DEF Blocking, RotateHeader, RotateBroken
  <2>3. /\ jfile'.recs = {} /\ jbuf' = {} /\ jq' = {} /\ jfile'.hdr \in {NoHeader, rolled.tick}
        /\ jsync' = jsync \/ (jsync'.recs = {} /\ jsync'.hdr = rolled.tick /\ jfile'.hdr = rolled.tick)
    BY <1>4, <2>2 DEF RotateHeader, RotateBroken, FreshImage
  <2>4. NoHeader <= rolled.tick /\ rolled.tick <= rolled.tick
    BY <1>0 DEF NoHeader
  <2> QED BY <1>1, <2>1, <2>3, <2>4 DEF Ticks
<1>5. CASE Forwards \/ Idles
  <2>1. /\ UNCHANGED <<jq, jbuf, jfile, jsync, rolled, clock, nrec, tickOf>>
        /\ Snaps' \subseteq Snaps
    BY <1>5 DEF Forwards, Idles, Files, Memory
  <2>2. \A s \in Snaps' : s.tick <= rolled.tick
    BY <1>1, <2>1
  <2>3. /\ jq' = jq /\ jbuf' = jbuf /\ jfile' = jfile /\ jsync' = jsync
        /\ rolled' = rolled /\ clock' = clock /\ nrec' = nrec /\ tickOf' = tickOf
    BY <2>1
  <2> QED BY <1>1, <2>2, <2>3 DEF Ticks
<1>6. CASE Serializes
  <2>1. /\ UNCHANGED <<jq, jbuf, jfile, jsync, clock, nrec, tickOf>> /\ rolled' = Serialized
        /\ Snaps' \subseteq Snaps \cup {Serialized}
    BY <1>6 DEF Serializes, Serialize, Files
  <2>2. rolled'.tick = clock /\ jfile.hdr <= clock /\ jsync.hdr <= clock /\ \A s \in Snaps' : s.tick <= clock
    BY <1>0, <1>1, <2>1
  <2> QED BY <1>0, <1>1, <2>1, <2>2 DEF Ticks
<1>7. CASE RecordsOne
  <2>1. /\ jq' = jq \cup {nrec + 1} /\ nrec + 1 \in Ids /\ Snaps' = Snaps
        /\ UNCHANGED <<jbuf, jfile, jsync, rolled>>
    BY <1>7 DEF RecordsOne
  <2>0. \A i \in Ids : i > nrec' => i > nrec /\ i # nrec + 1
    BY <1>7 DEF RecordsOne, TypeOK, Ids
  <2>2. \A i \in jfile.recs \cup jsync.recs \cup jbuf \cup jq : i # nrec + 1 /\ i \in Ids
    <3>1. \A i \in 1 .. nrec : i # nrec + 1
      BY DEF TypeOK
    <3> QED BY <3>1 DEF InOrder, TypeOK, JournalTypeOK, Image
  <2>3. CASE clock' = clock /\ tickOf' = tickOf
    <3>1. nrec + 1 \notin jfile.recs \cup jsync.recs \cup jbuf \cup jq
      BY <2>2
    <3>2. tickOf[nrec + 1] = 0
      BY <1>1, <2>1 DEF TypeOK
    <3> QED BY <1>0, <1>1, <2>0, <2>1, <2>3, <3>2 DEF Ticks
  <2>4. CASE clock' = clock + 1 /\ tickOf' = [tickOf EXCEPT ![nrec + 1] = clock + 1]
    <3>1. tickOf'[nrec + 1] = clock + 1 /\ clock + 1 >= jfile.hdr
      BY <1>0, <1>1, <2>1, <2>4 DEF TypeOK
    <3>2. \A i \in jfile.recs \cup jsync.recs \cup jbuf \cup jq : tickOf'[i] = tickOf[i]
      BY <2>2, <2>4 DEF TypeOK
    <3>3. rolled'.tick <= clock'
      BY <1>0, <1>1, <2>1, <2>4
    <3>4. \A i \in Ids : i > nrec' => tickOf'[i] = 0
      BY <1>1, <2>0, <2>4
    <3> QED BY <1>0, <1>1, <2>1, <2>4, <3>1, <3>2, <3>3, <3>4 DEF Ticks
  <2> QED BY <1>7, <2>3, <2>4 DEF RecordsOne
<1>8. CASE Crashes
  <2>1. UNCHANGED <<rolled, clock, nrec, tickOf>> /\ jq' = {} /\ jbuf' = {} /\ Snaps' \subseteq Snaps
    BY <1>8 DEF Crashes, Memory
  <2>2. /\ jfile' = jsync \/ (jfile'.hdr = jfile.hdr /\ jfile'.recs \subseteq jfile.recs \cup jbuf)
        /\ jsync' = jsync \/ jsync' = jfile'
        /\ jsync' = jsync => jfile'.hdr = jfile.hdr \/ jfile' = jsync
    BY <1>8 DEF Crashes, IsCut
  <2> QED BY <1>0, <1>1, <2>1, <2>2 DEF Ticks
<1>9. CASE Load
  <2>1. /\ Snaps' = {snap} /\ rolled' = snap /\ jq' = {} /\ jbuf' = {} /\ UNCHANGED <<nrec, tickOf>> /\ jbuf = {} /\ jq = {}
    BY <1>9, LoadForgets, LoadReads DEF Load, Blocking
  <2>2. PICK k \in {0} \cup Replay(jfile, snap) :
             IsLastMarker(k, Replay(jfile, snap)) /\ clock' = IF k = 0 THEN snap.tick ELSE tickOf[k]
    BY <1>9 DEF Load
  <2>3. snap.tick <= clock'
    <3>1. CASE k = 0
      BY <1>0, <2>2, <3>1
    <3>2. CASE k # 0
      <4>1. k \in jfile.recs /\ tickOf[k] # 0 /\ jfile.hdr = snap.tick
        BY <1>9, <2>2, <3>2, LoadReads DEF IsLastMarker
      <4> QED BY <1>0, <1>1, <2>2, <3>2, <4>1
    <3> QED BY <3>1, <3>2
  <2>4. CASE jfile.hdr = snap.tick
    <3>1. UNCHANGED <<jfile, jsync>>
      BY <1>9, <2>4, LoadReads
    <3>2. snap.tick # NoHeader
      BY <1>0 DEF NoHeader
    <3> QED BY <1>0, <1>1, <2>1, <2>3, <2>4, <3>1, <3>2 DEF Ticks
  <2>5. CASE jfile.hdr # snap.tick
    <3>1. jfile'.hdr = snap.tick /\ jsync'.hdr = snap.tick /\ jfile'.recs = {} /\ jsync'.recs = {}
      BY <1>9, <2>5, LoadReads DEF FreshImage
    <3> QED BY <1>0, <2>1, <2>3, <3>1 DEF Ticks
  <2> QED BY <2>4, <2>5
<1> QED BY <1>2, <1>3, <1>4, <1>5, <1>6, <1>7, <1>8, <1>9, Steps, WriterAdvances

-----------------------------------------------------------------------------
(* What the load after a crash or a stop builds: no gap, nothing twice,    *)
(* nothing lost that an fsync covered, everything after a clean stop.      *)

(* No tick was snapshotted twice, or no I/O error occurred. *)
Unrepeated == ~sameTick \/ faults = 0

(* The records on their way to the file, or in it. *)
Held == jfile.recs \cup jbuf \cup jq

(* The file once the buffer is written to it. *)
Full == Landed(jfile, jbuf)

----------------------------------------------------------------------------
(* The invariants.                                                         *)

(* A snapshot is a beginning of the present world. *)
Prefixes ==
  Unrepeated => \A s \in Snaps :
     s.body \subseteq world /\ \A i \in world, j \in s.body : i <= j => i \in s.body

(* One tick, one snapshot. *)
Unique == ~sameTick => \A s, t \in Snaps : s.tick = t.tick => s.body = t.body

UniqueInRoll == phase = "rotT" => \A s \in Snaps : s.tick = rolled.tick => s.body = rolled.body

(* The file e continues the snapshot s: what is read from it the world w has,
   and what w has before it is in the snapshot, read as well, or lost. *)
Continues(e, s, w, lost) ==
  e.hdr = s.tick =>
    /\ Readable(e) \subseteq w
    /\ \A i \in w \ lost, j \in Readable(e) : i <= j => i \in s.body \cup Readable(e)

FilesContinue ==
  Unrepeated => \A s \in Snaps : Continues(Full, s, world, dropped) /\ Continues(jsync, s, world, dropped)

SyncReads ==
  /\ Unrepeated /\ jsync.hdr = jfile.hdr /\ jfile.hdr # NoHeader => Readable(jsync) \subseteq Readable(jfile)
  /\ SameFile /\ jfile.torn = 0 => Readable(jsync) = jsync.recs

(* With the records held, the snapshot s has all of the world. *)
Completes(s) == world \ dropped \subseteq s.body \cup Held

Complete ==
  jthread = "loop" \/ (jthread = "exited" /\ faults = 0) =>
    /\ ~sameTick => \A s \in Snaps : s.tick = jfile.hdr => Completes(s)
    /\ faults = 0 => \A s \in Snaps : s.tick = jfile.hdr =>
          Completes(s) \/ (Held = {} /\ phase \in Stops /\ s # rolled)

(* What a snapshot has, no file that follows it has. *)
Once ==
  ~sameTick => \A s \in Snaps :
    /\ s.tick = jfile.hdr => s.body \cap Held = {}
    /\ s.tick = jsync.hdr => s.body \cap jsync.recs = {}

(* What was ever fsynced is still fsynced in the file that follows a
   snapshot, or in the snapshot. *)
Durably ==
  ~sameTick => \A s \in Snaps :
    /\ s.tick = jfile.hdr =>
         durable \cap world \subseteq s.body \cup (IF SameFile THEN jsync.recs ELSE {})
    /\ s.tick = jsync.hdr => durable \cap world \subseteq s.body \cup jsync.recs

(* s is the youngest snapshot under way, or the renamed one. *)
IsYoungest(s) ==
  IF snapq # <<>> THEN s = snapq[Len(snapq)] ELSE IF tmp # {} THEN tmp = {s} ELSE s = snap

(* What I/O errors alone can break. *)
Unharmed ==
  faults = 0 =>
    /\ dropped = {} /\ jop # "err"
    /\ phase # "down" => IsYoungest(rolled)
    /\ phase \notin {"rotT", "rotS", "down"} \/ jop = "ok" => jfile.hdr = rolled.tick
    /\ stopping /\ phase \notin {"shutroll", "rotS"} => jfile.torn = 0
    /\ phase = "rotS" /\ jop = "ok" => jfile.torn = 0

----------------------------------------------------------------------------
(* Reading a file.                                                         *)

LEMMA FullIs ==
  ASSUME TypeOK
  PROVE  /\ Full.hdr = jfile.hdr /\ Full.torn = jfile.torn /\ Full.recs = jfile.recs \cup jbuf
         /\ jbuf = {} => Readable(Full) = Readable(jfile)
  BY LandedFields DEF TypeOK, JournalTypeOK, Full, Readable

(* Records are numbers, and so are the points where files are torn. *)
LEMMA Numbers ==
  ASSUME TypeOK
  PROVE  /\ jfile.recs \in SUBSET Int /\ jsync.recs \in SUBSET Int /\ jbuf \in SUBSET Int
         /\ jq \in SUBSET Int /\ world \in SUBSET Int /\ nrec \in Nat /\ faults \in Nat
         /\ jfile.torn \in Nat /\ jsync.torn \in Nat
         /\ jfile.hdr \in Int /\ jsync.hdr \in Int
  BY DEF TypeOK, JournalTypeOK, Image, Ids, NoHeader

(* A cut of the file reads as a beginning of what the whole file reads as. *)
LEMMA CutReads ==
  ASSUME TypeOK, InOrder, NEW e, IsCut(e)
  PROVE  /\ Readable(e) \subseteq Readable(Full)
         /\ \A i \in Readable(Full), j \in Readable(e) : i <= j => i \in Readable(e)
<1>1. /\ e.recs \subseteq jfile.recs \cup jbuf
      /\ \A i \in jfile.recs \cup jbuf, j \in e.recs : i <= j => i \in e.recs
      /\ e.torn = jfile.torn \/ (jfile.torn = 0 /\ e.torn = nrec + 1)
  BY DEF IsCut
<1>2. \A i \in jfile.recs \cup jbuf : i \in Int /\ i < nrec + 1
  <2>1. jfile.recs \cup jbuf \subseteq 1 .. nrec /\ nrec \in Nat
    BY Numbers DEF InOrder
  <2> QED BY <2>1
<1>3. \A i \in e.recs : e.torn = 0 \/ i < e.torn <=> jfile.torn = 0 \/ i < jfile.torn
  BY <1>1, <1>2, Numbers
<1>4. Full.torn = jfile.torn /\ Full.recs = jfile.recs \cup jbuf
  BY FullIs
<1> QED BY <1>1, <1>3, <1>4 DEF Readable

LEMMA CutContinues ==
  ASSUME TypeOK, InOrder, NEW e, IsCut(e), NEW s, NEW w, NEW lost, Continues(Full, s, w, lost)
  PROVE  Continues(e, s, w, lost)
<1>1. e.hdr = jfile.hdr /\ Full.hdr = jfile.hdr
  BY FullIs DEF IsCut
<1> QED BY <1>1, CutReads DEF Continues

----------------------------------------------------------------------------
(* History flags and I/O errors only grow.                                 *)

LEMMA FaultsGrow ==
  ASSUME TypeOK, [Next]_vars
  PROVE  faults' = faults \/ faults' = faults + 1
<1>1. CASE WriterNext
  BY <1>1 DEF WriterNext, WriterStep, WriteRecord, WriteFails, IdleFsync, RotateTruncate, RotateHeader,
     RotateRefused, RotateBroken, FlushDone, FlushFails, WriterExit, TimedFsync, Fault, NoFault
<1>2. CASE SnapshotNext
  BY <1>2 DEF SnapshotNext, SnapshotStep, WriteTmp, Rename, WriteLost, Fault
<1>3. CASE SimNext
  BY <1>3 DEF SimNext, RecordDelta, Tick, RollSnapshot, RollSynchronously, RotateReturns, Shutdown,
     FlushReturns, JoinSnapshotWriter, DropSim, Dropped, Fault, NoFault
<1>4. CASE ProcessCrash \/ PowerLoss \/ Load \/ UNCHANGED vars
  BY <1>4 DEF ProcessCrash, PowerLoss, MemoryLost, Load, vars
<1> QED BY <1>1, <1>2, <1>3, <1>4 DEF Next

LEMMA Monotone ==
  ASSUME TypeOK, InOrder, [Next]_vars
  PROVE  /\ sameTick => sameTick'
         /\ faults' = 0 => faults = 0
         /\ Unrepeated' => Unrepeated
<1>1. faults' = 0 => faults = 0
  BY FaultsGrow DEF TypeOK
<1>2. sameTick => sameTick'
  BY Steps, WriterLeaves DEF Forwards, RecordsOne, Serializes, Serialize, Idles, Crashes, Memory, Load
<1> QED BY <1>1, <1>2 DEF Unrepeated

----------------------------------------------------------------------------
(* The steps of the journal's writer, once more.                           *)

LEMMA TruncateIs ==
  ASSUME TypeOK, WriterNext, RotateTruncate
  PROVE  /\ jfile' = FreshImage(NoHeader) /\ jfile'.hdr = NoHeader /\ jfile'.recs = {} /\ jfile'.torn = 0
         /\ jsync' = Full /\ jsync'.hdr = jfile.hdr /\ jsync'.recs = jfile.recs \cup jbuf
         /\ jq = {} /\ jq' = {} /\ jbuf' = {} /\ dropped' = dropped /\ faults' = faults
         /\ durable' = durable \cup jfile.recs \cup jbuf
         /\ jthread' = "truncated"
  BY FullIs DEF RotateTruncate, FreshImage, Full, NoFault

(* The second half of a rotation, failed or not. *)
LEMMA RotationIs ==
  ASSUME TypeOK, Blocking, WriterNext, RotateHeader \/ RotateBroken
  PROVE  /\ jq = {} /\ jbuf = {} /\ jq' = {} /\ jbuf' = {} /\ world = rolled.body
         /\ phase \in {"rotT", "rotS"} /\ jfile.hdr = NoHeader
         /\ jfile'.recs = {} /\ jfile'.hdr \in {NoHeader, rolled.tick}
         /\ \/ jsync' = jsync /\ faults' # 0
            \/ jfile' = FreshImage(rolled.tick) /\ jsync' = jfile' /\ faults' = faults
         /\ UNCHANGED <<durable, dropped>>
<1>1. /\ jq = {} /\ jbuf = {} /\ world = rolled.body /\ jtick = rolled.tick
      /\ phase \in {"rotT", "rotS"} /\ jfile.hdr = NoHeader
  BY DEF Blocking, RotateHeader, RotateBroken, FreshImage
<1>2. CASE RotateHeader
  BY <1>1, <1>2 DEF RotateHeader, FreshImage, NoFault
<1>3. CASE RotateBroken
  BY <1>1, <1>3, FaultCounts DEF RotateBroken, FreshImage
<1> QED BY <1>2, <1>3

(* An advance moves what is held, in order. *)
LEMMA AdvanceIs ==
  ASSUME TypeOK, TypeOK', InOrder, NEW Q \in SUBSET jq, Advances(Q)
  PROVE  /\ Held' \subseteq Held
         /\ Full'.hdr = jfile.hdr /\ Full'.recs = jfile'.recs \cup jbuf' /\ Full'.torn = jfile'.torn
         /\ Readable(Full') \subseteq Readable(Full) \cup Q
         /\ Readable(Full') \cap Q # {} => jfile'.torn = jfile.torn
         /\ \A i \in Full.recs \cup Q, j \in Readable(Full') :
              i \notin dropped' /\ i <= j => i \in Full'.recs /\ (jfile'.torn = jfile.torn \/ i < jfile'.torn)
         /\ \/ jsync' = jsync
            \/ jsync'.hdr = jfile.hdr /\ Readable(jsync') = Readable(Full')
<1>1. /\ Full.hdr = jfile.hdr /\ Full.torn = jfile.torn /\ Full.recs = jfile.recs \cup jbuf
  BY FullIs
<1>2. /\ Full'.hdr = jfile'.hdr /\ Full'.torn = jfile'.torn /\ Full'.recs = jfile'.recs \cup jbuf'
  BY LandedFields DEF TypeOK, JournalTypeOK, Full
<1>3. /\ jq' = jq \ Q /\ Q \subseteq jq
      /\ jfile'.hdr = jfile.hdr
      /\ jfile'.recs \cup jbuf' \subseteq jfile.recs \cup jbuf \cup Q
      /\ \A i \in jfile.recs \cup jbuf \cup Q :
           \/ i \in jfile'.recs \cup jbuf' \cup dropped'
           \/ Below(jfile'.recs \cup jbuf', {i})
      /\ \/ jfile'.torn = jfile.torn
         \/ jfile.torn = 0 /\ jfile'.torn \in Q /\ Below(jfile'.recs, Q) /\ jbuf' = {}
      /\ jsync' = jsync \/ (jsync' = jfile' /\ jbuf' = {})
  BY DEF Advances
<1>4. Held' \subseteq Held
  BY <1>3 DEF Held
<1>5. \A i \in jfile.recs \cup jbuf \cup Q : i \in Int
  BY Numbers
<1>6. \A i \in jfile'.recs \cup jbuf', j \in Q : jfile'.torn # jfile.torn => i < j
  BY <1>3 DEF Below
<1>7. Readable(Full') \subseteq Readable(Full) \cup Q
  BY <1>1, <1>2, <1>3, <1>5, <1>6 DEF Readable
<1>8. Readable(Full') \cap Q # {} => jfile'.torn = jfile.torn
  BY <1>2, <1>3, <1>5, <1>6 DEF Readable
<1>9. ASSUME NEW i \in Full.recs \cup Q, NEW j \in Readable(Full'), i \notin dropped', i <= j
      PROVE  i \in Full'.recs /\ (jfile'.torn = jfile.torn \/ i < jfile'.torn)
  <2>1. i \in Int /\ j \in Int /\ j \in jfile'.recs \cup jbuf'
    BY <1>1, <1>2, <1>3, <1>5 DEF Readable
  <2>2. i \in jfile'.recs \cup jbuf'
    BY <1>1, <1>3, <1>9, <2>1 DEF Below
  <2> QED BY <1>2, <1>3, <1>6, <2>2
<1>10. jsync' = jsync \/ (jsync'.hdr = jfile.hdr /\ Readable(jsync') = Readable(Full'))
  BY <1>2, <1>3 DEF Readable
<1> QED BY <1>2, <1>3, <1>4, <1>7, <1>8, <1>9, <1>10

----------------------------------------------------------------------------
(* The invariants hold at first.                                           *)

LEMMA ReplayInit ==
  Init => Prefixes /\ Unique /\ UniqueInRoll /\ FilesContinue /\ SyncReads /\ Complete /\ Once /\ Durably /\ Unharmed
<1> SUFFICES ASSUME Init
    PROVE  Prefixes /\ Unique /\ UniqueInRoll /\ FilesContinue /\ SyncReads /\ Complete /\ Once /\ Durably /\ Unharmed
  OBVIOUS
<1>1. /\ snapq = <<>> /\ Len(snapq) = 0 /\ tmp = {} /\ snap = rolled /\ rolled.body = {} /\ rolled.tick = 0
      /\ world = {} /\ phase = "run" /\ stopping = FALSE
  BY EmptySeq DEF Init, SnapInit
<1>2. /\ jfile = jsync /\ jfile.hdr = 0 /\ jfile.recs = {} /\ jfile.torn = 0 /\ jbuf = {} /\ jq = {}
      /\ durable = {} /\ dropped = {} /\ jop = "idle"
  BY DEF Init, JournalInit, FreshImage
<1>3. Snaps = {rolled}
  BY <1>1 DEF Snaps
<1>4. Full.recs = {} /\ Readable(jfile) = {} /\ Readable(Full) = {} /\ Held = {}
  BY <1>2, InitType, FullIs DEF Readable, Held
<1>5. Prefixes /\ Unique /\ UniqueInRoll
  BY <1>1, <1>3 DEF Prefixes, Unique, UniqueInRoll
<1>6. FilesContinue /\ SyncReads
  BY <1>2, <1>4 DEF FilesContinue, Continues, SyncReads
<1>7. Complete /\ Once /\ Durably
  BY <1>1, <1>2, <1>3, <1>4 DEF Complete, Completes, Once, Durably
<1>8. Unharmed
  BY <1>1, <1>2 DEF Unharmed, IsYoungest
<1> QED BY <1>5, <1>6, <1>7, <1>8

----------------------------------------------------------------------------
(* Snapshots.                                                              *)

(* What a load keeps of a file the world before the load had. *)
LEMMA LoadKeeps ==
  ASSUME TypeOK, SnapshotsGrow, Blocking, Prefixes, FilesContinue, Unrepeated, Load
  PROVE  /\ Snaps' = {snap} /\ snap \in Snaps
         /\ world' = snap.body \cup Replay(jfile, snap) /\ world' \subseteq world
         /\ jbuf = {} /\ jq = {} /\ jbuf' = {} /\ jq' = {}
<1>1. jbuf = {} /\ jq = {} /\ jbuf' = {} /\ jq' = {} /\ Readable(Full) = Readable(jfile) /\ Full.hdr = jfile.hdr
  BY FullIs DEF Load, Blocking
<1>2. snap \in Snaps /\ snap.body \subseteq world
  BY DEF Snaps, SnapshotsGrow
<1>3. Replay(jfile, snap) \subseteq world
  BY <1>1, <1>2 DEF FilesContinue, Continues, Replay
<1> QED BY <1>1, <1>2, <1>3, LoadForgets, LoadReads

LEMMA PrefixesKept ==
  ASSUME TypeOK, SnapshotsGrow, Blocking, InOrder, Prefixes, FilesContinue, [Next]_vars
  PROVE  Prefixes'
<1> SUFFICES ASSUME Unrepeated'
    PROVE  \A s \in Snaps' : s.body \subseteq world' /\ \A i \in world', j \in s.body : i <= j => i \in s.body
  BY DEF Prefixes
<1>1. Unrepeated /\ \A s \in Snaps :
        s.body \subseteq world /\ \A i \in world, j \in s.body : i <= j => i \in s.body
  BY Monotone DEF Prefixes
<1>2. CASE WriterNext \/ Forwards \/ Idles \/ Crashes
  <2>1. Snaps' \subseteq Snaps /\ world' = world
    BY <1>2, WriterLeaves DEF Forwards, Idles, Crashes, Memory
  <2> QED BY <1>1, <2>1
<1>3. CASE RecordsOne
  <2>1. Snaps' = Snaps /\ world' = world \cup {nrec + 1}
    BY <1>3 DEF RecordsOne
  <2>2. \A j \in world : ~(nrec + 1 <= j)
    BY Numbers DEF InOrder
  <2> QED BY <1>1, <2>1, <2>2
<1>4. CASE Serializes
  <2>1. Snaps' \subseteq Snaps \cup {Serialized} /\ world' = world /\ Serialized.body = world
    BY <1>4, SnapTypes DEF Serializes
  <2> QED BY <1>1, <2>1
<1>5. CASE Load
  <2>1. Snaps' = {snap} /\ snap \in Snaps /\ snap.body \subseteq world' /\ world' \subseteq world
    BY <1>1, <1>5, LoadKeeps
  <2> QED BY <1>1, <2>1
<1> QED BY <1>2, <1>3, <1>4, <1>5, Steps

(* A snapshot serialized at a tick that has one already serialized the same. *)
LEMMA SerializedAgain ==
  ASSUME TypeOK, Ticks, Unique, Serializes, ~sameTick'
  PROVE  /\ ~sameTick
         /\ \A s \in Snaps : s.tick = clock => rolled.tick = clock /\ rolled.body = world /\ s.body = world
<1>1. ~sameTick /\ ~(clock = rolled.tick /\ world # rolled.body)
  BY DEF Serializes, Serialize
<1>2. \A s \in Snaps : s.tick = clock => rolled.tick = clock
  <2>1. clock \in Nat /\ rolled.tick \in Nat /\ rolled.tick <= clock /\ \A s \in Snaps : s.tick <= rolled.tick
    BY SnapTypes DEF Ticks
  <2> QED BY <2>1
<1> QED BY <1>1, <1>2, SnapTypes DEF Unique

LEMMA UniqueKept ==
  ASSUME TypeOK, SnapshotsGrow, InOrder, Ticks, RollsForward, Unique, UniqueInRoll, [Next]_vars
  PROVE  Unique' /\ UniqueInRoll'
<1>1. CASE WriterNext \/ Forwards \/ RecordsOne \/ Idles \/ Crashes
  <2>1. Snaps' \subseteq Snaps /\ rolled' = rolled /\ (sameTick => sameTick') /\ (phase' = "rotT" => phase = "rotT")
    BY <1>1, WriterLeaves, Monotone DEF Forwards, RecordsOne, Idles, Crashes, Memory, WriterNext, simVars
  <2> QED BY <2>1 DEF Unique, UniqueInRoll
<1>2. CASE Serializes
  <2>1. /\ Snaps' \subseteq Snaps \cup {Serialized} /\ rolled' = Serialized
        /\ Serialized.tick = clock /\ Serialized.body = world
    BY <1>2, SnapTypes DEF Serializes, Serialize
  <2>2. ASSUME ~sameTick', NEW s \in Snaps', NEW t \in Snaps', s.tick = t.tick PROVE s.body = t.body
    <3>1. \A u \in Snaps : u.tick = clock => u.body = world
      BY <1>2, <2>2, SerializedAgain
    <3>2. ~sameTick
      BY <1>2, <2>2, SerializedAgain
    <3> QED BY <2>1, <2>2, <3>1, <3>2 DEF Unique
  <2>3. ASSUME phase' = "rotT", NEW s \in Snaps', s.tick = rolled'.tick PROVE s.body = rolled'.body
    <3>1. rolled.tick < clock
      BY <1>2, <2>3 DEF Serializes, RollsForward
    <3>2. \A u \in Snaps : u.tick # clock
      <4>1. clock \in Nat /\ rolled.tick \in Nat /\ \A u \in Snaps : u.tick \in Nat /\ u.tick <= rolled.tick
        BY SnapTypes DEF Ticks
      <4> QED BY <3>1, <4>1
    <3> QED BY <2>1, <2>3, <3>2
  <2> QED BY <2>2, <2>3 DEF Unique, UniqueInRoll
<1>3. CASE Load
  <2>1. Snaps' = {snap} /\ phase' = "run"
    BY <1>3, LoadForgets DEF Load
  <2> QED BY <2>1 DEF Unique, UniqueInRoll
<1> QED BY <1>1, <1>2, <1>3, Steps

----------------------------------------------------------------------------
(* Files.                                                                  *)

(* While its thread runs, the journal completes every snapshot it follows. *)
LEMMA LoopCompletes ==
  ASSUME Complete, Unrepeated, jthread = "loop", NEW s \in Snaps, s.tick = jfile.hdr
  PROVE  Completes(s) \/ jq = {}
  BY DEF Complete, Unrepeated, Held

LEMMA FilesContinueAdvance ==
  ASSUME TypeOK, TypeOK', InOrder, FilesContinue, Complete, Unrepeated, NEW Q \in SUBSET jq, Advances(Q),
         NEW s \in Snaps
  PROVE  Continues(Full', s, world, dropped') /\ Continues(jsync', s, world, dropped')
<1>1. /\ Continues(Full, s, world, dropped) /\ Continues(jsync, s, world, dropped) /\ dropped \subseteq dropped'
      /\ jthread = "loop" /\ jq' = jq \ Q /\ Below(Q, jq')
  BY DEF FilesContinue, Advances
<1>2. /\ Full'.hdr = jfile.hdr /\ Full'.torn = jfile'.torn
      /\ Readable(Full') \subseteq Readable(Full) \cup Q
      /\ Readable(Full') \cap Q # {} => jfile'.torn = jfile.torn
      /\ \A i \in Full.recs \cup Q, j \in Readable(Full') :
           i \notin dropped' /\ i <= j => i \in Full'.recs /\ (jfile'.torn = jfile.torn \/ i < jfile'.torn)
      /\ \/ jsync' = jsync
         \/ jsync'.hdr = jfile.hdr /\ Readable(jsync') = Readable(Full')
  BY AdvanceIs
<1>3. /\ Full.hdr = jfile.hdr /\ Full.torn = jfile.torn /\ Full.recs = jfile.recs \cup jbuf
  BY FullIs
<1>4. Q \subseteq world
  BY DEF InOrder
<1>5. \A i \in Full.recs \cup jq \cup world : i \in Int
  BY <1>3, Numbers
<1>6. ASSUME s.tick = jfile.hdr, NEW i \in world \ dropped', NEW j \in Readable(Full'), i <= j,
             i \in Full.recs \cup Q, i \in Full.recs => i \in Readable(Full) \/ jfile'.torn = jfile.torn
      PROVE  i \in Readable(Full')
  <2>1. i \in Full'.recs /\ (jfile'.torn = jfile.torn \/ i < jfile'.torn)
    BY <1>2, <1>6
  <2>2. jfile'.torn = 0 \/ j < jfile'.torn
    BY <1>2 DEF Readable
  <2>3. i \in Int /\ j \in Int /\ jfile'.torn \in Int
    <3>1. jfile'.torn \in Int
      BY DEF TypeOK, JournalTypeOK, Image
    <3>2. j \in Full.recs \cup jq
      BY <1>2 DEF Readable
    <3> QED BY <1>5, <3>1, <3>2
  <2>4. jfile'.torn = 0 \/ i < jfile'.torn
    BY <1>6, <2>2, <2>3
  <2> QED BY <1>2, <2>1, <2>4 DEF Readable
<1>7. ASSUME s.tick = jfile.hdr, NEW i \in world \ dropped', NEW j \in Readable(Full'), i <= j
      PROVE  i \in s.body \cup Readable(Full')
  <2>1. CASE j \in Readable(Full)
    <3>1. i \in s.body \cup Readable(Full)
      BY <1>1, <1>3, <1>7, <2>1 DEF Continues
    <3>2. CASE i \in Readable(Full)
      BY <1>6, <1>7, <3>2 DEF Readable
    <3> QED BY <3>1, <3>2
  <2>2. CASE j \in Q
    <3>1. jfile'.torn = jfile.torn
      BY <1>2, <1>7, <2>2
    <3>2. i \in s.body \cup Full.recs \cup jq
      BY <1>1, <1>3, <1>7, <2>2, LoopCompletes DEF Completes, Held
    <3>3. i \notin jq \ Q
      BY <1>1, <1>5, <1>7, <2>2 DEF Below
    <3>4. CASE i \in Full.recs \cup Q
      BY <1>6, <1>7, <3>1, <3>4
    <3> QED BY <3>2, <3>3, <3>4
  <2> QED BY <1>2, <1>7, <2>1, <2>2
<1>8. s.tick = jfile.hdr => Readable(Full') \subseteq world
  BY <1>1, <1>2, <1>3, <1>4 DEF Continues
<1>9. Continues(Full', s, world, dropped')
  BY <1>2, <1>7, <1>8 DEF Continues
<1>10. CASE jsync' = jsync
  BY <1>1, <1>9, <1>10 DEF Continues
<1>11. CASE jsync'.hdr = jfile.hdr /\ Readable(jsync') = Readable(Full')
  BY <1>2, <1>9, <1>11 DEF Continues
<1> QED BY <1>2, <1>10, <1>11

LEMMA FilesContinueKept ==
  ASSUME TypeOK, SnapshotsGrow, Blocking, InOrder, Ticks, Prefixes, FilesContinue, SyncReads, Complete,
         [Next]_vars
  PROVE  FilesContinue'
<1> SUFFICES ASSUME Unrepeated', NEW s \in Snaps'
    PROVE  Continues(Full', s, world', dropped') /\ Continues(jsync', s, world', dropped')
  BY DEF FilesContinue
<1>1. /\ Unrepeated
      /\ \A t \in Snaps : Continues(Full, t, world, dropped) /\ Continues(jsync, t, world, dropped)
  BY Monotone DEF FilesContinue
<1>2. TypeOK' /\ Full'.hdr = jfile'.hdr /\ Full'.torn = jfile'.torn /\ Full'.recs = jfile'.recs \cup jbuf'
  BY NextType, LandedFields DEF TypeOK, JournalTypeOK, Full
<1>3. Full.hdr = jfile.hdr /\ Full.recs = jfile.recs \cup jbuf
  BY FullIs
<1>4. jfile'.recs \cup jbuf' = {} => Readable(Full') = {}
  BY <1>2 DEF Readable
<1>5. s \in Snaps => s.tick # NoHeader
  BY SnapTypes DEF NoHeader
<1>6. CASE WriterNext
  <2>1. s \in Snaps /\ world' = world
    BY <1>6, WriterLeaves DEF Memory
  <2>2. ASSUME NEW Q \in SUBSET jq, Advances(Q) PROVE Continues(Full', s, world, dropped') /\ Continues(jsync', s, world, dropped')
    BY <1>1, <1>2, <2>1, <2>2, FilesContinueAdvance
  <2>3. CASE RotateTruncate
    <3>1. Full'.hdr = NoHeader /\ jsync' = Full /\ dropped' = dropped
      BY <1>2, <1>6, <2>3, TruncateIs
    <3> QED BY <1>1, <1>5, <2>1, <3>1 DEF Continues
  <2>4. CASE RotateHeader \/ RotateBroken
    <3>1. /\ jfile'.recs = {} /\ jbuf' = {} /\ dropped' = dropped
          /\ jsync' = jsync \/ jsync' = jfile'
      BY <1>6, <2>4, RotationIs
    <3>2. Readable(Full') = {} /\ Readable(jfile') = {}
      BY <1>4, <3>1 DEF Readable
    <3> QED BY <1>1, <2>1, <3>1, <3>2 DEF Continues
  <2> QED BY <1>6, <2>1, <2>2, <2>3, <2>4, WriterAdvances
<1>7. CASE Forwards \/ Idles
  <2>1. s \in Snaps /\ UNCHANGED <<jfile, jbuf, jsync, world, dropped>>
    BY <1>7 DEF Forwards, Idles, Files, Memory
  <2> QED BY <1>1, <2>1 DEF Full
<1>8. CASE RecordsOne
  <2>1. s \in Snaps /\ world' = world \cup {nrec + 1} /\ UNCHANGED <<jfile, jbuf, jsync, dropped>>
    BY <1>8 DEF RecordsOne
  <2>2. \A j \in Readable(Full) \cup Readable(jsync) : ~(nrec + 1 <= j)
    <3>1. Readable(Full) \cup Readable(jsync) \subseteq 1 .. nrec
      BY <1>3 DEF InOrder, Readable
    <3> QED BY <3>1, Numbers
  <2>3. Full' = Full
    BY <2>1 DEF Full
  <2> QED BY <1>1, <2>1, <2>2, <2>3 DEF Continues
<1>9. CASE Serializes
  <2>1. /\ Snaps' \subseteq Snaps \cup {Serialized} /\ UNCHANGED <<jfile, jbuf, jsync, world, dropped>>
        /\ Serialized.tick = clock /\ Serialized.body = world
    BY <1>9, SnapTypes DEF Serializes, Files
  <2>2. CASE s \in Snaps
    BY <1>1, <2>1, <2>2 DEF Full
  <2>3. CASE s = Serialized
    <3>1. jfile.hdr = clock \/ jsync.hdr = clock => rolled.tick = clock
      <4>1. /\ clock \in Nat /\ rolled.tick \in Nat /\ jfile.hdr \in Int /\ jsync.hdr \in Int
            /\ jfile.hdr <= rolled.tick /\ jsync.hdr <= rolled.tick /\ rolled.tick <= clock
        BY SnapTypes DEF Ticks
      <4> QED BY <4>1
    <3>2. rolled \in Snaps /\ Full' = Full
      BY <2>1, SnapTypes DEF Full
    <3> QED BY <1>1, <1>3, <2>1, <2>3, <3>1, <3>2 DEF Continues
  <2> QED BY <2>1, <2>2, <2>3
<1>10. CASE Crashes
  <2>1. s \in Snaps /\ UNCHANGED <<world, dropped>> /\ jbuf' = {}
    BY <1>10 DEF Crashes, Memory
  <2>2. Continues(jfile', s, world, dropped)
    BY <1>1, <1>10, <2>1, CutContinues DEF Crashes
  <2>3. jsync' = jsync \/ jsync' = jfile'
    BY <1>10 DEF Crashes
  <2>4. Continues(Full', s, world, dropped)
    BY <1>2, <2>1, <2>2 DEF Continues, Readable
  <2> QED BY <1>1, <2>1, <2>2, <2>3, <2>4
<1>11. CASE Load
  <2>1. /\ s = snap /\ snap \in Snaps /\ jbuf' = {} /\ jbuf = {}
        /\ world' = snap.body \cup Replay(jfile, snap) /\ world' \subseteq world
    BY <1>1, <1>11, LoadKeeps
  <2>2. CASE jfile.hdr = snap.tick
    <3>1. UNCHANGED <<jfile, jsync>> /\ Replay(jfile, snap) = Readable(jfile)
      BY <1>11, <2>2, LoadReads
    <3>2. Readable(Full') = Readable(jfile)
      BY <1>2, <2>1, <3>1 DEF Readable
    <3>3. Continues(Full', s, world', dropped')
      BY <2>1, <3>1, <3>2 DEF Continues
    <3>4. ASSUME jsync.hdr = snap.tick PROVE Readable(jsync) \subseteq Readable(jfile)
      <4>1. snap.tick # NoHeader
        BY <1>5, <2>1
      <4> QED BY <1>1, <2>2, <3>4, <4>1 DEF SyncReads
    <3>5. ASSUME NEW i \in Readable(jfile), NEW j \in Readable(jsync), i <= j PROVE i \in Readable(jsync)
      <4>1. i \in jfile.recs /\ j \in jsync.recs /\ i \in Int /\ j \in Int
        BY <3>5, Numbers DEF Readable
      <4>2. i \in jsync.recs
        BY <3>5, <4>1 DEF InOrder
      <4> QED BY <3>5, <4>1, <4>2, Numbers DEF Readable
    <3>6. Continues(jsync', s, world', dropped')
      BY <2>1, <3>1, <3>4, <3>5 DEF Continues
    <3> QED BY <3>3, <3>6
  <2>3. CASE jfile.hdr # snap.tick
    <3>1. jfile'.recs = {} /\ jsync'.recs = {}
      BY <1>11, <2>3, LoadReads DEF FreshImage
    <3>2. Readable(Full') = {} /\ Readable(jsync') = {}
      BY <1>4, <2>1, <3>1 DEF Readable
    <3> QED BY <3>2 DEF Continues
  <2> QED BY <2>2, <2>3
<1> QED BY <1>6, <1>7, <1>8, <1>9, <1>10, <1>11, Steps

LEMMA SyncReadsKept ==
  ASSUME TypeOK, SnapshotsGrow, Blocking, InOrder, FilesContinue, Once, SyncReads, [Next]_vars
  PROVE  SyncReads'
<1>0. /\ jfile.recs \in SUBSET Int /\ jsync.recs \in SUBSET Int /\ jbuf \in SUBSET Int
      /\ jq \in SUBSET Int /\ nrec \in Nat /\ jfile.torn \in Nat
  BY Numbers
<1>1. jsync.recs \cap (jbuf \cup jq) = {}
  BY <1>0 DEF InOrder, Below
<1>2. /\ Unrepeated /\ jsync.hdr = jfile.hdr /\ jfile.hdr # NoHeader => Readable(jsync) \subseteq Readable(jfile)
      /\ SameFile /\ jfile.torn = 0 => Readable(jsync) = jsync.recs
  BY DEF SyncReads
<1>3. Unrepeated' => Unrepeated
  BY Monotone
<1>4. ASSUME jsync' = jfile' PROVE SyncReads'
  BY <1>4 DEF SyncReads, Readable
<1>5. ASSUME jsync' = jsync, jfile'.hdr = jfile.hdr,
             jfile.recs \subseteq jfile'.recs, jfile'.recs \subseteq jfile.recs \cup jbuf \cup jq,
             \/ jfile'.torn = jfile.torn
             \/ jfile.torn = 0 /\ jfile'.torn # 0 /\ \A i \in jfile'.recs : i < jfile'.torn
      PROVE SyncReads'
  <2>1. Readable(jfile) \subseteq Readable(jfile')
    BY <1>5 DEF Readable
  <2>2. SameFile' => SameFile
    BY <1>1, <1>5 DEF SameFile
  <2>3. jfile'.torn = 0 => jfile.torn = 0
    BY <1>5
  <2> QED BY <1>2, <1>3, <1>5, <2>1, <2>2, <2>3 DEF SyncReads
<1>6. CASE WriterNext
  <2>1. ASSUME NEW Q \in SUBSET jq, Advances(Q) PROVE SyncReads'
    <3>1. /\ jfile'.hdr = jfile.hdr /\ jfile.recs \subseteq jfile'.recs
          /\ jfile'.recs \cup jbuf' \subseteq jfile.recs \cup jbuf \cup Q
          /\ \/ jfile'.torn = jfile.torn
             \/ jfile.torn = 0 /\ jfile'.torn \in Q /\ Below(jfile'.recs, Q)
          /\ jsync' = jsync \/ jsync' = jfile'
      BY <2>1 DEF Advances
    <3>2. \A i \in Q : i # 0
      BY DEF TypeOK, JournalTypeOK, Ids
    <3>3. CASE jsync' = jsync
      BY <1>5, <3>1, <3>2, <3>3 DEF Below
    <3> QED BY <1>4, <3>1, <3>3
  <2>2. CASE RotateTruncate
    <3>1. jfile'.hdr = NoHeader /\ jfile'.recs = {}
      BY <1>6, <2>2, TruncateIs
    <3> QED BY <3>1 DEF SyncReads, SameFile, Readable
  <2>3. CASE RotateHeader \/ RotateBroken
    <3>1. /\ jfile'.recs = {} /\ jfile'.hdr \in {NoHeader, rolled.tick} /\ world = rolled.body
          /\ (jsync' = jsync /\ faults' # 0) \/ jsync' = jfile'
      BY <1>6, <2>3, RotationIs
    <3>2. ASSUME jsync' = jsync, faults' # 0, Unrepeated', jsync.hdr = rolled.tick PROVE Readable(jsync) = {}
      <4>1. ~sameTick /\ rolled \in Snaps
        BY <3>2, WriterLeaves, <1>6, SnapTypes DEF Unrepeated, Memory
      <4>2. Readable(jsync) \subseteq rolled.body
        BY <1>3, <3>1, <3>2, <4>1 DEF FilesContinue, Continues
      <4>3. rolled.body \cap jsync.recs = {}
        BY <3>2, <4>1 DEF Once
      <4> QED BY <4>2, <4>3 DEF Readable
    <3>3. CASE jsync' = jsync /\ faults' # 0
      <4>1. SameFile' => Readable(jsync') = jsync'.recs
        BY <3>1 DEF SameFile, Readable
      <4> QED BY <3>1, <3>2, <3>3, <4>1 DEF SyncReads
    <3> QED BY <1>4, <3>1, <3>3
  <2> QED BY <1>6, <2>1, <2>2, <2>3, WriterAdvances
<1>7. CASE Forwards \/ RecordsOne \/ Serializes \/ Idles
  <2>1. UNCHANGED <<jfile, jsync>>
    BY <1>7 DEF Forwards, RecordsOne, Serializes, Idles, Files
  <2> QED BY <1>5, <2>1
<1>8. CASE Crashes
  <2>1. CASE IsCut(jfile') /\ jfile.recs \subseteq jfile'.recs /\ jsync' = jsync
    <3>1. /\ jfile'.hdr = jfile.hdr /\ jfile'.recs \subseteq jfile.recs \cup jbuf
          /\ jfile'.torn = jfile.torn \/ (jfile.torn = 0 /\ jfile'.torn = nrec + 1)
      BY <2>1 DEF IsCut
    <3>2. \A i \in jfile'.recs : i < nrec + 1
      <4>1. jfile'.recs \subseteq 1 .. nrec
        BY <3>1 DEF InOrder
      <4> QED BY <1>0, <4>1
    <3>3. nrec + 1 # 0
      BY <1>0
    <3> QED BY <1>5, <2>1, <3>1, <3>2, <3>3
  <2> QED BY <1>4, <1>8, <2>1 DEF Crashes
<1>9. CASE Load
  <2>1. UNCHANGED <<jfile, jsync>> \/ jsync' = jfile'
    BY <1>9, LoadReads
  <2> QED BY <1>4, <1>5, <2>1
<1> QED BY <1>6, <1>7, <1>8, <1>9, Steps

(* A snapshot that the journal completes and the snapshot that is renamed
   while the simulation thread waits for the journal. *)
Excused(s) == Held = {} /\ phase \in Stops /\ s # rolled

LEMMA CompleteKept ==
  ASSUME TypeOK, SnapshotsGrow, Blocking, InOrder, Unique, UniqueInRoll, Complete, Unharmed, [Next]_vars
  PROVE  Complete'
<1>0. /\ faults' = 0 => faults = 0
      /\ sameTick => sameTick'
  BY Monotone
<1> SUFFICES ASSUME jthread' = "loop" \/ (jthread' = "exited" /\ faults' = 0),
                    NEW s \in Snaps', s.tick = jfile'.hdr
    PROVE  /\ ~sameTick' => Completes(s)'
           /\ faults' = 0 => Completes(s)' \/ Excused(s)'
  BY Zenon DEF Complete, Excused
<1>1. jthread = "loop" \/ (jthread = "exited" /\ faults = 0) =>
        /\ ~sameTick => \A t \in Snaps : t.tick = jfile.hdr => Completes(t)
        /\ faults = 0 => \A t \in Snaps : t.tick = jfile.hdr => Completes(t) \/ Excused(t)
  BY Zenon DEF Complete, Excused
<1>2. CASE WriterNext
  <2>1. s \in Snaps /\ UNCHANGED <<world, rolled, phase, sameTick>>
    BY <1>2, WriterLeaves DEF Memory, WriterNext, simVars
  <2>2. ASSUME NEW Q \in SUBSET jq, Advances(Q)
        PROVE  /\ ~sameTick' => Completes(s)'
               /\ faults' = 0 => Completes(s)' \/ Excused(s)'
    <3>1. /\ jthread = "loop" /\ jfile'.hdr = jfile.hdr /\ jq' = jq \ Q /\ dropped \subseteq dropped'
          /\ \A i \in jfile.recs \cup jbuf \cup Q : i \in jfile'.recs \cup jbuf' \cup dropped'
          /\ jfile'.recs \cup jbuf' \subseteq jfile.recs \cup jbuf \cup Q
      BY <2>2 DEF Advances
    <3>2. Completes(s) => Completes(s)'
      BY <2>1, <3>1 DEF Completes, Held
    <3>3. Excused(s) => Excused(s)'
      BY <2>1, <3>1 DEF Excused, Held
    <3> QED BY <1>0, <1>1, <2>1, <3>1, <3>2, <3>3
  <2>3. CASE RotateTruncate
    BY <1>2, <2>3, TruncateIs
  <2>4. CASE RotateHeader \/ RotateBroken
    <3>1. /\ world = rolled.body /\ phase \in {"rotT", "rotS"} /\ jfile'.recs = {} /\ jbuf' = {} /\ jq' = {}
          /\ jfile'.hdr \in {NoHeader, rolled.tick}
      BY <1>2, <2>4, RotationIs DEF FreshImage
    <3>2. s.tick # NoHeader
      BY <2>1, SnapTypes DEF NoHeader
    <3>3. s.tick = rolled.tick /\ rolled \in Snaps
      BY <3>1, <3>2, SnapTypes
    <3>4. s.body = world => Completes(s)'
      BY <2>1 DEF Completes
    <3>5. ~sameTick => s.body = world
      BY <2>1, <3>1, <3>3 DEF Unique
    <3>6. s.body = world \/ (phase = "rotS" /\ s # rolled)
      BY <2>1, <3>1, <3>3 DEF UniqueInRoll
    <3>7. phase = "rotS" /\ s # rolled => Excused(s)'
      BY <2>1, <3>1 DEF Excused, Held, Stops
    <3> QED BY <2>1, <3>4, <3>5, <3>6, <3>7
  <2> QED BY <1>2, <2>2, <2>3, <2>4, WriterAdvances
<1>3. CASE Forwards
  <2>1. s \in Snaps /\ UNCHANGED <<jthread, jfile, jbuf, jq, world, dropped, rolled, phase, sameTick>>
    BY <1>3 DEF Forwards, Files, Memory
  <2>2. (Completes(s)' <=> Completes(s)) /\ (Excused(s)' <=> Excused(s))
    BY <2>1 DEF Completes, Excused, Held
  <2> QED BY <1>0, <1>1, <2>1, <2>2
<1>4. CASE Idles
  <2>1. s \in Snaps /\ UNCHANGED <<jthread, jfile, jbuf, jq, world, dropped, rolled, sameTick, faults>>
    BY <1>4 DEF Idles, Files, Memory
  <2>2. Completes(s)' <=> Completes(s)
    BY <2>1 DEF Completes, Held
  <2>3. faults = 0 /\ Excused(s) => Excused(s)'
    <3> SUFFICES ASSUME faults = 0, Excused(s) PROVE Excused(s)'
      OBVIOUS
    <3>1. jop # "err" /\ phase \in Stops /\ s # rolled /\ (phase # "down" => IsYoungest(rolled))
      BY DEF Unharmed, Excused
    <3>2. ~Drained
      <4> SUFFICES ASSUME Drained PROVE s = rolled
        BY <3>1
      <4>1. snapq = <<>> /\ Len(snapq) = 0 /\ tmp = {} /\ snap = rolled
        BY <3>1, EmptySeq DEF Drained, IsYoungest, Stops
      <4> QED BY <2>1, <4>1 DEF Snaps
    <3>3. phase' \in Stops
      BY <1>4, <3>1, <3>2 DEF Idles
    <3> QED BY <2>1, <3>3 DEF Excused, Held
  <2> QED BY <1>0, <1>1, <2>1, <2>2, <2>3
<1>5. CASE RecordsOne
  <2>1. /\ s \in Snaps /\ phase = "run" /\ world' = world \cup {nrec + 1} /\ jq' = jq \cup {nrec + 1}
        /\ UNCHANGED <<jthread, jfile, jbuf, dropped, sameTick>>
    BY <1>5 DEF RecordsOne
  <2>2. ~Excused(s) /\ (Completes(s) => Completes(s)')
    BY <2>1 DEF Completes, Excused, Held, Stops
  <2> QED BY <1>0, <1>1, <2>1, <2>2
<1>6. CASE Serializes
  <2>1. /\ s \in Snaps \/ s.body = world
        /\ phase \in {"roll", "syncroll", "shutroll"}
        /\ UNCHANGED <<jthread, jfile, jbuf, jq, world, dropped>>
    BY <1>6, SnapTypes DEF Serializes, Files
  <2>2. (Completes(s) => Completes(s)') /\ (s.body = world => Completes(s)') /\ ~Excused(s)
    BY <2>1 DEF Completes, Excused, Held, Stops
  <2> QED BY <1>0, <1>1, <2>1, <2>2
<1>7. CASE Crashes
  BY <1>7 DEF Crashes
<1>8. CASE Load
  <2>1. s = snap /\ world' = snap.body \cup Replay(jfile, snap)
    BY <1>8, LoadForgets, LoadReads
  <2>2. jfile.hdr = snap.tick => jfile' = jfile /\ Replay(jfile, snap) \subseteq jfile.recs
    BY <1>8, LoadReads
  <2>3. jfile.hdr # snap.tick => Replay(jfile, snap) = {}
    BY <1>8, LoadReads
  <2> QED BY <2>1, <2>2, <2>3 DEF Completes, Held
<1> QED BY <1>2, <1>3, <1>4, <1>5, <1>6, <1>7, <1>8, Steps

LEMMA OnceKept ==
  ASSUME TypeOK, SnapshotsGrow, Blocking, InOrder, Ticks, Prefixes, Unique, Once, [Next]_vars
  PROVE  Once'
<1> SUFFICES ASSUME ~sameTick', NEW s \in Snaps'
    PROVE  /\ s.tick = jfile'.hdr => s.body \cap Held' = {}
           /\ s.tick = jsync'.hdr => s.body \cap jsync'.recs = {}
  BY DEF Once
<1>1. /\ ~sameTick
      /\ \A t \in Snaps : /\ t.tick = jfile.hdr => t.body \cap Held = {}
                          /\ t.tick = jsync.hdr => t.body \cap jsync.recs = {}
  BY Monotone DEF Once
<1>2. s \in Snaps => s.tick # NoHeader
  BY SnapTypes DEF NoHeader
<1>3. CASE WriterNext
  <2>1. s \in Snaps
    BY <1>3, WriterLeaves
  <2>2. ASSUME NEW Q \in SUBSET jq, Advances(Q)
        PROVE  /\ s.tick = jfile'.hdr => s.body \cap Held' = {}
               /\ s.tick = jsync'.hdr => s.body \cap jsync'.recs = {}
    <3>1. /\ jfile'.hdr = jfile.hdr /\ Held' \subseteq Held /\ jfile'.recs \subseteq Held'
          /\ jsync' = jsync \/ jsync' = jfile'
      BY <2>2 DEF Advances, Held
    <3> QED BY <1>1, <2>1, <3>1
  <2>3. CASE RotateTruncate
    <3>1. jfile'.hdr = NoHeader /\ jsync'.hdr = jfile.hdr /\ jsync'.recs \subseteq Held
      BY <1>3, <2>3, TruncateIs DEF Held
    <3> QED BY <1>1, <1>2, <2>1, <3>1
  <2>4. CASE RotateHeader \/ RotateBroken
    <3>1. Held' = {} /\ (jsync' = jsync \/ jsync'.recs = {})
      BY <1>3, <2>4, RotationIs DEF Held
    <3> QED BY <1>1, <2>1, <3>1
  <2> QED BY <1>3, <2>2, <2>3, <2>4, WriterAdvances
<1>4. CASE Forwards \/ Idles
  <2>1. s \in Snaps /\ UNCHANGED <<jfile, jsync, jbuf, jq>>
    BY <1>4 DEF Forwards, Idles, Files
  <2> QED BY <1>1, <2>1 DEF Held
<1>5. CASE RecordsOne
  <2>1. s \in Snaps /\ jq' = jq \cup {nrec + 1} /\ UNCHANGED <<jfile, jsync, jbuf>>
    BY <1>5 DEF RecordsOne
  <2>2. nrec + 1 \notin s.body
    <3>1. s.body \subseteq world
      BY <1>1, <2>1 DEF Prefixes, Unrepeated
    <3>2. nrec + 1 \notin world
      BY Numbers DEF InOrder
    <3> QED BY <3>1, <3>2
  <2> QED BY <1>1, <2>1, <2>2 DEF Held
<1>6. CASE Serializes
  <2>1. /\ s \in Snaps \/ s = Serialized
        /\ UNCHANGED <<jfile, jsync, jbuf, jq>>
    BY <1>6 DEF Serializes, Files
  <2>2. CASE s \in Snaps
    BY <1>1, <2>1, <2>2 DEF Held
  <2>3. CASE s = Serialized
    <3>1. s.tick = clock /\ s.body = world
      BY <2>3, SnapTypes
    <3>2. jfile.hdr = clock \/ jsync.hdr = clock => rolled.tick = clock
      <4>1. /\ clock \in Nat /\ rolled.tick \in Nat /\ jfile.hdr \in Int /\ jsync.hdr \in Int
            /\ jfile.hdr <= rolled.tick /\ jsync.hdr <= rolled.tick /\ rolled.tick <= clock
        BY SnapTypes DEF Ticks
      <4> QED BY <4>1
    <3>3. rolled \in Snaps /\ (rolled.tick = clock => rolled.body = world)
      BY <1>6, SerializedAgain, SnapTypes
    <3> QED BY <1>1, <2>1, <3>1, <3>2, <3>3 DEF Held
  <2> QED BY <2>1, <2>2, <2>3
<1>7. CASE Crashes
  <2>1. s \in Snaps /\ jbuf' = {} /\ jq' = {}
    BY <1>7 DEF Crashes
  <2>2. /\ jfile' = jsync \/ (jfile'.hdr = jfile.hdr /\ jfile'.recs \subseteq Held)
        /\ jsync' = jsync \/ jsync' = jfile'
    BY <1>7 DEF Crashes, IsCut, Held
  <2> QED BY <1>1, <2>1, <2>2 DEF Held
<1>8. CASE Load
  <2>1. s = snap /\ snap \in Snaps /\ jbuf' = {} /\ jq' = {}
    BY <1>8, LoadForgets, LoadReads, SnapTypes DEF Load, Blocking
  <2>2. UNCHANGED <<jfile, jsync>> \/ (jfile'.recs = {} /\ jsync'.recs = {})
    BY <1>8, LoadReads DEF FreshImage
  <2> QED BY <1>1, <2>1, <2>2 DEF Held
<1> QED BY <1>3, <1>4, <1>5, <1>6, <1>7, <1>8, Steps

LEMMA DurablyKept ==
  ASSUME TypeOK, SnapshotsGrow, Blocking, InOrder, Prefixes, FilesContinue, Unique, Durably, [Next]_vars
  PROVE  Durably'
<1> SUFFICES ASSUME ~sameTick', NEW s \in Snaps'
    PROVE  /\ s.tick = jfile'.hdr =>
                durable' \cap world' \subseteq s.body \cup (IF SameFile' THEN jsync'.recs ELSE {})
           /\ s.tick = jsync'.hdr => durable' \cap world' \subseteq s.body \cup jsync'.recs
  BY DEF Durably
<1>1. /\ ~sameTick
      /\ \A t \in Snaps :
           /\ t.tick = jfile.hdr => durable \cap world \subseteq t.body \cup (IF SameFile THEN jsync.recs ELSE {})
           /\ t.tick = jsync.hdr => durable \cap world \subseteq t.body \cup jsync.recs
  BY Monotone DEF Durably
<1>2. s \in Snaps => s.tick # NoHeader
  BY SnapTypes DEF NoHeader
<1>3. CASE WriterNext
  <2>1. s \in Snaps /\ world' = world
    BY <1>3, WriterLeaves DEF Memory
  <2>2. ASSUME NEW Q \in SUBSET jq, Advances(Q)
        PROVE  /\ s.tick = jfile'.hdr =>
                    durable' \cap world' \subseteq s.body \cup (IF SameFile' THEN jsync'.recs ELSE {})
               /\ s.tick = jsync'.hdr => durable' \cap world' \subseteq s.body \cup jsync'.recs
    <3>1. /\ jfile'.hdr = jfile.hdr /\ jfile.recs \subseteq jfile'.recs
          /\ \/ UNCHANGED <<jsync, durable>>
             \/ jsync' = jfile' /\ durable' = durable \cup jfile'.recs
      BY <2>2 DEF Advances
    <3>2. CASE UNCHANGED <<jsync, durable>>
      BY <1>1, <2>1, <3>1, <3>2 DEF SameFile
    <3>3. CASE jsync' = jfile' /\ durable' = durable \cup jfile'.recs
      BY <1>1, <2>1, <3>1, <3>3 DEF SameFile
    <3> QED BY <3>1, <3>2, <3>3
  <2>3. CASE RotateTruncate
    <3>1. /\ jfile'.hdr = NoHeader /\ jsync'.hdr = jfile.hdr /\ jsync'.recs = jfile.recs \cup jbuf
          /\ durable' = durable \cup jfile.recs \cup jbuf
      BY <1>3, <2>3, TruncateIs
    <3> QED BY <1>1, <1>2, <2>1, <3>1 DEF SameFile
  <2>4. CASE RotateHeader \/ RotateBroken
    <3>1. /\ jfile'.hdr \in {NoHeader, rolled.tick} /\ durable' = durable /\ world = rolled.body
          /\ jsync' = jsync \/ jsync'.hdr = rolled.tick
      BY <1>3, <2>4, RotationIs DEF FreshImage
    <3>2. s.tick = rolled.tick => s.body = world
      BY <1>1, <2>1, <3>1, SnapTypes DEF Unique
    <3> QED BY <1>1, <1>2, <2>1, <3>1, <3>2
  <2> QED BY <1>3, <2>2, <2>3, <2>4, WriterAdvances
<1>4. CASE Forwards \/ Idles
  <2>1. s \in Snaps /\ UNCHANGED <<jfile, jsync, durable, world>>
    BY <1>4 DEF Forwards, Idles, Files, Memory
  <2> QED BY <1>1, <2>1 DEF SameFile
<1>5. CASE RecordsOne
  <2>1. s \in Snaps /\ world' = world \cup {nrec + 1} /\ UNCHANGED <<jfile, jsync, durable>>
    BY <1>5 DEF RecordsOne
  <2>2. nrec + 1 \notin durable
    BY Numbers DEF InOrder
  <2> QED BY <1>1, <2>1, <2>2 DEF SameFile
<1>6. CASE Serializes
  <2>1. /\ s \in Snaps \/ s.body = world
        /\ UNCHANGED <<jfile, jsync, durable, world>>
    BY <1>6, SnapTypes DEF Serializes, Files
  <2> QED BY <1>1, <2>1 DEF SameFile
<1>7. CASE Crashes
  <2>1. s \in Snaps /\ UNCHANGED <<durable, world>>
    BY <1>7 DEF Crashes, Memory
  <2>2. CASE IsCut(jfile') /\ jfile.recs \subseteq jfile'.recs /\ jsync' = jsync
    BY <1>1, <2>1, <2>2 DEF IsCut, SameFile
  <2>3. CASE IsCut(jfile') /\ jsync' = jfile'
    BY <1>1, <2>1, <2>3 DEF IsCut, SameFile
  <2>4. CASE jfile' = jsync /\ jsync' = jsync
    BY <1>1, <2>1, <2>4 DEF SameFile
  <2> QED BY <1>7, <2>2, <2>3, <2>4 DEF Crashes
<1>8. CASE Load
  <2>1. /\ s = snap /\ snap \in Snaps /\ world' \subseteq world /\ durable' \subseteq durable
        /\ world' = snap.body \cup Replay(jfile, snap)
    BY <1>1, <1>8, LoadKeeps, LoadReads DEF Unrepeated
  <2>2. CASE jfile.hdr = snap.tick
    <3>1. UNCHANGED <<jfile, jsync>>
      BY <1>8, <2>2, LoadReads
    <3> QED BY <1>1, <2>1, <3>1 DEF SameFile
  <2>3. CASE jfile.hdr # snap.tick
    <3>1. world' = snap.body
      BY <1>8, <2>1, <2>3, LoadReads
    <3> QED BY <2>1, <3>1
  <2> QED BY <2>2, <2>3
<1> QED BY <1>3, <1>4, <1>5, <1>6, <1>7, <1>8, Steps

(* Without I/O errors the youngest snapshot is the last one serialized. *)
LEMMA YoungestKept ==
  ASSUME TypeOK, SnapshotsGrow, InOrder, phase # "down" => IsYoungest(rolled), [Next]_vars,
         faults' = faults, phase' # "down"
  PROVE  IsYoungest(rolled)'
<1>1. CASE Load
  <2>1. rolled' = snap' /\ snapq' = <<>> /\ tmp' = {}
    BY <1>1 DEF Load, SnapshotsGrow, Drained
  <2> QED BY <2>1 DEF IsYoungest
<1>2. CASE RollSnapshot
  <2>1. snapq' = Append(snapq, Serialized) /\ rolled' = Serialized
    BY <1>2 DEF RollSnapshot, Serialize, Enqueue
  <2>2. snapq' # <<>> /\ snapq'[Len(snapq')] = Serialized
    BY <2>1, AppendProperties, SnapTypes DEF TypeOK, SnapTypeOK
  <2> QED BY <2>1, <2>2 DEF IsYoungest
<1>3. CASE RollSynchronously
  <2>1. snapq' = <<>> /\ tmp' = {} /\ rolled' = Serialized
    BY <1>3 DEF RollSynchronously, Serialize, SnapshotsGrow, Drained
  <2>2. snap' = Serialized
    BY <1>3 DEF RollSynchronously, Fault, TypeOK
  <2> QED BY <2>1, <2>2 DEF IsYoungest
<1>4. CASE SnapshotNext
  <2>1. IsYoungest(rolled) /\ rolled' = rolled
    BY <1>4 DEF SnapshotNext, simVars
  <2>2. CASE WriteTmp
    <3>1. snapq \in Seq(Job) /\ snapq # <<>> /\ snapq' = Tail(snapq) /\ tmp' = {Head(snapq)}
      BY <2>2 DEF WriteTmp, TypeOK, SnapTypeOK
    <3>2. /\ Len(snapq) \in Nat /\ Len(snapq) >= 1 /\ Len(snapq') = Len(snapq) - 1
          /\ \A i \in 1 .. Len(snapq') : snapq'[i] = snapq[i + 1]
          /\ Head(snapq) = snapq[1]
      BY <3>1, HeadTailProperties, EmptySeq
    <3>3. rolled = snapq[Len(snapq)]
      BY <2>1, <3>1 DEF IsYoungest
    <3>4. CASE snapq' = <<>>
      <4>1. Len(snapq) = 1
        BY <3>2, <3>4, EmptySeq
      <4> QED BY <2>1, <3>1, <3>2, <3>3, <3>4, <4>1 DEF IsYoungest
    <3>5. CASE snapq' # <<>>
      <4>1. Len(snapq') \in 1 .. Len(snapq')
        <5>1. Len(snapq') # 0
          BY <3>1, <3>5, EmptySeq, HeadTailProperties
        <5> QED BY <3>2, <5>1
      <4>2. snapq'[Len(snapq')] = snapq[Len(snapq') + 1]
        BY <3>2, <4>1
      <4>3. Len(snapq') + 1 = Len(snapq)
        BY <3>2
      <4> QED BY <2>1, <3>3, <3>5, <4>2, <4>3 DEF IsYoungest
    <3> QED BY <3>4, <3>5
  <2>3. CASE Rename
    BY <2>1, <2>3 DEF Rename, IsYoungest
  <2>4. CASE WriteLost
    BY <2>4 DEF WriteLost, Fault, TypeOK
  <2> QED BY <1>4, <2>2, <2>3, <2>4 DEF SnapshotNext, SnapshotStep
<1>5. CASE ~Load /\ ~RollSnapshot /\ ~RollSynchronously /\ ~SnapshotNext
  <2>1. UNCHANGED <<snapq, tmp, snap, rolled>> /\ phase # "down"
    <3>1. CASE SimNext
      BY <1>5, <3>1 DEF SimNext, RecordDelta, Tick, RotateReturns, Shutdown, FlushReturns,
         JoinSnapshotWriter, DropSim, Dropped, snapVars
    <3>2. CASE WriterNext \/ UNCHANGED vars
      BY <3>2 DEF WriterNext, snapVars, simVars, vars
    <3>3. CASE ProcessCrash \/ PowerLoss
      BY <3>3 DEF ProcessCrash, PowerLoss, MemoryLost
    <3> QED BY <1>5, <3>1, <3>2, <3>3 DEF Next
  <2> QED BY <2>1 DEF IsYoungest
<1> QED BY <1>1, <1>2, <1>3, <1>4, <1>5

LEMMA UnharmedKept ==
  ASSUME TypeOK, SnapshotsGrow, Blocking, InOrder, Unharmed, [Next]_vars
  PROVE  Unharmed'
<1> SUFFICES ASSUME faults' = 0
    PROVE  /\ dropped' = {} /\ jop' # "err"
           /\ phase' # "down" => IsYoungest(rolled)'
           /\ phase' \notin {"rotT", "rotS", "down"} \/ jop' = "ok" => jfile'.hdr = rolled'.tick
           /\ stopping' /\ phase' \notin {"shutroll", "rotS"} => jfile'.torn = 0
           /\ phase' = "rotS" /\ jop' = "ok" => jfile'.torn = 0
  BY DEF Unharmed
<1>1. /\ dropped = {} /\ jop # "err"
      /\ phase # "down" => IsYoungest(rolled)
      /\ phase \notin {"rotT", "rotS", "down"} \/ jop = "ok" => jfile.hdr = rolled.tick
      /\ stopping /\ phase \notin {"shutroll", "rotS"} => jfile.torn = 0
      /\ phase = "rotS" /\ jop = "ok" => jfile.torn = 0
  BY Monotone DEF Unharmed
<1>2. faults' = faults /\ ~Fault
  BY Monotone, FaultCounts
<1>3. phase' # "down" => IsYoungest(rolled)'
  BY <1>1, <1>2, YoungestKept
<1>4. CASE WriterNext
  <2>1. UNCHANGED <<phase, rolled, stopping>>
    BY <1>4 DEF WriterNext, simVars
  <2>2. ASSUME NEW Q \in SUBSET jq, Advances(Q), ~RotateHeader
        PROVE  /\ dropped' = dropped /\ jfile'.hdr = jfile.hdr /\ jfile'.torn = jfile.torn
               /\ jop' = jop \/ (phase = "flushing" /\ jop' = "ok")
    <3>1. dropped' = dropped /\ jfile'.hdr = jfile.hdr /\ jfile'.torn = jfile.torn
      BY <2>2 DEF Advances
    <3>2. jop' = jop \/ (jop = "flush" /\ jop' = "ok")
      BY <1>2, <1>4, <2>2 DEF WriterNext, WriterStep, WriteRecord, WriteFails, IdleFsync, RotateTruncate,
         RotateRefused, RotateBroken, FlushDone, FlushFails, WriterExit
    <3> QED BY <3>1, <3>2 DEF Blocking
  <2>3. CASE RotateTruncate
    <3>1. jop' = "rotate" /\ phase \in {"rotT", "rotS"}
      BY <2>3 DEF RotateTruncate, Blocking
    <3> QED BY <1>1, <1>3, <1>4, <2>1, <2>3, <3>1, TruncateIs
  <2>4. CASE RotateHeader
    <3>1. jfile' = FreshImage(rolled.tick) /\ jop' = "ok" /\ dropped' = dropped
      BY <1>4, <2>4 DEF RotateHeader, Blocking
    <3> QED BY <1>1, <1>3, <2>1, <3>1 DEF FreshImage
  <2>5. ~RotateBroken
    BY <1>2 DEF RotateBroken
  <2> QED BY <1>1, <1>3, <1>4, <2>1, <2>2, <2>3, <2>4, <2>5, WriterAdvances
<1>5. CASE SnapshotNext \/ UNCHANGED vars
  <2>1. UNCHANGED <<dropped, jop, phase, jfile, rolled, stopping>>
    BY <1>5 DEF SnapshotNext, journalVars, simVars, vars
  <2> QED BY <1>1, <1>3, <2>1
<1>6. CASE RecordDelta \/ Tick \/ Shutdown \/ FlushReturns \/ JoinSnapshotWriter \/ DropSim \/ Dropped
  BY <1>1, <1>3, <1>6 DEF RecordDelta, Tick, Shutdown, FlushReturns, JoinSnapshotWriter, DropSim, Dropped,
     CloseChannel, journalVars
<1>7. CASE RollSnapshot
  BY <1>1, <1>3, <1>7 DEF RollSnapshot, CallRotate
<1>8. CASE RollSynchronously
  BY <1>1, <1>2, <1>3, <1>8 DEF RollSynchronously, CallRotate
<1>9. CASE RotateReturns
  BY <1>1, <1>3, <1>9 DEF RotateReturns, CallFlush
<1>10. CASE ProcessCrash \/ PowerLoss
  BY <1>1, <1>10 DEF ProcessCrash, PowerLoss, MemoryLost
<1>11. CASE Load
  <2>1. jfile'.hdr = snap.tick /\ rolled' = snap /\ dropped' \subseteq dropped
    BY <1>11, LoadReads DEF FreshImage
  <2>2. jop' = "idle" /\ stopping' = FALSE
    BY <1>11 DEF Load
  <2> QED BY <1>1, <1>3, <2>1, <2>2
<1> QED BY <1>4, <1>5, <1>6, <1>7, <1>8, <1>9, <1>10, <1>11 DEF Next, SimNext

----------------------------------------------------------------------------
(* The theorems.                                                           *)

(* All of it at once. *)
Recovers ==
  /\ TypeOK /\ SnapshotsGrow
  /\ Blocking /\ InOrder /\ Ticks /\ RollsForward
  /\ Prefixes /\ Unique /\ UniqueInRoll
  /\ FilesContinue /\ SyncReads /\ Complete /\ Once /\ Durably /\ Unharmed

LEMMA RecoversInit == Init => Recovers
  BY InitType, FloorInit, BlockingInit, InOrderInit, TicksInit, ReplayInit DEF Recovers

LEMMA RecoversKept == Recovers /\ [Next]_vars => Recovers'
<1> SUFFICES ASSUME Recovers, [Next]_vars PROVE Recovers'
  OBVIOUS
<1> USE DEF Recovers
<1>1. TypeOK' /\ SnapshotsGrow' /\ Blocking' /\ InOrder' /\ Ticks' /\ RollsForward'
  BY NextType, FloorNext, BlockingKept, InOrderKept, TicksKept, RollsForwardKept
<1>2. Prefixes' /\ Unique' /\ UniqueInRoll' /\ FilesContinue' /\ SyncReads'
  BY PrefixesKept, UniqueKept, FilesContinueKept, SyncReadsKept
<1>3. Complete' /\ Once' /\ Durably' /\ Unharmed'
  BY CompleteKept, OnceKept, DurablyKept, UnharmedKept
<1> QED BY <1>1, <1>2, <1>3

LEMMA AlwaysRecovers == Spec => []Recovers
  BY RecoversInit, RecoversKept, PTL DEF Spec

(* What a crash now would leave continues the renamed snapshot, has nothing
   that the snapshot has, and reads as far as it was fsynced. *)
LEMMA OutcomesContinue ==
  ASSUME Recovers, NEW e \in Outcomes
  PROVE  /\ Unrepeated => Continues(e, snap, world, dropped)
         /\ ~sameTick => snap.body \cap Replay(e, snap) = {}
<1>1. snap \in Snaps /\ (e = jsync \/ IsCut(e))
  BY OutcomeIs DEF Recovers, Snaps
<1>2. Unrepeated => Continues(e, snap, world, dropped)
  BY <1>1, CutContinues DEF Recovers, FilesContinue
<1>3. ~sameTick => snap.body \cap Replay(e, snap) = {}
  BY <1>1 DEF Recovers, Once, Held, IsCut, Replay, Readable
<1> QED BY <1>2, <1>3

LEMMA NoGap == Recovers => RecoveryHasNoGap
<1> SUFFICES ASSUME Recovers, Unrepeated, NEW e \in Outcomes
    PROVE  IsPrefix(Recovered(e), world, dropped)
  BY DEF RecoveryHasNoGap, Unrepeated
<1>1. Continues(e, snap, world, dropped)
  BY OutcomesContinue
<1>2. snap.body \subseteq world /\ \A i \in world, j \in snap.body : i <= j => i \in snap.body
  BY DEF Recovers, Prefixes, Snaps
<1>3. CASE e.hdr = snap.tick
  BY <1>1, <1>2, <1>3 DEF Continues, IsPrefix, Recovered, Replay
<1>4. CASE e.hdr # snap.tick
  BY <1>2, <1>4 DEF IsPrefix, Recovered, Replay
<1> QED BY <1>3, <1>4

(* Whatever image of the journal a crash leaves at any moment, between any
   two steps of the three threads, the world that load_with_content builds is
   the present one with its end cut off. *)
THEOREM AlwaysNoGap == Spec => []RecoveryHasNoGap
  BY AlwaysRecovers, NoGap, PTL

LEMMA AppliesOnce == Recovers => ReplayAppliesOnce
  BY OutcomesContinue DEF ReplayAppliesOnce

(* apply_delta never meets a delta of a tick the snapshot already contains,
   unless one tick was snapshotted twice. *)
THEOREM AlwaysAppliesOnce == Spec => []ReplayAppliesOnce
  BY AlwaysRecovers, AppliesOnce, PTL

LEMMA FsyncedSurvive == Recovers => FsyncedRecordsSurviveWhilePaired
<1> SUFFICES ASSUME Recovers, Paired, ~sameTick, NEW e \in Outcomes
    PROVE  durable \cap world \subseteq Recovered(e)
  BY DEF FsyncedRecordsSurviveWhilePaired
<1>1. TypeOK /\ InOrder
  BY DEF Recovers
<1>2. durable \cap world \subseteq snap.body \cup (IF SameFile THEN jsync.recs ELSE {})
  BY DEF Recovers, Durably, Snaps, Paired
<1>3. SameFile => Readable(jsync) = jsync.recs /\ jsync.hdr = snap.tick
  BY DEF Recovers, SyncReads, Paired, SameFile
<1>4. CASE e = jsync
  BY <1>2, <1>3, <1>4 DEF Recovered, Replay
<1>5. CASE IsCut(e)
  <2>1. e.hdr = snap.tick /\ (SameFile => jsync.recs \subseteq e.recs) /\ (e.torn = 0 \/ e.torn = nrec + 1)
    BY <1>5 DEF IsCut, Paired
  <2>2. \A i \in jsync.recs : i < nrec + 1
    <3>1. jsync.recs \subseteq 1 .. nrec /\ nrec \in Nat
      BY <1>1, Numbers DEF InOrder
    <3> QED BY <3>1
  <2>3. SameFile => jsync.recs \subseteq Readable(e)
    BY <2>1, <2>2 DEF Readable
  <2> QED BY <1>2, <2>1, <2>3 DEF Recovered, Replay
<1> QED BY <1>1, <1>4, <1>5, OutcomeIs

(* While the journal follows the renamed snapshot and has no torn record, no
   crash takes back a record that an fsync covered. *)
THEOREM AlwaysFsyncedSurvive == Spec => []FsyncedRecordsSurviveWhilePaired
  BY AlwaysRecovers, FsyncedSurvive, PTL

LEMMA DrainedPairs == Recovers => PairedOnceDrained
  BY DEF Recovers, PairedOnceDrained, Unharmed, IsYoungest, Drained

(* Without I/O errors the journal has the snapshot's tick again whenever the
   snapshot writer has nothing to do and the simulation thread is not in a
   roll. *)
THEOREM AlwaysPairedOnceDrained == Spec => []PairedOnceDrained
  BY AlwaysRecovers, DrainedPairs, PTL

LEMMA StopKeeps == Recovers => CleanStopLosesNothing
<1> SUFFICES ASSUME Recovers, phase = "off", faults = 0, jfile.torn = 0 \/ stopping
    PROVE  Recovered(jfile) = world /\ (~sameTick => snap.body \cap Replay(jfile, snap) = {})
  BY DEF CleanStopLosesNothing
<1>1. TypeOK /\ Unrepeated /\ snap \in Snaps
  BY DEF Recovers, Unrepeated, Snaps
<1>2. Drained /\ jthread = "exited" /\ jq = {} /\ jbuf = {}
  BY DEF Recovers, SnapshotsGrow, Blocking
<1>3. dropped = {} /\ snap = rolled /\ jfile.hdr = snap.tick /\ jfile.torn = 0
  BY <1>2 DEF Recovers, Unharmed, IsYoungest, Drained
<1>4. Readable(jfile) = jfile.recs /\ Readable(Full) = Readable(jfile) /\ Full.hdr = jfile.hdr
  BY <1>1, <1>2, <1>3, FullIs DEF Readable
<1>5. world \subseteq snap.body \cup jfile.recs
  BY <1>1, <1>2, <1>3 DEF Recovers, Complete, Completes, Held, Stops
<1>6. Readable(jfile) \subseteq world
  BY <1>1, <1>3, <1>4 DEF Recovers, FilesContinue, Continues
<1>7. snap.body \subseteq world
  BY DEF Recovers, SnapshotsGrow
<1>8. Recovered(jfile) = world
  BY <1>3, <1>4, <1>5, <1>6, <1>7 DEF Recovered, Replay
<1>9. ~sameTick => snap.body \cap Replay(jfile, snap) = {}
  BY <1>1, <1>2, <1>3, <1>4 DEF Recovers, Once, Held, Replay
<1> QED BY <1>8, <1>9

(* A program that stopped without an I/O error reads back exactly the world
   it dropped. *)
THEOREM AlwaysStopsClean == Spec => []CleanStopLosesNothing
  BY AlwaysRecovers, StopKeeps, PTL

----------------------------------------------------------------------------
(* The files implement the store.                                          *)

(* Without I/O errors every step is a step of the store or none: a recorded
   delta or marker is a Record, a renamed snapshot a Save, a load a Restart. *)
LEMMA StepsOfTheStore ==
  ASSUME Recovers, Recovers', faults = 0, faults' = 0, [Next]_vars
  PROVE  [Store!StoreNext]_(Store!storeVars)
<1> USE DEF Recovers
<1>1. snap.body \subseteq snap'.body /\ snap'.body \subseteq world'
  BY FloorNext DEF SnapshotsGrow
<1>2. CASE world' = world
  <2>1. \A i \in world, j \in snap'.body : i <= j => i \in snap'.body
    BY <1>2 DEF Prefixes, Unrepeated, Snaps
  <2> QED BY <1>1, <1>2, <2>1 DEF Store!StoreNext, Store!Save, Store!IsPrefixOf
<1>3. CASE RecordDelta \/ Tick
  <2>1. nrec + 1 \in Ids /\ world' = world \cup {nrec + 1} /\ snap' = snap
    BY <1>3, RecordsAssumption DEF RecordDelta, Tick, TypeOK, Ids, snapVars
  <2>2. \A i \in world : i < nrec + 1
    <3>1. world \subseteq 1 .. nrec /\ nrec \in Nat
      BY Numbers DEF InOrder
    <3> QED BY <3>1
  <2>3. Store!Record
    BY <2>1, <2>2 DEF Store!Record, Store!Ids, Ids
  <2> QED BY <2>3 DEF Store!StoreNext
<1>4. CASE Load
  <2>1. Unrepeated /\ dropped = {}
    BY DEF Unrepeated, Unharmed
  <2>2. /\ snap \in Snaps /\ world' = snap.body \cup Replay(jfile, snap) /\ world' \subseteq world
        /\ jbuf = {} /\ snap' = snap
    BY <1>4, <2>1, LoadKeeps, LoadReads
  <2>3. Full.hdr = jfile.hdr /\ Readable(Full) = Readable(jfile)
    BY <2>2, FullIs
  <2>4. \A i \in world, j \in snap.body : i <= j => i \in world'
    BY <2>1, <2>2 DEF Prefixes
  <2>5. \A i \in world, j \in Replay(jfile, snap) : i <= j => i \in world'
    BY <2>1, <2>2, <2>3 DEF FilesContinue, Continues, Replay
  <2>6. Store!Restart
    BY <2>2, <2>4, <2>5 DEF Store!Restart, Store!IsPrefixOf
  <2> QED BY <2>6 DEF Store!StoreNext
<1>5. world' = world \/ RecordDelta \/ Tick \/ Load
  BY DEF Next, SimNext, WriterNext, SnapshotNext, RollSnapshot, RollSynchronously, RotateReturns, Shutdown,
     FlushReturns, JoinSnapshotWriter, DropSim, Dropped, ProcessCrash, PowerLoss, MemoryLost, simVars, vars
<1> QED BY <1>2, <1>3, <1>4, <1>5

LEMMA StoreInitially == Init => Store!StoreInit
  BY DEF Init, SnapInit, Store!StoreInit

LEMMA NoFaultsWithoutBudget ==
  ASSUME MaxFaults = 0
  PROVE  Spec => [](faults = 0)
<1>1. Init => faults = 0
  BY DEF Init
<1>2. Recovers /\ faults = 0 /\ [Next]_vars => (faults = 0)'
  <2> SUFFICES ASSUME Recovers, faults = 0, [Next]_vars PROVE faults' = 0
    OBVIOUS
  <2>1. ~Fault
    BY DEF Fault
  <2>2. CASE WriterNext
    BY <2>1, <2>2 DEF WriterNext, WriterStep, WriteRecord, WriteFails, IdleFsync, RotateTruncate, RotateHeader,
       RotateRefused, RotateBroken, FlushDone, FlushFails, WriterExit, TimedFsync, NoFault
  <2>3. CASE SnapshotNext
    BY <2>1, <2>3 DEF SnapshotNext, SnapshotStep, WriteTmp, Rename, WriteLost
  <2>4. CASE SimNext
    BY <2>1, <2>4 DEF SimNext, RecordDelta, Tick, RollSnapshot, RollSynchronously, RotateReturns, Shutdown,
       FlushReturns, JoinSnapshotWriter, DropSim, Dropped, NoFault
  <2>5. CASE ProcessCrash \/ PowerLoss \/ Load \/ UNCHANGED vars
    BY <2>5 DEF ProcessCrash, PowerLoss, MemoryLost, Load, vars
  <2> QED BY <2>2, <2>3, <2>4, <2>5 DEF Next
<1> QED BY <1>1, <1>2, AlwaysRecovers, PTL DEF Spec

(* In every behaviour without I/O errors the two files, their writer threads,
   crashes and loads together implement CrashStore: a crash loses an end of
   the history, never what a renamed snapshot has. *)
THEOREM FilesImplementTheStore == Spec /\ [](faults = 0) => RefinesStore
<1>1. Recovers /\ Recovers' /\ faults = 0 /\ (faults = 0)' /\ [Next]_vars => [Store!StoreNext]_(Store!storeVars)
  BY StepsOfTheStore
<1> QED
  BY <1>1, StoreInitially, AlwaysRecovers, PTL DEF Spec, RefinesStore, Store!StoreSpec

(* The case that TLC checks: no error is possible. *)
COROLLARY FaultlessFilesImplementTheStore == ASSUME MaxFaults = 0 PROVE Spec => RefinesStore
  BY NoFaultsWithoutBudget, FilesImplementTheStore, PTL
=============================================================================
