---------------------------- MODULE Persistence ----------------------------
(***************************************************************************)
(* Crash recovery of simn-sim: Sim's side of the journal and the snapshot  *)
(* file (world/mod.rs, world/tick.rs) composed with the two writer         *)
(* threads, with crashes of the process and of the machine, and with the   *)
(* load that follows.                                                      *)
(*                                                                         *)
(* The world is the set of records it reflects.  A record is either a      *)
(* delta or the Tick marker a tick appends (tickOf).                       *)
(***************************************************************************)
EXTENDS Journal, SnapshotFile

CONSTANTS
  MaxTick,      \* bound on the simulation clock
  Interval,     \* snapshot_interval
  MaxCrashes    \* bound on crashes

ASSUME PersistenceAssumption ==
  /\ MaxTick \in Nat
  /\ Interval \in Nat \ {0}
  /\ MaxCrashes \in Nat

VARIABLES
  phase,      \* what the simulation thread is doing
  world,      \* the records the world in memory reflects
  clock,      \* SimClock.tick
  nrec,       \* deltas encoded so far, in all runs of the program
  tickOf,     \* the tick of a Tick marker, 0 for any other delta
  stopping,   \* Sim::shutdown was called
  crashes,    \* crashes so far
  rolled,     \* history: the last snapshot serialized or loaded
  sameTick    \* history: a tick was snapshotted twice, with records in between

simVars == <<phase, world, clock, nrec, tickOf, stopping, crashes, rolled, sameTick>>

vars == <<faults, journalVars, snapVars, simVars>>

Phases == {"run", "roll", "syncroll", "shutroll", "rotT", "rotS", "flushing", "join",
           "dropping", "off", "down"}

TypeOK ==
  /\ faults \in Nat
  /\ JournalTypeOK
  /\ SnapTypeOK
  /\ phase \in Phases
  /\ world \in SUBSET Ids
  /\ clock \in Nat
  /\ nrec \in 0 .. MaxRecords
  /\ tickOf \in [Ids -> Nat]
  /\ stopping \in BOOLEAN
  /\ crashes \in Nat
  /\ rolled \in Job
  /\ sameTick \in BOOLEAN

Init ==
  /\ faults = 0
  /\ JournalInit /\ SnapInit
  /\ phase = "run"
  /\ world = {} /\ clock = 0
  /\ nrec = 0 /\ tickOf = [i \in Ids |-> 0]
  /\ stopping = FALSE /\ crashes = 0
  /\ rolled = [tick |-> 0, body |-> {}]
  /\ sameTick = FALSE

----------------------------------------------------------------------------
(* The simulation thread.                                                  *)

(* record_delta: the world has changed, the delta goes to the channel. *)
RecordDelta ==
  /\ phase = "run" /\ nrec < MaxRecords
  /\ nrec' = nrec + 1
  /\ world' = world \cup {nrec + 1}
  /\ AppendOp(nrec + 1)
  /\ UNCHANGED <<phase, clock, tickOf, stopping, crashes, rolled, sameTick>>
  /\ UNCHANGED <<jop, jtick, jbuf, jfile, jsync, jpending, jthread, durable, dropped>>
  /\ UNCHANGED snapVars /\ NoFault

SnapshotDue(t) == t > 0 /\ t % Interval = 0

(* tick: the clock advances, the Tick marker follows the tick's deltas, and
   a snapshot is due every Interval ticks. *)
Tick ==
  /\ phase = "run" /\ nrec < MaxRecords /\ clock < MaxTick
  /\ clock' = clock + 1
  /\ nrec' = nrec + 1
  /\ tickOf' = [tickOf EXCEPT ![nrec + 1] = clock + 1]
  /\ world' = world \cup {nrec + 1}
  /\ AppendOp(nrec + 1)
  /\ phase' = IF ~SnapshotDue(clock + 1) THEN "run"
              ELSE IF swAlive THEN "roll" ELSE "syncroll"
  /\ UNCHANGED <<stopping, crashes, rolled, sameTick>>
  /\ UNCHANGED <<jop, jtick, jbuf, jfile, jsync, jpending, jthread, durable, dropped>>
  /\ UNCHANGED snapVars /\ NoFault

(* Fault model: the snapshot is labelled with the tick before. *)
SerializedTickBefore == [tick |-> clock - 1, body |-> world]

Serialized == [tick |-> clock, body |-> world]

(* Bookkeeping of every serialization. *)
Serialize ==
  /\ rolled' = Serialized
  /\ sameTick' = (sameTick \/ (clock = rolled.tick /\ world # rolled.body))

(* roll_snapshot: hand the bytes to the background writer, then rotate the
   journal and wait.  The rotation does not wait for the rename. *)
RollSnapshot ==
  /\ phase \in {"roll", "shutroll"}
  /\ Serialize
  /\ Enqueue(Serialized)
  /\ CallRotate(clock)
  /\ phase' = IF phase = "roll" THEN "rotT" ELSE "rotS"
  /\ UNCHANGED <<world, clock, nrec, tickOf, stopping, crashes>>
  /\ UNCHANGED <<jq, jbuf, jfile, jsync, jpending, jthread, durable, dropped>>
  /\ UNCHANGED <<tmp, snap, swAlive, faults>>

(* roll_snapshot once the background writer is gone: the bytes are written
   here, before the rotation, and an error ends the tick loop. *)
RollSynchronously ==
  /\ phase = "syncroll"
  /\ Serialize
  /\ \/ /\ NoFault
        /\ snap' = Serialized
        /\ CallRotate(clock)
        /\ phase' = "rotT"
     \/ /\ Fault
        /\ UNCHANGED snap
        /\ CloseChannel
        /\ phase' = "dropping"
  /\ UNCHANGED <<world, clock, nrec, tickOf, stopping, crashes>>
  /\ UNCHANGED <<jq, jbuf, jfile, jsync, jpending, jthread, durable, dropped>>
  /\ UNCHANGED <<snapq, tmp, swAlive>>

(* A failed rotation fails the tick, which ends the loop and drops the Sim;
   in Sim::shutdown it skips the rest of the shutdown. *)
RotateReturns ==
  /\ phase \in {"rotT", "rotS"} /\ jop \in {"ok", "err"}
  /\ \/ /\ phase = "rotT" /\ jop = "ok"
        /\ phase' = "run" /\ jop' = "idle" /\ jtick' = 0
     \/ /\ phase = "rotT" /\ jop = "err"
        /\ phase' = "dropping" /\ CloseChannel
     \/ /\ phase = "rotS" /\ jop = "ok"
        /\ phase' = "flushing" /\ CallFlush
     \/ /\ phase = "rotS" /\ jop = "err"
        /\ phase' = "run" /\ jop' = "idle" /\ jtick' = 0
  /\ UNCHANGED <<world, clock, nrec, tickOf, stopping, crashes, rolled, sameTick>>
  /\ UNCHANGED <<jq, jbuf, jfile, jsync, jpending, jthread, durable, dropped>>
  /\ UNCHANGED snapVars /\ NoFault

(* Sim::shutdown; the host calls it once. *)
Shutdown ==
  /\ phase = "run" /\ ~stopping
  /\ stopping' = TRUE
  /\ phase' = "shutroll"
  /\ UNCHANGED <<world, clock, nrec, tickOf, crashes, rolled, sameTick>>
  /\ UNCHANGED journalVars /\ UNCHANGED snapVars /\ NoFault

FlushReturns ==
  /\ phase = "flushing" /\ jop \in {"ok", "err"}
  /\ phase' = IF jop = "ok" THEN "join" ELSE "run"
  /\ jop' = "idle" /\ UNCHANGED jtick
  /\ UNCHANGED <<world, clock, nrec, tickOf, stopping, crashes, rolled, sameTick>>
  /\ UNCHANGED <<jq, jbuf, jfile, jsync, jpending, jthread, durable, dropped>>
  /\ UNCHANGED snapVars /\ NoFault

(* SnapshotWriter::shutdown joins the thread once its queue is empty.  The
   worker keeps the Sim a little longer and may record and tick again. *)
JoinSnapshotWriter ==
  /\ phase = "join" /\ Drained
  /\ swAlive' = FALSE
  /\ phase' = "run"
  /\ UNCHANGED <<world, clock, nrec, tickOf, stopping, crashes, rolled, sameTick>>
  /\ UNCHANGED journalVars
  /\ UNCHANGED <<snapq, tmp, snap, faults>>

(* The Sim is dropped, after Sim::shutdown or without it. *)
DropSim ==
  /\ phase = "run"
  /\ phase' = "dropping"
  /\ CloseChannel
  /\ UNCHANGED <<world, clock, nrec, tickOf, stopping, crashes, rolled, sameTick>>
  /\ UNCHANGED <<jq, jbuf, jfile, jsync, jpending, jthread, durable, dropped>>
  /\ UNCHANGED snapVars /\ NoFault

(* Both Drops join their thread. *)
Dropped ==
  /\ phase = "dropping" /\ jthread = "exited" /\ Drained
  /\ phase' = "off"
  /\ UNCHANGED <<world, clock, nrec, tickOf, stopping, crashes, rolled, sameTick>>
  /\ UNCHANGED journalVars /\ UNCHANGED snapVars /\ NoFault
----------------------------------------------------------------------------
(* Crashes and restarts.                                                   *)

(* Memory is gone; the files are what the crash left of them. *)
MemoryLost ==
  /\ phase' = "down"
  /\ crashes' = crashes + 1
  /\ jq' = {} /\ jbuf' = {} /\ jop' = "idle" /\ jpending' = FALSE
  /\ jthread' = "dead" /\ jtick' = 0
  /\ snapq' = <<>> /\ tmp' = {} /\ swAlive' = FALSE
  /\ UNCHANGED <<durable, dropped, snap, faults>>
  /\ stopping' = FALSE
  /\ UNCHANGED <<world, clock, nrec, tickOf, rolled, sameTick>>

ProcessCrash ==
  /\ phase \notin {"off", "down"} /\ crashes < MaxCrashes
  /\ jfile' \in CrashImages(nrec + 1)
  /\ UNCHANGED jsync
  /\ MemoryLost

PowerLoss ==
  /\ crashes < MaxCrashes
  /\ jfile' \in PowerImages(nrec + 1)
  /\ jsync' = jfile'
  /\ MemoryLost

(* The last Tick marker of R, 0 when there is none. *)
IsLastMarker(k, R) ==
  \/ k = 0 /\ \A i \in R : tickOf[i] = 0
  \/ /\ k \in R /\ tickOf[k] # 0
     /\ \A i \in R : tickOf[i] # 0 => i <= k

(* load_with_content: the snapshot, then the journal when its header carries
   the snapshot's tick; JournalWriter::open keeps such a file and appends to
   it, and truncates any other. *)
Load ==
  /\ phase \in {"off", "down"}
  /\ LET R == Replay(jfile, snap) IN
     /\ world' = snap.body \cup R
     /\ \E k \in {0} \cup R :
          /\ IsLastMarker(k, R)
          /\ clock' = IF k = 0 THEN snap.tick ELSE tickOf[k]
  /\ OpenJournal(snap.tick)
  /\ jthread' = "loop" /\ jop' = "idle" /\ jtick' = 0 /\ jpending' = FALSE
  /\ durable' = durable \cap world' /\ dropped' = dropped \cap world'
  /\ swAlive' = TRUE
  /\ phase' = "run"
  /\ stopping' = FALSE
  /\ rolled' = snap
  /\ UNCHANGED <<jq, jbuf, snapq, tmp, snap, nrec, tickOf, crashes, sameTick, faults>>

----------------------------------------------------------------------------
WriterNext == WriterStep /\ UNCHANGED snapVars /\ UNCHANGED simVars

SnapshotNext == SnapshotStep /\ UNCHANGED journalVars /\ UNCHANGED simVars

SimNext ==
  \/ RecordDelta \/ Tick
  \/ RollSnapshot \/ RollSynchronously \/ RotateReturns
  \/ Shutdown \/ FlushReturns \/ JoinSnapshotWriter
  \/ DropSim \/ Dropped

Next ==
  \/ SimNext \/ WriterNext \/ SnapshotNext
  \/ ProcessCrash \/ PowerLoss \/ Load

Spec == Init /\ [][Next]_vars

(* The threads run; hosts, disks and users promise nothing. *)
Fairness ==
  /\ WF_vars(WriterNext)
  /\ WF_vars(SnapshotNext)
  /\ WF_vars(RollSnapshot \/ RollSynchronously \/ RotateReturns \/ FlushReturns
             \/ JoinSnapshotWriter \/ Dropped)

FairSpec == Spec /\ Fairness

----------------------------------------------------------------------------
(* Properties.                                                             *)

(* Every file image a crash at this moment can leave. *)
Outcomes == CrashImages(nrec + 1) \cup PowerImages(nrec + 1)

Recovered(e) == snap.body \cup Replay(e, snap)

IsPrefix(p, w, lost) ==
  /\ p \subseteq w
  /\ \A i \in w \ lost, j \in p : i <= j => i \in p

(* Whenever the program dies, the world the next load builds is the present
   one with its end cut off: no delta without those before it, none that the
   present world does not have.  A record whose write failed may be missing;
   after an error, snapshotting one
   tick twice is excluded (see ExactReplay in MCPersistence). *)
RecoveryHasNoGap ==
  ~sameTick \/ faults = 0 => \A e \in Outcomes : IsPrefix(Recovered(e), world, dropped)

(* No delta of the journal is applied to a snapshot that already has it,
   unless one tick was snapshotted twice. *)
ReplayAppliesOnce ==
  ~sameTick => \A e \in Outcomes : snap.body \cap Replay(e, snap) = {}

(* The journal file follows the renamed snapshot and has no torn record. *)
Paired == jfile.hdr = snap.tick /\ jfile.torn = 0

(* While the journal follows the snapshot under the final name, every record
   that an fsync ever covered survives any crash: of the records of the
   present world, only those not yet fsynced are at risk. *)
FsyncedRecordsSurviveWhilePaired ==
  Paired /\ ~sameTick => \A e \in Outcomes : durable \cap world \subseteq Recovered(e)

(* Without I/O errors the journal and the snapshot part only during a roll:
   once the writer's queue is empty they have the same tick again. *)
PairedOnceDrained ==
  faults = 0 /\ Drained /\ phase \in {"run", "join", "off"} => jfile.hdr = snap.tick

(* A stopped program loses nothing: when the Sim was dropped, with
   Sim::shutdown or without, and no I/O error occurred, the next load builds
   exactly the world that was dropped.  Without Sim::shutdown this needs a
   journal with no torn record. *)
CleanStopLosesNothing ==
  phase = "off" /\ faults = 0 /\ (jfile.torn = 0 \/ stopping) =>
    Recovered(jfile) = world /\ (~sameTick => snap.body \cap Replay(jfile, snap) = {})

(* What a renamed snapshot holds is never replaced by less: neither a late
   job of the background writer nor the synchronous fallback writes an older
   world over a newer one. *)
DurableFloorNeverRetreats == [][snap.body \subseteq snap'.body]_vars

(* The invariant behind it: the snapshots under way, from the renamed one
   through the temporary file to the youngest job in the queue, reflect more
   and more of the present world, and a writer that was joined has none left. *)
SnapshotsGrow ==
  /\ snap.body \subseteq world
  /\ \A j \in tmp : snap.body \subseteq j.body /\ j.body \subseteq world
  /\ \A i \in 1 .. Len(snapq) :
       /\ snap.body \subseteq snapq[i].body /\ snapq[i].body \subseteq world
       /\ \A j \in tmp : j.body \subseteq snapq[i].body
       /\ \A k \in i .. Len(snapq) : snapq[i].body \subseteq snapq[k].body
  /\ ~swAlive => /\ Drained /\ phase \notin {"roll", "shutroll"}
                 /\ stopping \/ phase = "down"
  /\ phase = "syncroll" => ~swAlive
  /\ phase \in {"off", "down"} => Drained
  /\ phase \in {"shutroll", "rotS", "flushing", "join"} => stopping

(* The store these files implement. *)
Store == INSTANCE CrashStore WITH hist <- world, floor <- snap.body
RefinesStore == Store!StoreSpec

(* A delta handed to the journal's channel is fsynced, in the journal or in a
   snapshot, unless a crash takes it first: without another append, too. *)
RecordsReachTheDisk ==
  \A i \in Ids : (i \in jq) ~> (i \in durable \cup snap.body \/ i \notin world \/ phase = "down")

(* Sim::shutdown and the Drop of the Sim end: neither waits for ever on its
   writer threads. *)
StopTerminates ==
  /\ (phase = "shutroll") ~> (phase \in {"run", "down"})
  /\ (phase = "dropping") ~> (phase \in {"off", "down"})
============================================================================
