---------------------------- MODULE SnapshotFile ----------------------------
(***************************************************************************)
(* The snapshot file of simn-sim (persistence/snapshot.rs) and the         *)
(* background thread that writes it (persistence/snapshot_writer.rs).      *)
(*                                                                         *)
(* A snapshot is [tick, body]: the clock it is labelled with and the set   *)
(* of records the serialized world reflects.  write_snapshot_bytes writes  *)
(* and fsyncs a temporary file and renames it, so the file under the final *)
(* name is always a complete snapshot.                                     *)
(***************************************************************************)
EXTENDS Records, Sequences

VARIABLES
  snapq,       \* jobs in the writer's channel, oldest first
  tmp,         \* the job whose bytes are in the temporary file, as a set of at most one
  snap,        \* the snapshot under its final name
  swAlive      \* the writer thread exists

snapVars == <<snapq, tmp, snap, swAlive>>

Job == [tick : Nat, body : SUBSET Ids]

SnapTypeOK ==
  /\ snapq \in Seq(Job)
  /\ tmp \in SUBSET Job
  /\ snap \in Job
  /\ swAlive \in BOOLEAN

(* new_with_seed_and_content writes the seed world's snapshot at tick 0. *)
SnapInit ==
  /\ snapq = <<>>
  /\ tmp = {}
  /\ snap = [tick |-> 0, body |-> {}]
  /\ swAlive = TRUE

Enqueue(job) == snapq' = Append(snapq, job)

Drained == snapq = <<>> /\ tmp = {}

(* Fault model: the writer takes the newest job first. *)
WriteTmpNewestFirst ==
  /\ tmp = {} /\ snapq # <<>>
  /\ tmp' = {snapq[Len(snapq)]}
  /\ snapq' = SubSeq(snapq, 1, Len(snapq) - 1)
  /\ UNCHANGED <<snap, swAlive, faults>>

(* The writer takes the oldest job, writes its bytes to the temporary file. *)
WriteTmp ==
  /\ tmp = {} /\ snapq # <<>>
  /\ tmp' = {Head(snapq)}
  /\ snapq' = Tail(snapq)
  /\ UNCHANGED <<snap, swAlive, faults>>

Rename ==
  /\ \E job \in tmp : snap' = job
  /\ tmp' = {}
  /\ UNCHANGED <<snapq, swAlive, faults>>

(* Any of create, write, fsync and rename fails: a warning, the job is gone. *)
WriteLost ==
  /\ Fault
  /\ tmp # {}
  /\ tmp' = {}
  /\ UNCHANGED <<snapq, snap, swAlive>>

SnapshotStep == WriteTmp \/ Rename \/ WriteLost
=============================================================================
