--------------------------- MODULE MCPersistence ---------------------------
(***************************************************************************)
(* Persistence for TLC, with the claims the documentation makes without    *)
(* the conditions under which Persistence holds them.                      *)
(***************************************************************************)
EXTENDS Persistence

(* persistence/journal.rs, lines 13-14: "A crash between fsyncs loses at
   most the unflushed tail".  No record of the present world that an fsync
   covered is lost to a crash, also while a snapshot is being rolled. *)
FsyncedRecordsSurvive == \A e \in Outcomes : durable \cap world \subseteq Recovered(e)

(* The same claim with the roll left out: the journal follows the renamed
   snapshot, but an earlier crash may have left a torn record in it
   (lines 14-15: "a crash mid-write leaves a torn record that
   [`read_journal`] skips"). *)
FsyncedRecordsSurviveATornTail ==
  jfile.hdr = snap.tick /\ ~sameTick /\ dropped = {} =>
    \A e \in Outcomes : durable \cap world \subseteq Recovered(e)

(* delta.rs, lines 3-5: "Applying a series of deltas on top of a snapshot
   reconstructs the state exactly".  No load applies a delta to a snapshot
   that already holds it, also when one tick is snapshotted twice. *)
ExactReplay == \A e \in Outcomes : snap.body \cap Replay(e, snap) = {}
============================================================================
