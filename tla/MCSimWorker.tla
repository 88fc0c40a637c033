---------------------------- MODULE MCSimWorker ----------------------------
(***************************************************************************)
(* SimWorker for TLC, with a claim its comments make of inspects.          *)
(***************************************************************************)
EXTENDS SimWorker

(* worker/runtime.rs, lines 387-391: an inspect "observes a fully-applied
   command queue (any cmds enqueued before the inspect on the main thread
   will have been drained on previous iterations)".  No inspect is served
   while a command sent before it is still in the channel. *)
InspectSeesEarlierCommands ==
  pc \in {"inspects", "last"} => \A before \in insp : Len(applied) >= before
============================================================================
