----------------------------- MODULE SimWorker -----------------------------
(***************************************************************************)
(* The worker thread that owns the Sim (worker/runtime.rs) and the main    *)
(* thread that talks to it: a bounded command channel, blocking inspects,  *)
(* published cells, a bounded channel of delta batches, the shutdown       *)
(* signal and the join.                                                    *)
(*                                                                         *)
(* A command is its number, in the order the main thread sent them; each   *)
(* dispatched command stands for the delta it records.  Time is counted in *)
(* fractions of a tick period: left is next_deadline minus now.            *)
(***************************************************************************)
EXTENDS Integers, SequencesExt

CONSTANTS
  Period,      \* TICK_PERIOD in units of time
  MaxLag,      \* bound on how late a deadline is noticed
  CmdCap,      \* COMMAND_CHANNEL_CAPACITY
  DeltaCap,    \* capacity of the channel of delta batches
  MaxCmds,     \* bound on the commands sent
  MaxTicks     \* bound on the ticks run

ASSUME WorkerAssumption ==
  /\ {Period, CmdCap, DeltaCap} \subseteq Nat \ {0}
  /\ {MaxLag, MaxCmds, MaxTicks} \subseteq Nat

Cmds == 1 .. MaxCmds
None == 0    \* no snapshot or view published yet

VARIABLES
  main,      \* what the main thread is doing
  sent,      \* commands accepted by the channel
  cmdq,      \* the command channel
  closed,    \* the main thread dropped its SimWorker without shutdown
  insp,      \* the inspect in its channel: a set of at most one, the commands sent before it
  reply,     \* the answer to the inspect
  stop,      \* a signal is in the shutdown channel
  pc,        \* where run_sim_loop is
  left,      \* time left to next_deadline, negative when it has passed
  applied,   \* commands dispatched, in order
  tick,      \* the Sim's clock
  undrained, \* Sim.last_tick_deltas
  deltaq,    \* the channel of delta batches
  got,       \* deltas the main thread has received
  prevSnap,  \* prev_snapshot of the loop
  pair,      \* the published snapshot pair
  view,      \* the published view: its tick and what had been dispatched
  lost,      \* history: deltas of the batches dropped
  stamp,     \* history: the tick of the published view when a command was sent
  starved,   \* history: commands a round left in the channel for lack of time
  since      \* history: time since the end of the last round and of the one before

chanVars == <<cmdq, closed, insp, reply, stop>>
cellVars == <<prevSnap, pair, view>>
deltaVars == <<undrained, deltaq, got, lost>>
historyVars == <<stamp, starved>>
vars == <<main, sent, chanVars, pc, left, since, applied, tick, deltaVars, cellVars, historyVars>>

Pcs == {"inspects", "recv", "last", "check", "tick", "forward", "pair", "view", "exited"}

TypeOK ==
  /\ main \in {"idle", "inspecting", "saving", "signal", "joining", "gone"}
  /\ sent \in 0 .. MaxCmds
  /\ cmdq \in Seq(Cmds) /\ Len(cmdq) <= CmdCap
  /\ closed \in BOOLEAN /\ stop \in BOOLEAN
  /\ insp \in SUBSET (0 .. MaxCmds)
  /\ reply \in {"none", "ok", "err"}
  /\ pc \in Pcs
  /\ left \in -MaxLag .. Period
  /\ applied \in Seq(Cmds)
  /\ tick \in 0 .. MaxTicks
  /\ undrained \in Seq(Cmds) /\ got \in Seq(Cmds)
  /\ deltaq \in Seq(Seq(Cmds)) /\ Len(deltaq) <= DeltaCap
  /\ prevSnap \in 0 .. MaxTicks
  /\ pair \in [prev : 0 .. MaxTicks, curr : 0 .. MaxTicks]
  /\ view \in [tick : 0 .. MaxTicks, shows : SUBSET Cmds]
  /\ lost \in SUBSET Cmds /\ starved \in SUBSET Cmds
  /\ stamp \in [Cmds -> 0 .. MaxTicks]
  /\ since \in [last : 0 .. Period, prior : 0 .. Period]

Init ==
  /\ main = "idle" /\ sent = 0
  /\ cmdq = <<>> /\ closed = FALSE /\ insp = {} /\ reply = "none" /\ stop = FALSE
  /\ pc = "inspects" /\ left = Period
  /\ applied = <<>> /\ tick = 0
  /\ undrained = <<>> /\ deltaq = <<>> /\ got = <<>> /\ lost = {}
  /\ prevSnap = None /\ pair = [prev |-> None, curr |-> None]
  /\ view = [tick |-> None, shows |-> {}]
  /\ stamp = [c \in Cmds |-> 0] /\ starved = {}
  /\ since = [last |-> Period, prior |-> Period]

----------------------------------------------------------------------------
(* The main thread.                                                        *)

workerVars == <<pc, left, since, applied, tick, undrained, deltaq, lost, cellVars>>

(* Fault model: a full channel makes room by dropping its oldest command. *)
SendOverwrites ==
  /\ main = "idle" /\ sent < MaxCmds /\ pc # "exited"
  /\ sent' = sent + 1
  /\ cmdq' = Append(IF Len(cmdq) < CmdCap THEN cmdq ELSE Tail(cmdq), sent + 1)
  /\ stamp' = [stamp EXCEPT ![sent + 1] = view.tick]
  /\ UNCHANGED <<main, closed, insp, reply, stop, got, starved>>
  /\ UNCHANGED workerVars

(* SimWorker::send is a try_send: accepted, or refused when the channel is
   full or the worker gone. *)
Send ==
  /\ main = "idle" /\ sent < MaxCmds
  /\ pc # "exited" /\ Len(cmdq) < CmdCap
  /\ sent' = sent + 1
  /\ cmdq' = Append(cmdq, sent + 1)
  /\ stamp' = [stamp EXCEPT ![sent + 1] = view.tick]
  /\ UNCHANGED <<main, closed, insp, reply, stop, got, starved>>
  /\ UNCHANGED workerVars

(* SimWorker::inspect: enqueue the closure, block on the reply.  The host
   also stops the Sim this way before it stops the worker. *)
CallInspect(why) ==
  /\ main = "idle"
  /\ main' = why
  /\ IF pc = "exited" THEN reply' = "err" /\ UNCHANGED insp
     ELSE insp' = {sent} /\ reply' = "none"
  /\ UNCHANGED <<sent, cmdq, closed, stop, got, historyVars>>
  /\ UNCHANGED workerVars

InspectReturns ==
  /\ main \in {"inspecting", "saving"} /\ reply # "none"
  /\ main' = IF main = "saving" THEN "signal" ELSE "idle"
  /\ reply' = "none"
  /\ UNCHANGED <<sent, cmdq, closed, insp, stop, got, historyVars>>
  /\ UNCHANGED workerVars

(* SimWorker::shutdown: one signal, then the join, then the handle is dropped. *)
SignalShutdown ==
  /\ main = "signal"
  /\ main' = "joining"
  /\ stop' = TRUE
  /\ UNCHANGED <<sent, cmdq, closed, insp, reply, got, historyVars>>
  /\ UNCHANGED workerVars

Joined ==
  /\ main = "joining" /\ pc = "exited"
  /\ main' = "gone"
  /\ UNCHANGED <<sent, chanVars, got, historyVars>>
  /\ UNCHANGED workerVars

(* The host goes away without SimHost::shutdown: all senders are dropped. *)
Abandon ==
  /\ main = "idle"
  /\ main' = "gone"
  /\ closed' = TRUE
  /\ UNCHANGED <<sent, cmdq, insp, reply, stop, got, historyVars>>
  /\ UNCHANGED workerVars

(* SimWorker::drain_tick_deltas, once per rendered frame. *)
DrainDeltas ==
  /\ main = "idle" /\ deltaq # <<>>
  /\ got' = got \o FlattenSeq(deltaq)
  /\ deltaq' = <<>>
  /\ UNCHANGED <<main, sent, chanVars, historyVars>>
  /\ UNCHANGED <<pc, left, since, applied, tick, undrained, lost, cellVars>>

----------------------------------------------------------------------------
(* run_sim_loop.                                                           *)

loopUnchanged == UNCHANGED <<main, sent, got, stamp>>

(* Inspects are served first in every round of the drain loop, and once more
   before the tick. *)
ServeInspect ==
  /\ pc \in {"inspects", "last"} /\ insp # {}
  /\ insp' = {} /\ reply' = "ok"
  /\ loopUnchanged
  /\ UNCHANGED <<cmdq, closed, stop, pc, left, since, applied, tick, starved>>
  /\ UNCHANGED <<undrained, deltaq, lost, cellVars>>

(* No inspect is waiting: receive a command, unless the deadline has passed. *)
EndInspects ==
  /\ pc = "inspects" /\ insp = {}
  /\ IF left > 0 THEN pc' = "recv" /\ UNCHANGED starved
     ELSE pc' = "last" /\ starved' = starved \cup ToSet(cmdq)
  /\ loopUnchanged
  /\ UNCHANGED <<chanVars, left, since, applied, tick>>
  /\ UNCHANGED <<undrained, deltaq, lost, cellVars>>

(* Fault model: one dispatch per round of the outer loop. *)
DispatchOncePerTick ==
  /\ pc = "recv" /\ cmdq # <<>>
  /\ cmdq' = Tail(cmdq)
  /\ applied' = Append(applied, Head(cmdq))
  /\ undrained' = Append(undrained, Head(cmdq))
  /\ pc' = "last"
  /\ loopUnchanged
  /\ UNCHANGED <<closed, insp, reply, stop, left, since, tick, starved>>
  /\ UNCHANGED <<deltaq, lost, cellVars>>

Dispatch ==
  /\ pc = "recv" /\ cmdq # <<>>
  /\ cmdq' = Tail(cmdq)
  /\ applied' = Append(applied, Head(cmdq))
  /\ undrained' = Append(undrained, Head(cmdq))
  /\ pc' = "inspects"
  /\ loopUnchanged
  /\ UNCHANGED <<closed, insp, reply, stop, left, since, tick, starved>>
  /\ UNCHANGED <<deltaq, lost, cellVars>>

RecvTimeout ==
  /\ pc = "recv" /\ cmdq = <<>> /\ left <= 0 /\ ~closed
  /\ pc' = "last"
  /\ loopUnchanged
  /\ UNCHANGED <<chanVars, left, since, applied, tick, starved>>
  /\ UNCHANGED <<undrained, deltaq, lost, cellVars>>

(* Fault model: the queued inspect outlives the loop that should serve it. *)
ExitKeepsInspects ==
  /\ pc' = "exited"
  /\ cmdq' = <<>>
  /\ UNCHANGED <<main, sent, closed, insp, reply, stop, left, since, applied, tick>>
  /\ UNCHANGED <<deltaVars, cellVars, historyVars>>

(* The loop returns or unwinds: its ends of the channels are dropped, a
   waiting inspect gets an error, the commands in the channel are gone. *)
Exit ==
  /\ pc' = "exited"
  /\ cmdq' = <<>> /\ insp' = {}
  /\ reply' = IF insp # {} THEN "err" ELSE reply
  /\ UNCHANGED <<main, sent, closed, stop, left, since, applied, tick>>
  /\ UNCHANGED <<deltaVars, cellVars, historyVars>>

RecvDisconnected ==
  /\ pc = "recv" /\ cmdq = <<>> /\ closed
  /\ Exit

EndLastInspects ==
  /\ pc = "last" /\ insp = {}
  /\ pc' = "check"
  /\ loopUnchanged
  /\ UNCHANGED <<chanVars, left, since, applied, tick, starved>>
  /\ UNCHANGED <<undrained, deltaq, lost, cellVars>>

(* Fault model: the signal is looked for and left in the channel unread. *)
CheckShutdownIgnored ==
  /\ pc = "check"
  /\ pc' = "tick"
  /\ loopUnchanged
  /\ UNCHANGED <<chanVars, left, since, applied, tick, starved>>
  /\ UNCHANGED <<undrained, deltaq, lost, cellVars>>

CheckShutdown ==
  /\ pc = "check"
  /\ \/ stop /\ Exit
     \/ /\ ~stop
        /\ pc' = "tick"
        /\ loopUnchanged
        /\ UNCHANGED <<chanVars, left, since, applied, tick, starved>>
        /\ UNCHANGED <<undrained, deltaq, lost, cellVars>>

(* sim.tick() succeeds. *)
Tick ==
  /\ pc = "tick" /\ tick < MaxTicks
  /\ tick' = tick + 1
  /\ pc' = "forward"
  /\ loopUnchanged
  /\ UNCHANGED <<chanVars, left, since, applied, starved>>
  /\ UNCHANGED <<undrained, deltaq, lost, cellVars>>

(* sim.tick() fails or panics, and the loop ends. *)
TickFails ==
  /\ pc = "tick"
  /\ Exit

(* Fault model: the deltas are copied, not taken. *)
ForwardDeltasCopied ==
  /\ pc = "forward"
  /\ IF undrained # <<>> /\ Len(deltaq) < DeltaCap
     THEN deltaq' = Append(deltaq, undrained) /\ UNCHANGED lost
     ELSE lost' = lost \cup ToSet(undrained) /\ UNCHANGED deltaq
  /\ pc' = "pair"
  /\ loopUnchanged
  /\ UNCHANGED <<chanVars, undrained, left, since, applied, tick, starved, cellVars>>

(* Fault model: the channel of batches has no bound. *)
ForwardDeltasUnbounded ==
  /\ pc = "forward"
  /\ undrained' = <<>>
  /\ deltaq' = IF undrained = <<>> THEN deltaq ELSE Append(deltaq, undrained)
  /\ pc' = "pair"
  /\ loopUnchanged
  /\ UNCHANGED <<chanVars, lost, left, since, applied, tick, starved, cellVars>>

(* Drain last_tick_deltas and try_send the batch; when the channel is full
   the batch is gone. *)
ForwardDeltas ==
  /\ pc = "forward"
  /\ undrained' = <<>>
  /\ IF undrained = <<>> THEN UNCHANGED <<deltaq, lost>>
     ELSE IF Len(deltaq) < DeltaCap THEN deltaq' = Append(deltaq, undrained) /\ UNCHANGED lost
     ELSE lost' = lost \cup ToSet(undrained) /\ UNCHANGED deltaq
  /\ pc' = "pair"
  /\ loopUnchanged
  /\ UNCHANGED <<chanVars, left, since, applied, tick, starved, cellVars>>

(* Fault model: the pair is published before there is a previous snapshot. *)
PublishPairAlways ==
  /\ pc = "pair"
  /\ pair' = [prev |-> prevSnap, curr |-> tick]
  /\ prevSnap' = tick
  /\ pc' = "view"
  /\ loopUnchanged
  /\ UNCHANGED <<chanVars, left, since, applied, tick, starved>>
  /\ UNCHANGED <<undrained, deltaq, lost, view>>

(* The snapshot pair is published from the second tick on. *)
PublishPair ==
  /\ pc = "pair"
  /\ pair' = IF prevSnap = None THEN pair ELSE [prev |-> prevSnap, curr |-> tick]
  /\ prevSnap' = tick
  /\ pc' = "view"
  /\ loopUnchanged
  /\ UNCHANGED <<chanVars, left, since, applied, tick, starved>>
  /\ UNCHANGED <<undrained, deltaq, lost, view>>

(* Fault model: missed deadlines are kept and made up for. *)
NextDeadlineCatchUp(l) == l + Period

(* next_deadline advances by whole periods until it is no longer past. *)
NextDeadline(l) == IF l + Period >= 0 THEN l + Period ELSE l % Period

PublishView ==
  /\ pc = "view"
  /\ view' = [tick |-> tick, shows |-> ToSet(applied)]
  /\ left' = NextDeadline(left)
  /\ since' = [last |-> 0, prior |-> since.last]
  /\ pc' = "inspects"
  /\ loopUnchanged
  /\ UNCHANGED <<chanVars, applied, tick, starved>>
  /\ UNCHANGED <<undrained, deltaq, lost, prevSnap, pair>>

(* MaxTicks bounds the model: past it the loop goes round without a tick. *)
RoundPastBound ==
  /\ pc = "tick" /\ tick = MaxTicks
  /\ left' = NextDeadline(left)
  /\ pc' = "inspects"
  /\ loopUnchanged
  /\ UNCHANGED <<chanVars, since, applied, tick, starved>>
  /\ UNCHANGED <<undrained, deltaq, lost, cellVars>>

Capped(n) == IF n < Period THEN n + 1 ELSE Period

(* Time passes, whatever the threads are doing. *)
Elapse ==
  /\ left > -MaxLag /\ pc # "exited"
  /\ left' = left - 1
  /\ since' = [last |-> Capped(since.last), prior |-> Capped(since.prior)]
  /\ UNCHANGED <<main, sent, chanVars, pc, applied, tick, deltaVars, cellVars, historyVars>>

MainNext ==
  \/ Send \/ CallInspect("inspecting") \/ CallInspect("saving") \/ InspectReturns
  \/ SignalShutdown \/ Joined \/ Abandon \/ DrainDeltas

WorkerNext ==
  \/ ServeInspect \/ EndInspects \/ Dispatch \/ RecvTimeout \/ RecvDisconnected
  \/ EndLastInspects \/ CheckShutdown \/ Tick \/ TickFails
  \/ ForwardDeltas \/ PublishPair \/ PublishView \/ RoundPastBound

Next == MainNext \/ WorkerNext \/ Elapse

Spec == Init /\ [][Next]_vars

(* The worker thread runs, time passes, a blocked main thread wakes up when
   its answer or the join is there. *)
Fairness ==
  /\ WF_vars(WorkerNext) /\ WF_vars(Elapse)
  /\ WF_vars(InspectReturns) /\ WF_vars(SignalShutdown) /\ WF_vars(Joined)

FairSpec == Spec /\ Fairness

----------------------------------------------------------------------------
(* Properties.                                                             *)

(* While the worker lives, every command the channel accepted is either
   dispatched or still queued: once, and in the order it was sent. *)
CommandsOnceInOrder ==
  LET all == applied \o cmdq IN
  /\ all = [i \in 1 .. Len(all) |-> i]
  /\ pc # "exited" => Len(all) = sent

(* A command is visible in the view two ticks after the view its sender saw,
   unless a round ran out of time with the command still in the channel. *)
VisibleInTwoTicks ==
  \A c \in 1 .. sent : c \notin starved /\ view.tick >= stamp[c] + 2 => c \in view.shows

(* The renderer never lerps over a missing tick, and the pair and the view
   it reads are at most one publication apart. *)
PublishedTogether ==
  /\ pair.curr # None => /\ pair.prev # None /\ pair.curr = pair.prev + 1
                         /\ view.tick \in {pair.prev, pair.curr}
  /\ pair.curr = None => view.tick <= 1

(* The main thread receives each delta once and in order, except for whole
   batches that found the channel full. *)
DeltasOnceInOrder ==
  LET all == got \o FlattenSeq(deltaq) \o undrained IN
  /\ \A i, j \in 1 .. Len(all) : i < j => all[i] < all[j]
  /\ ToSet(all) = ToSet(applied) \ lost

(* Missed deadlines are not made up for: a third tick never starts within a
   period of the end of the first. *)
NoDoubleTick == pc = "forward" => since.prior >= Period

(* A blocked inspect always returns, with an answer or with an error, also
   when the worker dies with the inspect in its channel. *)
InspectsReturn == (main \in {"inspecting", "saving"}) ~> (main \notin {"inspecting", "saving"})

(* SimWorker::shutdown returns. *)
ShutdownJoins == (main = "signal") ~> (main = "gone")
============================================================================
