----------------------------- MODULE HostProofs -----------------------------
(***************************************************************************)
(* Proofs about the host: the thread that runs the simulation (SimWorker), *)
(* for every length of the period, every capacity of the two channels and  *)
(* every bound on commands, ticks and lag; the mirrors of its world that   *)
(* mates keep (Mirrors), for any number of mates, deeds, frames, requests  *)
(* and refused packets; and the standings it keeps, and journals, for      *)
(* factions and players (Factions), for any content and any shifts.        *)
(***************************************************************************)
EXTENDS SimWorker, Mirrors, Factions, SequencesExt, SequenceTheorems, FiniteSetTheorems, TLAPS

INSTANCE SequenceLemmas WITH Op <- ApplyWorldDelta

----------------------------------------------------------------------------
(* Type correctness.                                                       *)

(* The part of the round from the moment the loop stops receiving. *)
Late == {"last", "check", "tick", "forward", "pair", "view"}

(* The clock of the loop: a round ends receiving only once its deadline has
   passed, and what has been published is no younger than the clock. *)
Typed ==
  /\ TypeOK
  /\ pc \in Late => left <= 0
  /\ pc \in {"forward", "pair", "view"} => tick >= 1

(* What the assumption on the constants says of each. *)
LEMMA Bounds ==
  /\ Period \in Nat /\ Period >= 1 /\ CmdCap \in Nat /\ CmdCap >= 1
  /\ DeltaCap \in Nat /\ DeltaCap >= 1
  /\ MaxLag \in Nat /\ MaxCmds \in Nat /\ MaxTicks \in Nat
  BY WorkerAssumption

(* next_deadline is never in the past nor more than a period away, and
   advances by a period at least. *)
LEMMA NextDeadlineType ==
  ASSUME NEW l \in Int, l <= 0
  PROVE  NextDeadline(l) \in 0 .. Period /\ NextDeadline(l) >= l + Period
<1>1. Period \in Nat /\ Period > 0
  BY Bounds
<1>2. l % Period \in 0 .. Period - 1
  BY <1>1
<1> QED BY <1>1, <1>2 DEF NextDeadline

LEMMA InitTyped == Init => Typed
<1> SUFFICES ASSUME Init PROVE Typed
  OBVIOUS
<1>1. <<>> \in Seq(Cmds) /\ <<>> \in Seq(Seq(Cmds)) /\ Len(<<>>) = 0
  BY EmptySeq
<1>2. 0 \in 0 .. MaxTicks /\ 0 \in 0 .. MaxCmds /\ Period \in -MaxLag .. Period /\ Period \in 0 .. Period
  BY WorkerAssumption
<1>3. CmdCap >= 0 /\ DeltaCap >= 0
  BY WorkerAssumption
<1> QED BY <1>1, <1>2, <1>3 DEF Init, Typed, TypeOK, None, Pcs, Late

(* The end of the loop drops the commands and answers a waiting inspect. *)
LEMMA ExitTyped == ASSUME Typed, Exit PROVE Typed'
<1>1. cmdq' \in Seq(Cmds) /\ Len(cmdq') = 0 /\ 0 <= CmdCap
  BY EmptySeq, Bounds DEF Exit
<1>2. insp' \in SUBSET (0 .. MaxCmds) /\ reply' \in {"none", "ok", "err"} /\ pc' = "exited"
  BY DEF Exit, Typed, TypeOK
<1>3. /\ UNCHANGED <<main, sent, closed, stop, left, since, applied, tick>>
      /\ UNCHANGED <<undrained, deltaq, got, lost, prevSnap, pair, view, stamp, starved>>
  BY DEF Exit, deltaVars, cellVars, historyVars
<1> QED BY <1>1, <1>2, <1>3 DEF Typed, TypeOK, Pcs, Late

(* A step of the main thread. *)
LEMMA MainTyped == ASSUME Typed, MainNext PROVE Typed'
<1> USE DEF Typed, TypeOK, workerVars, cellVars, chanVars, historyVars
<1>1. CASE Send
  <2>1. sent + 1 \in Cmds /\ sent' \in 0 .. MaxCmds
    BY <1>1, Bounds DEF Send, Cmds
  <2>2. cmdq' \in Seq(Cmds) /\ Len(cmdq') = Len(cmdq) + 1 /\ Len(cmdq) < CmdCap /\ Len(cmdq) \in Nat
    BY <1>1, <2>1, AppendProperties, LenProperties DEF Send
  <2>3. Len(cmdq') <= CmdCap
    BY <2>2, Bounds
  <2>4. stamp' \in [Cmds -> 0 .. MaxTicks]
    BY <1>1 DEF Send
  <2> QED BY <1>1, <2>1, <2>2, <2>3, <2>4 DEF Send
<1>2. ASSUME NEW why \in {"inspecting", "saving"}, CallInspect(why) PROVE Typed'
  BY <1>2 DEF CallInspect
<1>3. CASE InspectReturns
  BY <1>3 DEF InspectReturns
<1>4. CASE SignalShutdown
  BY <1>4 DEF SignalShutdown
<1>5. CASE Joined
  BY <1>5 DEF Joined
<1>6. CASE Abandon
  BY <1>6 DEF Abandon
<1>7. CASE DrainDeltas
  <2>1. got' \in Seq(Cmds)
    BY <1>7, FlattenType, ConcatProperties DEF DrainDeltas
  <2>2. deltaq' \in Seq(Seq(Cmds)) /\ Len(deltaq') <= DeltaCap
    BY <1>7, EmptySeq, Bounds DEF DrainDeltas
  <2> QED BY <1>7, <2>1, <2>2 DEF DrainDeltas
<1> QED BY <1>1, <1>2, <1>3, <1>4, <1>5, <1>6, <1>7 DEF MainNext

(* A step of the worker. *)
LEMMA WorkerTyped == ASSUME Typed, WorkerNext PROVE Typed'
<1> USE DEF Typed, TypeOK, Pcs, Late, loopUnchanged, cellVars, chanVars
<1>1. CASE ServeInspect
  BY <1>1 DEF ServeInspect
<1>2. CASE EndInspects
  <2>1. ToSet(cmdq) \in SUBSET Cmds
    BY ToSetOfSeq
  <2> QED BY <1>2, <2>1 DEF EndInspects
<1>3. CASE Dispatch
  <2>1. Head(cmdq) \in Cmds /\ Tail(cmdq) \in Seq(Cmds) /\ Len(Tail(cmdq)) = Len(cmdq) - 1
    BY <1>3, HeadTailProperties DEF Dispatch
  <2>2. /\ Append(applied, Head(cmdq)) \in Seq(Cmds)
        /\ Append(undrained, Head(cmdq)) \in Seq(Cmds)
    BY <2>1, AppendProperties
  <2>3. Len(Tail(cmdq)) <= CmdCap
    BY <2>1, Bounds, LenProperties
  <2> QED BY <1>3, <2>1, <2>2, <2>3 DEF Dispatch
<1>4. CASE RecvTimeout
  BY <1>4 DEF RecvTimeout
<1>5. CASE RecvDisconnected
  BY <1>5, ExitTyped DEF RecvDisconnected
<1>6. CASE EndLastInspects
  BY <1>6 DEF EndLastInspects
<1>7. CASE CheckShutdown
  <2>1. CASE Exit
    BY <2>1, ExitTyped
  <2>2. CASE ~stop
    BY <1>7, <2>2 DEF CheckShutdown
  <2> QED BY <1>7, <2>1, <2>2 DEF CheckShutdown
<1>8. CASE Tick
  <2>1. tick' \in 0 .. MaxTicks /\ tick' >= 1
    BY <1>8, Bounds DEF Tick
  <2> QED BY <1>8, <2>1 DEF Tick
<1>9. CASE TickFails
  BY <1>9, ExitTyped DEF TickFails
<1>10. CASE ForwardDeltas
  <2>1. undrained' \in Seq(Cmds)
    BY <1>10, EmptySeq DEF ForwardDeltas
  <2>2. deltaq' \in Seq(Seq(Cmds)) /\ Len(deltaq') <= DeltaCap
    <3>1. CASE deltaq' = deltaq
      BY <3>1
    <3>2. CASE Len(deltaq) < DeltaCap /\ deltaq' = Append(deltaq, undrained)
      BY <3>2, Bounds, AppendProperties, LenProperties
    <3> QED BY <1>10, <3>1, <3>2 DEF ForwardDeltas
  <2>3. lost' \in SUBSET Cmds
    BY <1>10, ToSetOfSeq DEF ForwardDeltas
  <2> QED BY <1>10, <2>1, <2>2, <2>3 DEF ForwardDeltas
<1>11. CASE PublishPair
  BY <1>11 DEF PublishPair
<1>12. CASE PublishView
  <2>1. left' \in -MaxLag .. Period
    <3>1. left \in Int /\ left <= 0 /\ left' = NextDeadline(left)
      BY <1>12 DEF PublishView
    <3>2. left' \in 0 .. Period
      BY <3>1, NextDeadlineType
    <3> QED BY <3>2, Bounds
  <2>2. ToSet(applied) \in SUBSET Cmds
    BY ToSetOfSeq
  <2>3. view' \in [tick : 0 .. MaxTicks, shows : SUBSET Cmds]
    BY <1>12, <2>2 DEF PublishView
  <2>4. since' \in [last : 0 .. Period, prior : 0 .. Period]
    BY <1>12, Bounds DEF PublishView
  <2> QED BY <1>12, <2>1, <2>3, <2>4 DEF PublishView
<1>13. CASE RoundPastBound
  <2>1. left' \in -MaxLag .. Period
    <3>1. left \in Int /\ left <= 0 /\ left' = NextDeadline(left)
      BY <1>13 DEF RoundPastBound
    <3>2. left' \in 0 .. Period
      BY <3>1, NextDeadlineType
    <3> QED BY <3>2, Bounds
  <2> QED BY <1>13, <2>1 DEF RoundPastBound
<1> QED
  BY <1>1, <1>2, <1>3, <1>4, <1>5, <1>6, <1>7, <1>8, <1>9, <1>10, <1>11, <1>12, <1>13
  DEF WorkerNext

(* The passing of time. *)
LEMMA ElapseTyped == ASSUME Typed, Elapse PROVE Typed'
<1>1. left' \in -MaxLag .. Period /\ left' <= left
  BY Bounds DEF Elapse, Typed, TypeOK
<1>2. \A n \in 0 .. Period : Capped(n) \in 0 .. Period
  BY Bounds DEF Capped
<1>3. since' \in [last : 0 .. Period, prior : 0 .. Period]
  BY <1>2 DEF Elapse, Typed, TypeOK
<1>4. pc' \in Late => left' <= 0
  BY <1>1 DEF Elapse, Typed, TypeOK, Late
<1>5. /\ UNCHANGED <<main, sent, cmdq, closed, insp, reply, stop, pc, applied, tick>>
      /\ UNCHANGED <<undrained, deltaq, got, lost, prevSnap, pair, view, stamp, starved>>
  BY DEF Elapse, chanVars, cellVars, deltaVars, historyVars
<1> QED BY <1>1, <1>3, <1>4, <1>5 DEF Typed, TypeOK

LEMMA NextTyped == ASSUME Typed, [Next]_vars PROVE Typed'
<1>1. CASE UNCHANGED vars
  BY <1>1 DEF Typed, TypeOK, Late, vars, chanVars, cellVars, deltaVars, historyVars
<1> QED BY <1>1, MainTyped, WorkerTyped, ElapseTyped DEF Next

(* The types of everything the two threads share, and the two facts about
   the worker's clock, hold in every state. *)
THEOREM AlwaysTyped == Spec => []Typed
  BY InitTyped, NextTyped, PTL DEF Spec

(* Type correctness. *)
THEOREM TypeCorrect == Spec => []TypeOK
  BY AlwaysTyped, PTL DEF Typed

----------------------------------------------------------------------------
(* What the steps leave alone.                                             *)

(* Only the worker moves its loop, its clock and what it publishes. *)
LEMMA OnlyTheWorker ==
  ASSUME [Next]_vars, ~WorkerNext
  PROVE  UNCHANGED <<pc, applied, tick, undrained, lost, prevSnap, pair, view, starved>>
<1> USE DEF workerVars, chanVars, cellVars, deltaVars, historyVars
<1>1. CASE MainNext
  BY <1>1 DEF MainNext, Send, CallInspect, InspectReturns, SignalShutdown, Joined, Abandon, DrainDeltas
<1>2. CASE Elapse
  BY <1>2 DEF Elapse
<1> QED BY <1>1, <1>2 DEF Next, vars

(* Commands enter the channel by Send, leave it by Dispatch, and are lost
   with it when the loop ends. *)
LEMMA CommandSteps ==
  ASSUME [Next]_vars
  PROVE  Send \/ Dispatch \/ Exit \/ (UNCHANGED <<sent, cmdq, applied>> /\ (pc' = "exited" <=> pc = "exited"))
<1> USE DEF workerVars, chanVars, cellVars, deltaVars, historyVars, loopUnchanged
<1>1. CASE MainNext
  BY <1>1 DEF MainNext, CallInspect, InspectReturns, SignalShutdown, Joined, Abandon, DrainDeltas
<1>2. CASE WorkerNext
  BY <1>2 DEF WorkerNext, ServeInspect, EndInspects, RecvTimeout, RecvDisconnected, EndLastInspects,
       CheckShutdown, Tick, TickFails, ForwardDeltas, PublishPair, PublishView, RoundPastBound
<1>3. CASE Elapse
  BY <1>3 DEF Elapse
<1> QED BY <1>1, <1>2, <1>3 DEF Next, vars

----------------------------------------------------------------------------
(* Publication.                                                            *)

(* How far the cells are behind the clock at each point of a round. *)
Published ==
  /\ prevSnap = IF pc \in {"forward", "pair"} THEN tick - 1 ELSE tick
  /\ view.tick = IF pc \in {"forward", "pair", "view"} THEN tick - 1 ELSE tick
  /\ pair.curr # None => pair.curr = prevSnap /\ pair.prev = prevSnap - 1 /\ pair.prev >= 1
  /\ pair.curr = None => prevSnap <= 1

LEMMA PublishedKept == ASSUME Typed, Published, [Next]_vars PROVE Published'
<1> USE DEF Published, Typed, TypeOK, None, cellVars, loopUnchanged
<1>1. CASE ~WorkerNext
  BY <1>1, OnlyTheWorker
<1>2. CASE ServeInspect \/ EndInspects \/ Dispatch \/ RecvTimeout \/ EndLastInspects
  BY <1>2 DEF ServeInspect, EndInspects, Dispatch, RecvTimeout, EndLastInspects
<1>3. CASE RecvDisconnected \/ CheckShutdown \/ TickFails
  BY <1>3 DEF RecvDisconnected, CheckShutdown, TickFails, Exit
<1>4. CASE Tick
  BY <1>4 DEF Tick
<1>5. CASE ForwardDeltas
  BY <1>5 DEF ForwardDeltas
<1>6. CASE PublishPair
  BY <1>6 DEF PublishPair, Late
<1>7. CASE PublishView
  BY <1>7 DEF PublishView
<1>8. CASE RoundPastBound
  BY <1>8 DEF RoundPastBound
<1> QED BY <1>1, <1>2, <1>3, <1>4, <1>5, <1>6, <1>7, <1>8 DEF WorkerNext

(* The pair always holds two successive ticks, and the view that a frame
   reads with it is one of the two. *)
THEOREM AlwaysPublishedTogether == Spec => []PublishedTogether
<1>1. Init => Published
  BY DEF Init, Published, None
<1>2. Typed /\ Published /\ [Next]_vars => Published'
  BY PublishedKept
<1>3. Typed /\ Published => PublishedTogether
  <2>1. Typed => pair.curr \in Int /\ pair.prev \in Int /\ prevSnap \in Int /\ view.tick \in Int /\ tick \in Int
    BY Bounds DEF Typed, TypeOK
  <2> QED BY <2>1 DEF Published, PublishedTogether, None
<1> QED BY <1>1, <1>2, <1>3, AlwaysTyped, PTL DEF Spec

----------------------------------------------------------------------------
(* The deadline.                                                           *)

(* Since the end of the last round time has run down to the deadline, or a
   whole period has passed; since the one before, one period more. *)
OnTime ==
  /\ since.last < Period => left + since.last >= 0
  /\ since.prior < Period => left + since.prior >= Period

LEMMA OnTimeKept == ASSUME Typed, OnTime, [Next]_vars PROVE OnTime'
<1>0. /\ Period \in Nat /\ Period >= 1
      /\ left \in Int /\ since.last \in 0 .. Period /\ since.prior \in 0 .. Period
      /\ pc \in {"tick", "view"} => left <= 0
  BY Bounds DEF Typed, TypeOK, Late
<1> USE DEF OnTime
<1>1. CASE Elapse
  <2>1. left' = left - 1 /\ since.last' = Capped(since.last) /\ since.prior' = Capped(since.prior)
    BY <1>1 DEF Elapse
  <2> QED BY <1>0, <2>1 DEF Capped
<1>2. CASE PublishView
  <2>1. left' >= left + Period /\ left' \in 0 .. Period
    BY <1>0, <1>2, NextDeadlineType DEF PublishView
  <2>2. since.last' = 0 /\ since.prior' = since.last
    BY <1>2 DEF PublishView
  <2>3. left' + since.last' >= 0
    <3>1. left' \in Int /\ left' >= 0
      BY <1>0, <2>1
    <3>2. \A x \in Int : x + 0 = x
      OBVIOUS
    <3>3. left' + 0 = left'
      BY ONLY <3>1, <3>2
    <3> QED BY <3>1, <3>3, <2>2
  <2>4. since.last < Period => left' + since.last >= Period
    BY <1>0, <2>1
  <2> QED BY <2>2, <2>3, <2>4
<1>3. CASE RoundPastBound
  <2>1. /\ left' >= left + Period /\ left' \in 0 .. Period
        /\ since.last' = since.last /\ since.prior' = since.prior
    BY <1>0, <1>3, NextDeadlineType DEF RoundPastBound
  <2> QED BY <1>0, <2>1
<1>4. CASE MainNext \/ UNCHANGED vars
  <2>1. UNCHANGED <<left, since>>
    BY <1>4 DEF MainNext, Send, CallInspect, InspectReturns, SignalShutdown, Joined, Abandon, DrainDeltas,
         vars, workerVars
  <2> QED BY <2>1
<1>5. CASE WorkerNext /\ ~PublishView /\ ~RoundPastBound
  <2>1. UNCHANGED <<left, since>>
    BY <1>5 DEF WorkerNext, ServeInspect, EndInspects, Dispatch, RecvTimeout, RecvDisconnected,
         EndLastInspects, CheckShutdown, Tick, TickFails, ForwardDeltas, PublishPair, Exit
  <2> QED BY <2>1
<1> QED BY <1>1, <1>2, <1>3, <1>4, <1>5 DEF Next

(* However late the loop notices its deadlines, three ticks never start
   within one period. *)
THEOREM NeverDoubleTicks == Spec => []NoDoubleTick
<1>1. Init => OnTime
  BY Bounds DEF Init, OnTime
<1>2. Typed /\ OnTime /\ [Next]_vars => OnTime'
  BY OnTimeKept
<1>3. Typed /\ OnTime => NoDoubleTick
  BY Bounds DEF Typed, TypeOK, OnTime, NoDoubleTick, Late
<1> QED BY <1>1, <1>2, <1>3, AlwaysTyped, PTL DEF Spec

----------------------------------------------------------------------------
(* Commands.                                                               *)

(* The numbers from 1 up, in order. *)
Counting(q) == \A i \in 1 .. Len(q) : q[i] = i

(* What CommandsOnceInOrder says of the dispatched and the waiting commands,
   without the names. *)
Numbered ==
  /\ Counting(applied \o cmdq)
  /\ pc # "exited" => Len(applied) + Len(cmdq) = sent

LEMMA CountingIs ==
  ASSUME NEW S, NEW q \in Seq(S)
  PROVE  Counting(q) <=> q = [i \in 1 .. Len(q) |-> i]
<1>1. q = [i \in 1 .. Len(q) |-> q[i]]
  BY LenProperties
<1> QED BY <1>1 DEF Counting

LEMMA CountingParts ==
  ASSUME NEW S, NEW p \in Seq(S), NEW q \in Seq(S), Counting(p \o q)
  PROVE  /\ Counting(p)
         /\ \A i \in 1 .. Len(q) : q[i] = Len(p) + i
<1>1. PICK m \in Nat, n \in Nat : Len(p) = m /\ Len(q) = n
  BY LenProperties
<1>2. /\ Len(p \o q) = m + n
      /\ \A i \in 1 .. m + n : (p \o q)[i] = IF i <= m THEN p[i] ELSE q[i - m]
  BY <1>1, ConcatProperties
<1>3. \A i \in 1 .. m + n : (p \o q)[i] = i
  BY <1>2 DEF Counting
<1>4. ASSUME NEW i \in 1 .. m PROVE p[i] = i
  BY <1>2, <1>3
<1>5. ASSUME NEW i \in 1 .. n PROVE q[i] = m + i
  <2>1. m + i \in 1 .. m + n /\ ~(m + i <= m) /\ (m + i) - m = i
    OBVIOUS
  <2> QED BY <1>2, <1>3, <2>1
<1> QED BY <1>1, <1>4, <1>5 DEF Counting

LEMMA NumberedKept == ASSUME Typed, Numbered, [Next]_vars PROVE Numbered'
<1>0. applied \in Seq(Cmds) /\ cmdq \in Seq(Cmds) /\ sent \in Nat /\ Len(applied) \in Nat /\ Len(cmdq) \in Nat
  BY Bounds, LenProperties DEF Typed, TypeOK
<1>1. CASE Send
  <2>1. /\ cmdq' = Append(cmdq, sent + 1) /\ applied' = applied /\ sent' = sent + 1 /\ pc # "exited"
        /\ sent + 1 \in Cmds
    BY <1>0, <1>1, Bounds DEF Send, workerVars, Cmds, Typed, TypeOK
  <2>2. PICK all : all = applied \o cmdq
    OBVIOUS
  <2>3. all \in Seq(Cmds) /\ Len(all) = sent /\ \A i \in 1 .. sent : all[i] = i
    BY <1>0, <2>1, <2>2, ConcatProperties DEF Numbered, Counting
  <2>4. applied' \o cmdq' = Append(all, sent + 1)
    BY <1>0, <2>1, <2>2, ConcatAppend
  <2>5. /\ Len(Append(all, sent + 1)) = sent + 1 /\ Append(all, sent + 1)[sent + 1] = sent + 1
        /\ \A i \in 1 .. sent : Append(all, sent + 1)[i] = i
    BY <2>1, <2>3, AppendProperties
  <2>6. \A i \in 1 .. sent + 1 : i \in 1 .. sent \/ i = sent + 1
    BY <1>0
  <2>7. Counting(Append(all, sent + 1))
    BY <2>5, <2>6 DEF Counting
  <2>8. Len(cmdq') = Len(cmdq) + 1 /\ Len(applied') = Len(applied)
    BY <1>0, <2>1, AppendProperties
  <2>9. Len(applied) + Len(cmdq) = sent
    BY <2>1 DEF Numbered
  <2>10. Len(applied') + Len(cmdq') = sent'
    BY <1>0, <2>1, <2>8, <2>9
  <2> QED BY <2>4, <2>7, <2>10 DEF Numbered
<1>2. CASE Dispatch
  <2>1. /\ cmdq # <<>> /\ applied' = Append(applied, Head(cmdq)) /\ cmdq' = Tail(cmdq) /\ sent' = sent
        /\ pc # "exited"
    BY <1>2 DEF Dispatch, loopUnchanged
  <2>2. applied' \o cmdq' = applied \o cmdq
    BY <1>0, <2>1, HandOver
  <2>3. Head(cmdq) \in Cmds /\ Len(cmdq') = Len(cmdq) - 1 /\ Len(applied') = Len(applied) + 1 /\ sent' = sent
    BY <1>0, <2>1, HeadTailProperties, AppendProperties
  <2>4. Len(applied) + Len(cmdq) = sent
    BY <2>1 DEF Numbered
  <2>5. Len(applied') + Len(cmdq') = sent'
    BY <1>0, <2>3, <2>4
  <2> QED BY <2>2, <2>5 DEF Numbered
<1>3. CASE Exit
  <2>1. cmdq' = <<>> /\ applied' = applied /\ pc' = "exited"
    BY <1>3 DEF Exit
  <2>2. applied' \o cmdq' = applied
    BY <1>0, <2>1, ConcatEmptySeq
  <2>3. Counting(applied)
    BY <1>0, CountingParts DEF Numbered
  <2> QED BY <2>1, <2>2, <2>3 DEF Numbered
<1>4. CASE UNCHANGED <<sent, cmdq, applied>> /\ (pc' = "exited" <=> pc = "exited")
  BY <1>4 DEF Numbered
<1> QED BY <1>1, <1>2, <1>3, <1>4, CommandSteps

LEMMA InitNumbered == Init => Numbered
<1>1. <<>> \in Seq(Cmds) /\ Len(<<>>) = 0 /\ <<>> \o <<>> = <<>>
  BY EmptySeq, ConcatEmptySeq
<1> QED BY <1>1 DEF Init, Numbered, Counting

(* Every command the channel accepted is dispatched once, in the order it was
   sent, or waits in the channel while the worker lives. *)
THEOREM AlwaysOnceInOrder == Spec => []CommandsOnceInOrder
<1>1. Typed /\ Numbered => CommandsOnceInOrder
  <2>1. Typed => applied \o cmdq \in Seq(Cmds) /\ Len(applied \o cmdq) = Len(applied) + Len(cmdq)
    BY ConcatProperties DEF Typed, TypeOK
  <2> QED BY <2>1, CountingIs DEF Numbered, CommandsOnceInOrder
<1> QED BY <1>1, InitNumbered, NumberedKept, AlwaysTyped, PTL DEF Spec

----------------------------------------------------------------------------
(* Visibility.                                                             *)

(* A command the worker still has to dispatch waits in the channel. *)
LEMMA WaitsInChannel ==
  ASSUME Typed, Numbered, pc # "exited", NEW c \in 1 .. sent, c \notin ToSet(applied)
  PROVE  c \in ToSet(cmdq)
<1>1. PICK m \in Nat, n \in Nat : Len(applied) = m /\ Len(cmdq) = n
  BY LenProperties DEF Typed, TypeOK
<1>2. m + n = sent
  BY <1>1 DEF Numbered
<1>3. (\A i \in 1 .. m : applied[i] = i) /\ (\A i \in 1 .. n : cmdq[i] = m + i)
  <2>1. applied \in Seq(Cmds) /\ cmdq \in Seq(Cmds) /\ Counting(applied \o cmdq)
    BY DEF Numbered, Typed, TypeOK
  <2>2. Counting(applied) /\ \A i \in 1 .. Len(cmdq) : cmdq[i] = Len(applied) + i
    BY <2>1, CountingParts
  <2> QED BY <1>1, <2>2 DEF Counting
<1>4. (\A x : x \in ToSet(applied) <=> \E i \in 1 .. m : x = applied[i])
      /\ (\A x : x \in ToSet(cmdq) <=> \E i \in 1 .. n : x = cmdq[i])
  BY <1>1, ElementOf DEF Typed, TypeOK
<1>5. c \notin 1 .. m
  BY <1>3, <1>4
<1>6. c - m \in 1 .. n /\ m + (c - m) = c
  BY <1>2, <1>5
<1> QED BY <1>3, <1>4, <1>6

(* A command that no round has left behind is missing from the view only
   when it was sent while this view or the one before was the published one;
   and once a round has stopped receiving, only what was sent since then is
   in the channel. *)
Prompt ==
  \A c \in (1 .. sent) \ starved :
    /\ c \in view.shows \/ view.tick <= stamp[c] + 1
    /\ pc \in Late /\ c \in ToSet(cmdq) => stamp[c] = view.tick

LEMMA PromptKept == ASSUME Typed, Numbered, Published, Prompt, [Next]_vars PROVE Prompt'
<1> USE DEF Prompt
<1>0. /\ cmdq \in Seq(Cmds) /\ sent \in 0 .. MaxCmds /\ sent \in Nat
      /\ view.tick \in Nat /\ tick \in Nat /\ stamp \in [Cmds -> 0 .. MaxTicks]
      /\ \A c \in 1 .. sent : c \in Cmds /\ stamp[c] \in Nat
  <2>1. cmdq \in Seq(Cmds) /\ sent \in 0 .. MaxCmds /\ stamp \in [Cmds -> 0 .. MaxTicks]
    BY DEF Typed, TypeOK
  <2>2. view.tick \in Nat /\ tick \in Nat /\ sent \in Nat
    BY <2>1, Bounds DEF Typed, TypeOK
  <2>3. \A c \in 1 .. sent : c \in Cmds
    BY <2>1, Bounds DEF Cmds
  <2>4. \A c \in 1 .. sent : stamp[c] \in Nat
    BY <2>1, <2>3, Bounds
  <2> QED BY <2>1, <2>2, <2>3, <2>4
<1>1. CASE Send
  <2>1. /\ cmdq' = Append(cmdq, sent + 1) /\ sent' = sent + 1
        /\ stamp' = [stamp EXCEPT ![sent + 1] = view.tick] /\ sent + 1 \in Cmds
        /\ UNCHANGED <<starved, view, pc>>
    BY <1>0, <1>1, Bounds DEF Send, workerVars, cellVars, Cmds
  <2>2. ToSet(cmdq') = ToSet(cmdq) \cup {sent + 1}
    BY <1>0, <2>1, ToSetOfAppend
  <2>3. stamp'[sent + 1] = view.tick
    BY <1>0, <2>1
  <2>4. \A c \in 1 .. sent : c # sent + 1 /\ stamp'[c] = stamp[c]
    BY <1>0, <2>1
  <2>5. \A c \in 1 .. sent + 1 : c \in 1 .. sent \/ c = sent + 1
    BY <1>0
  <2>6. ASSUME NEW c \in 1 .. sent, c \notin starved
        PROVE  /\ c \in view'.shows \/ view'.tick <= stamp'[c] + 1
               /\ pc' \in Late /\ c \in ToSet(cmdq') => stamp'[c] = view'.tick
    BY <2>1, <2>2, <2>4, <2>6
  <2>7. view'.tick <= stamp'[sent + 1] + 1 /\ stamp'[sent + 1] = view'.tick
    BY <1>0, <2>1, <2>3
  <2> QED BY <2>1, <2>5, <2>6, <2>7
<1>2. CASE EndInspects
  <2>1. UNCHANGED <<sent, cmdq, stamp, view>> /\ starved \subseteq starved'
        /\ (pc' \in Late => ToSet(cmdq) \subseteq starved')
    BY <1>2 DEF EndInspects, loopUnchanged, chanVars, cellVars, Late
  <2> QED BY <2>1
<1>3. CASE Dispatch
  <2>1. UNCHANGED <<sent, stamp, view, starved>> /\ pc' \notin Late
    BY <1>3 DEF Dispatch, loopUnchanged, cellVars, Late
  <2> QED BY <2>1
<1>4. CASE RecvTimeout
  <2>1. UNCHANGED <<sent, cmdq, stamp, view, starved>> /\ cmdq = <<>>
    BY <1>4 DEF RecvTimeout, loopUnchanged, chanVars, cellVars
  <2>2. ToSet(<<>>) = {}
    BY DEF ToSet
  <2> QED BY <2>1, <2>2
<1>5. CASE RecvDisconnected \/ TickFails \/ (CheckShutdown /\ Exit)
  <2>1. UNCHANGED <<sent, stamp, view, starved>> /\ pc' \notin Late
    BY <1>5 DEF RecvDisconnected, TickFails, Exit, historyVars, cellVars, Late
  <2> QED BY <2>1
<1>6. CASE PublishView
  <2>1. /\ UNCHANGED <<sent, cmdq, stamp, starved>> /\ pc' \notin Late /\ pc \in Late /\ pc # "exited"
        /\ view'.tick = view.tick + 1 /\ view'.shows = ToSet(applied)
    BY <1>0, <1>6 DEF PublishView, loopUnchanged, chanVars, Late, Published
  <2>2. ASSUME NEW c \in 1 .. sent, c \notin starved, c \notin ToSet(applied)
        PROVE  view'.tick <= stamp[c] + 1
    <3>1. c \in ToSet(cmdq)
      BY <2>1, <2>2, WaitsInChannel
    <3>2. stamp[c] = view.tick
      BY <2>1, <2>2, <3>1
    <3> QED BY <1>0, <2>1, <3>2
  <2> QED BY <2>1, <2>2
<1>7. CASE /\ UNCHANGED <<sent, cmdq, stamp, view, starved>>
           /\ pc' \in Late => pc \in Late
  BY <1>7
<1>8. CASE MainNext /\ ~Send
  <2>1. UNCHANGED <<sent, cmdq, stamp, view, starved, pc>>
    BY <1>8 DEF MainNext, CallInspect, InspectReturns, SignalShutdown, Joined, Abandon, DrainDeltas,
         workerVars, chanVars, cellVars, historyVars
  <2> QED BY <1>7, <2>1
<1>9. CASE ServeInspect \/ EndLastInspects \/ Tick \/ ForwardDeltas \/ PublishPair \/ RoundPastBound
  <2>1. /\ UNCHANGED <<sent, cmdq, stamp, view, starved>>
        /\ pc' \in Late => pc \in Late
    BY <1>9 DEF ServeInspect, EndLastInspects, Tick, ForwardDeltas, PublishPair, RoundPastBound,
         loopUnchanged, chanVars, cellVars, Late
  <2> QED BY <1>7, <2>1
<1>10. CASE CheckShutdown /\ ~Exit
  <2>1. UNCHANGED <<sent, cmdq, stamp, view, starved>> /\ pc \in Late
    BY <1>10 DEF CheckShutdown, loopUnchanged, chanVars, cellVars, Late
  <2> QED BY <1>7, <2>1
<1>11. CASE Elapse \/ UNCHANGED vars
  <2>1. UNCHANGED <<sent, cmdq, stamp, view, starved, pc>>
    BY <1>11 DEF Elapse, vars, chanVars, cellVars, historyVars
  <2> QED BY <1>7, <2>1
<1> QED BY <1>1, <1>2, <1>3, <1>4, <1>5, <1>6, <1>8, <1>9, <1>10, <1>11 DEF Next, WorkerNext

(* A command is visible two publications after the one its sender saw,
   unless a round ran out of time with the command still waiting. *)
THEOREM AlwaysVisibleInTwoTicks == Spec => []VisibleInTwoTicks
<1>1. Init => Prompt /\ Published
  BY DEF Init, Prompt, Published, None
<1>2. Typed /\ Numbered /\ Published /\ Prompt /\ [Next]_vars => Published' /\ Prompt'
  BY PublishedKept, PromptKept
<1>3. Typed /\ Prompt => VisibleInTwoTicks
  <2>1. Typed => view.tick \in Int /\ \A c \in 1 .. sent : stamp[c] \in Int
    BY Bounds DEF Typed, TypeOK, Cmds
  <2> QED BY <2>1 DEF Prompt, VisibleInTwoTicks
<1> QED BY <1>1, <1>2, <1>3, InitNumbered, NumberedKept, AlwaysTyped, PTL DEF Spec

----------------------------------------------------------------------------
(* AllDeltas.                                                                 *)

(* All deltas the main thread has received, may still receive from the
   channel, or will be sent with the next batch. *)
AllDeltas == (got \o FlattenSeq(deltaq)) \o undrained

Delivered ==
  /\ Ascending(AllDeltas)
  /\ ToSet(AllDeltas) = ToSet(applied) \ lost
  /\ lost \subseteq ToSet(applied)

LEMMA DeltasType ==
  ASSUME Typed
  PROVE  /\ got \in Seq(Cmds) /\ undrained \in Seq(Cmds)
         /\ deltaq \in Seq(Seq(Cmds)) /\ FlattenSeq(deltaq) \in Seq(Cmds)
         /\ got \o FlattenSeq(deltaq) \in Seq(Cmds)
         /\ AllDeltas \in Seq(Cmds)
<1>1. got \in Seq(Cmds) /\ undrained \in Seq(Cmds) /\ deltaq \in Seq(Seq(Cmds))
  BY DEF Typed, TypeOK
<1>2. FlattenSeq(deltaq) \in Seq(Cmds)
  BY <1>1, FlattenType
<1>3. got \o FlattenSeq(deltaq) \in Seq(Cmds)
  BY <1>1, <1>2, ConcatProperties
<1>4. AllDeltas \in Seq(Cmds)
  BY <1>1, <1>3, ConcatProperties DEF AllDeltas
<1> QED BY <1>1, <1>2, <1>3, <1>4

LEMMA FlattenNothing == FlattenSeq(<<>>) = <<>>
<1>1. <<>> \in Seq(Seq(Cmds))
  BY EmptySeq
<1> QED BY <1>1, FlattenIs

LEMMA DeliveredKept == ASSUME Typed, Numbered, Delivered, [Next]_vars PROVE Delivered'
<1>0. Cmds \in SUBSET Int
  BY Bounds DEF Cmds
<1>1. CASE Dispatch
  <2>1. /\ applied' = Append(applied, Head(cmdq)) /\ undrained' = Append(undrained, Head(cmdq))
        /\ UNCHANGED <<got, deltaq, lost>> /\ cmdq # <<>>
    BY <1>1 DEF Dispatch, loopUnchanged
  <2>2. applied \in Seq(Cmds) /\ cmdq \in Seq(Cmds) /\ Head(cmdq) \in Cmds /\ Head(cmdq) = cmdq[1]
    BY <2>1, HeadTailProperties DEF Typed, TypeOK
  <2>3. PICK m \in Nat, n \in Nat : Len(applied) = m /\ Len(cmdq) = n /\ n >= 1
    BY <2>1, <2>2, LenProperties, EmptySeq
  <2>4. Counting(applied) /\ \A i \in 1 .. Len(cmdq) : cmdq[i] = Len(applied) + i
    BY <2>2, CountingParts DEF Numbered
  <2>5. Head(cmdq) = m + 1 /\ \A i \in 1 .. m : applied[i] = i
    BY <2>2, <2>3, <2>4 DEF Counting
  <2>6. \A x \in ToSet(applied) : x \in 1 .. m
    BY <2>2, <2>3, <2>5, ElementOf
  <2>7. (\A x \in ToSet(applied) : x < Head(cmdq)) /\ Head(cmdq) \notin ToSet(applied)
    BY <2>5, <2>6
  <2>8. AllDeltas' = Append(AllDeltas, Head(cmdq))
    BY <2>1, <2>2, DeltasType, ConcatAppend DEF AllDeltas
  <2>9. Ascending(AllDeltas')
    BY <1>0, <2>2, <2>7, <2>8, DeltasType, AscendingAppend DEF Delivered
  <2>10. ToSet(AllDeltas') = ToSet(AllDeltas) \cup {Head(cmdq)} /\ ToSet(applied') = ToSet(applied) \cup {Head(cmdq)}
    BY <2>1, <2>2, <2>8, DeltasType, ToSetOfAppend
  <2> QED BY <2>1, <2>7, <2>9, <2>10 DEF Delivered
<1>2. CASE DrainDeltas
  <2>1. got' = got \o FlattenSeq(deltaq) /\ deltaq' = <<>> /\ UNCHANGED <<undrained, applied, lost>>
    BY <1>2 DEF DrainDeltas
  <2>2. got' \o FlattenSeq(deltaq') = got \o FlattenSeq(deltaq)
    BY <2>1, FlattenNothing, DeltasType, ConcatEmptySeq
  <2>3. AllDeltas' = AllDeltas
    BY <2>1, <2>2 DEF AllDeltas
  <2> QED BY <2>1, <2>3 DEF Delivered
<1>3. CASE ForwardDeltas
  <2>0. undrained' = <<>> /\ UNCHANGED <<got, applied>>
    BY <1>3 DEF ForwardDeltas, loopUnchanged
  <2>1. CASE undrained = <<>> /\ UNCHANGED <<deltaq, lost>>
    BY <2>0, <2>1 DEF Delivered, AllDeltas
  <2>2. CASE deltaq' = Append(deltaq, undrained) /\ UNCHANGED lost
    <3>1. FlattenSeq(deltaq') = FlattenSeq(deltaq) \o undrained
      BY <2>2, DeltasType, FlattenAppend
    <3>2. got' \o FlattenSeq(deltaq') = AllDeltas
      <4>1. PICK f, u : f = FlattenSeq(deltaq) /\ u = undrained
        OBVIOUS
      <4>2. f \in Seq(Cmds) /\ u \in Seq(Cmds) /\ got \in Seq(Cmds)
        BY <4>1, DeltasType
      <4>3. (got \o f) \o u = got \o (f \o u)
        BY <4>2, ConcatAssociative
      <4> QED BY <2>0, <3>1, <4>1, <4>3 DEF AllDeltas
    <3>3. AllDeltas' = AllDeltas
      BY <2>0, <3>2, DeltasType, ConcatEmptySeq DEF AllDeltas
    <3> QED BY <2>0, <2>2, <3>3 DEF Delivered
  <2>3. CASE lost' = lost \cup ToSet(undrained) /\ UNCHANGED deltaq
    <3>1. AllDeltas' = got \o FlattenSeq(deltaq)
      BY <2>0, <2>3, DeltasType, ConcatEmptySeq DEF AllDeltas
    <3>2. /\ Ascending(AllDeltas')
          /\ ToSet(AllDeltas') \cap ToSet(undrained) = {}
      BY <1>0, <3>1, DeltasType, AscendingParts DEF AllDeltas, Delivered
    <3>3. ToSet(AllDeltas) = ToSet(AllDeltas') \cup ToSet(undrained)
      <4>1. PICK p, u : p = got \o FlattenSeq(deltaq) /\ u = undrained
        OBVIOUS
      <4>2. p \in Seq(Cmds) /\ u \in Seq(Cmds)
        BY <4>1, DeltasType
      <4>3. ToSet(p \o u) = ToSet(p) \cup ToSet(u)
        BY <4>2, ToSetOfConcat
      <4> QED BY <3>1, <4>1, <4>3 DEF AllDeltas
    <3> QED BY <2>0, <2>3, <3>2, <3>3 DEF Delivered
  <2> QED BY <1>3, <2>1, <2>2, <2>3 DEF ForwardDeltas
<1>4. CASE UNCHANGED <<got, deltaq, undrained, applied, lost>>
  BY <1>4 DEF Delivered, AllDeltas
<1>5. CASE ~Dispatch /\ ~DrainDeltas /\ ~ForwardDeltas
  <2> USE DEF workerVars, chanVars, cellVars, deltaVars, historyVars, loopUnchanged
  <2>1. CASE MainNext
    BY <1>4, <1>5, <2>1 DEF MainNext, Send, CallInspect, InspectReturns, SignalShutdown, Joined, Abandon
  <2>2. CASE WorkerNext
    BY <1>4, <1>5, <2>2 DEF WorkerNext, ServeInspect, EndInspects, RecvTimeout, RecvDisconnected,
         EndLastInspects, CheckShutdown, Tick, TickFails, PublishPair, PublishView, RoundPastBound, Exit
  <2>3. CASE Elapse
    BY <1>4, <2>3 DEF Elapse
  <2>4. CASE UNCHANGED vars
    BY <1>4, <2>4 DEF vars
  <2> QED BY <2>1, <2>2, <2>3, <2>4 DEF Next
<1> QED BY <1>1, <1>2, <1>3, <1>5

LEMMA InitDelivered == Init => Delivered
<1>1. <<>> \in Seq(Cmds) /\ Len(<<>>) = 0 /\ <<>> \o <<>> = <<>>
  BY EmptySeq, ConcatEmptySeq
<1>2. Init => AllDeltas = <<>>
  BY <1>1, FlattenNothing DEF Init, AllDeltas
<1> QED BY <1>1, <1>2 DEF Init, Delivered, Ascending

(* Of every command dispatched the main thread receives the delta once, in
   order, or the batch it was in is the one that found the channel full. *)
THEOREM AlwaysDeltasOnceInOrder == Spec => []DeltasOnceInOrder
<1>1. Delivered => DeltasOnceInOrder
  BY DEF Delivered, AllDeltas, DeltasOnceInOrder, Ascending
<1> QED BY <1>1, InitNumbered, NumberedKept, InitDelivered, DeliveredKept, AlwaysTyped, PTL DEF Spec

-----------------------------------------------------------------------------
(* The mirrors.                                                            *)

World == [place : Int, standing : Int]
Delta == [k : {"place", "standing"}, v : Int]

(* A world that is ahead of w in what deltas add to. *)
Ahead(w, n) == [w EXCEPT !.standing = @ + n]

----------------------------------------------------------------------------
(* What a sequence of deltas does to a world.                              *)

LEMMA ApplyDeltaType ==
  ASSUME NEW w \in World, NEW d \in Delta
  PROVE  ApplyWorldDelta(w, d) \in World
  BY DEF ApplyWorldDelta, World, Delta

LEMMA ApplyAllType ==
  ASSUME NEW w \in World, NEW q \in Seq(Delta)
  PROVE  ApplyAll(w, q) \in World
<1>1. ApplyAll(w, q) = Fold(w, q)
  BY DEF ApplyAll, Fold
<1>2. \A t \in World, e \in Delta : ApplyWorldDelta(t, e) \in World
  BY ApplyDeltaType
<1> HIDE DEF World
<1> QED BY <1>1, <1>2, FoldType

LEMMA ApplyNone == ASSUME NEW w PROVE ApplyAll(w, <<>>) = w
  BY FoldEmpty DEF ApplyAll, Fold

LEMMA ApplyMore ==
  ASSUME NEW w, NEW q \in Seq(Delta), NEW d \in Delta
  PROVE  ApplyAll(w, Append(q, d)) = ApplyWorldDelta(ApplyAll(w, q), d)
<1>1. Fold(w, Append(q, d)) = ApplyWorldDelta(Fold(w, q), d)
  BY FoldAppend
<1> QED BY <1>1 DEF ApplyAll, Fold

LEMMA ApplyBoth ==
  ASSUME NEW w, NEW p \in Seq(Delta), NEW q \in Seq(Delta)
  PROVE  ApplyAll(w, p \o q) = ApplyAll(ApplyAll(w, p), q)
<1>1. Fold(w, p \o q) = Fold(Fold(w, p), q)
  BY FoldConcat
<1> QED BY <1>1 DEF ApplyAll, Fold

(* A world that is ahead stays as far ahead. *)
LEMMA StaysAhead ==
  ASSUME NEW w \in World, NEW n \in Int, NEW q \in Seq(Delta)
  PROVE  ApplyAll(Ahead(w, n), q) = Ahead(ApplyAll(w, q), n)
<1> DEFINE P == {p \in Seq(Delta) : ApplyAll(Ahead(w, n), p) = Ahead(ApplyAll(w, p), n)}
<1>1. <<>> \in P
  BY ApplyNone, EmptySeq
<1>2. ASSUME NEW p \in P, NEW d \in Delta PROVE Append(p, d) \in P
  <2>1. /\ ApplyAll(w, Append(p, d)) = ApplyWorldDelta(ApplyAll(w, p), d)
        /\ ApplyAll(Ahead(w, n), Append(p, d)) = ApplyWorldDelta(ApplyAll(Ahead(w, n), p), d)
    BY ApplyMore
  <2>2. ASSUME NEW u \in World PROVE ApplyWorldDelta(Ahead(u, n), d) = Ahead(ApplyWorldDelta(u, d), n)
    <3>1. PICK x \in Int, y \in Int : u = [place |-> x, standing |-> y]
      BY DEF World
    <3>2. d.v \in Int /\ y + n + d.v = y + d.v + n
      BY <3>1 DEF Delta
    <3>3. CASE d.k = "place"
      BY <3>1, <3>3 DEF ApplyWorldDelta, Ahead
    <3>4. CASE d.k # "place"
      BY <3>1, <3>2, <3>4 DEF ApplyWorldDelta, Ahead
    <3> QED BY <3>3, <3>4
  <2>3. ApplyAll(w, p) \in World
    BY ApplyAllType
  <2> QED BY <2>1, <2>2, <2>3, AppendProperties
<1>3. P = Seq(Delta)
  <2> HIDE DEF P
  <2> QED BY <1>1, <1>2, SeqInduction, P \in SUBSET Seq(Delta) DEF P
<1> QED BY <1>3

(* Deltas add the same to every world. *)
LEMMA AddsTheSame ==
  ASSUME NEW w \in World, NEW q \in Seq(Delta)
  PROVE  ApplyAll(w, q).standing = w.standing + Added(q) /\ Added(q) \in Int
<1> DEFINE P == {p \in Seq(Delta) : ApplyAll(w, p).standing = w.standing + Added(p)}
<1>0. FreshWorld \in World /\ FreshWorld.standing = 0
  BY DEF FreshWorld, World
<1>1. <<>> \in P
  BY <1>0, ApplyNone, EmptySeq DEF Added, World
<1>2. ASSUME NEW p \in P, NEW d \in Delta PROVE Append(p, d) \in P
  <2>1. /\ ApplyAll(w, Append(p, d)) = ApplyWorldDelta(ApplyAll(w, p), d)
        /\ ApplyAll(FreshWorld, Append(p, d)) = ApplyWorldDelta(ApplyAll(FreshWorld, p), d)
    BY ApplyMore
  <2>2. PICK u \in World, f \in World : u = ApplyAll(w, p) /\ f = ApplyAll(FreshWorld, p)
    BY <1>0, ApplyAllType
  <2>3. u.standing = w.standing + f.standing
    BY <2>2 DEF Added
  <2>4. ApplyWorldDelta(u, d).standing = w.standing + ApplyWorldDelta(f, d).standing
    BY <2>3 DEF ApplyWorldDelta, World, Delta
  <2> QED BY <2>1, <2>2, <2>4, AppendProperties DEF Added
<1>3. P = Seq(Delta)
  <2> HIDE DEF P
  <2> QED BY <1>1, <1>2, SeqInduction, P \in SUBSET Seq(Delta) DEF P
<1>4. Added(q) \in Int
  BY <1>0, ApplyAllType DEF Added, World
<1> QED BY <1>3, <1>4

(* A place comes from the deltas alone, or they set none. *)
Places(q) == \A w, u \in World : ApplyAll(w, q).place = ApplyAll(u, q).place
Leaves(q) == \A w \in World : ApplyAll(w, q).place = w.place

LEMMA PlacesOrLeaves ==
  ASSUME NEW q \in Seq(Delta)
  PROVE  Places(q) \/ Leaves(q)
<1> DEFINE P == {p \in Seq(Delta) : Places(p) \/ Leaves(p)}
<1>1. <<>> \in P
  BY ApplyNone, EmptySeq DEF Leaves
<1>2. ASSUME NEW p \in P, NEW d \in Delta PROVE Append(p, d) \in P
  <2>1. \A w : ApplyAll(w, Append(p, d)) = ApplyWorldDelta(ApplyAll(w, p), d)
    BY ApplyMore
  <2>2. \A w \in World : ApplyAll(w, p) \in World
    BY ApplyAllType
  <2>3. \A u \in World : ApplyWorldDelta(u, d).place = IF d.k = "place" THEN d.v ELSE u.place
    BY DEF ApplyWorldDelta, World, Delta
  <2>4. \A w \in World : ApplyAll(w, Append(p, d)).place = IF d.k = "place" THEN d.v ELSE ApplyAll(w, p).place
    BY <2>1, <2>2, <2>3
  <2>5. CASE d.k = "place"
    <3>1. Places(Append(p, d))
      BY <2>4, <2>5 DEF Places
    <3> QED BY <3>1, AppendProperties
  <2>6. CASE d.k # "place"
    <3>1. Places(p) => Places(Append(p, d))
      BY <2>4, <2>6 DEF Places
    <3>2. Leaves(p) => Leaves(Append(p, d))
      BY <2>4, <2>6 DEF Leaves
    <3> QED BY <3>1, <3>2, AppendProperties
  <2> QED BY <2>5, <2>6
<1>3. P = Seq(Delta)
  <2> HIDE DEF P
  <2> QED BY <1>1, <1>2, SeqInduction, P \in SUBSET Seq(Delta) DEF P
<1> QED BY <1>3

(* Deltas applied a second time add what they add, and nothing else. *)
LEMMA AppliedTwice ==
  ASSUME NEW b \in World, NEW q \in Seq(Delta), NEW w, w = ApplyAll(b, q)
  PROVE  ApplyAll(w, q) = Ahead(w, Added(q))
<1>1. w \in World /\ ApplyAll(w, q) \in World
  BY ApplyAllType
<1>2. ApplyAll(w, q).standing = w.standing + Added(q) /\ Added(q) \in Int
  BY <1>1, AddsTheSame
<1>3. ApplyAll(w, q).place = w.place
  <2>1. CASE Places(q)
    BY <1>1, <2>1 DEF Places
  <2>2. CASE Leaves(q)
    BY <1>1, <2>2 DEF Leaves
  <2> QED BY <2>1, <2>2, PlacesOrLeaves
<1> QED BY <1>1, <1>2, <1>3 DEF Ahead, World

----------------------------------------------------------------------------
(* What a mate is to hear.                                                 *)

Msg == [is : {"delta"}, tick : Int, deltas : Seq(Delta)] \cup [is : {"snapshot"}, tick : Int, world : World]
Up == [is : {"join"}] \cup [is : {"action"}, delta : Delta]
Mate == [role : {"solo", "client"}, mirror : BOOLEAN, clock : Int, snap : BOOLEAN, world : World]

Expecting(q, snap) == snap \/ \E i \in 1 .. Len(q) : q[i].is = "snapshot"

(* v[i] is the world after message i: from the last snapshot on, the k-th  *)
(* message or the one the mirror has, what the deltas make of it.          *)
Heard(k, v, q, snap, w) ==
    /\ k \in 0 .. Len(q)
    /\ v \in [0 .. Len(q) -> World]
    /\ k = 0 => snap /\ v[0] = w
    /\ k > 0 => q[k].is = "snapshot" /\ v[k] = q[k].world
    /\ \A i \in k + 1 .. Len(q) : q[i].is = "delta" /\ v[i] = ApplyAll(v[i - 1], q[i].deltas)

(* Once all is heard, and what is pending too, the mirror is ahead by n.   *)
Follows(q, snap, w, hw, p, n) ==
    \E k \in 0 .. Len(q), v \in [0 .. Len(q) -> World] :
        Heard(k, v, q, snap, w) /\ ApplyAll(v[Len(q)], p) = Ahead(hw, n)

(* Deltas the host records. *)
LEMMA FollowsRecorded ==
  ASSUME NEW q \in Seq(Msg), NEW snap, NEW w, NEW hw \in World, NEW p \in Seq(Delta), NEW n \in Int,
         NEW ds \in Seq(Delta), Follows(q, snap, w, hw, p, n)
  PROVE  Follows(q, snap, w, ApplyAll(hw, ds), p \o ds, n)
<1>1. PICK k \in 0 .. Len(q), v \in [0 .. Len(q) -> World] :
          Heard(k, v, q, snap, w) /\ ApplyAll(v[Len(q)], p) = Ahead(hw, n)
  BY DEF Follows
<1>2. ApplyAll(v[Len(q)], p \o ds) = ApplyAll(ApplyAll(v[Len(q)], p), ds)
  BY ApplyBoth
<1>3. ApplyAll(Ahead(hw, n), ds) = Ahead(ApplyAll(hw, ds), n)
  BY StaysAhead
<1>4. ApplyAll(v[Len(q)], p \o ds) = Ahead(ApplyAll(hw, ds), n)
  BY <1>1, <1>2, <1>3
<1> QED BY <1>1, <1>4 DEF Follows

(* What is pending becomes a message. *)
LEMMA FollowsDrained ==
  ASSUME NEW q \in Seq(Msg), NEW snap, NEW w, NEW hw \in World, NEW p \in Seq(Delta), NEW n \in Int,
         NEW msg \in Msg, msg.is = "delta", msg.deltas = p, Follows(q, snap, w, hw, p, n)
  PROVE  Follows(Append(q, msg), snap, w, hw, <<>>, n)
<1>1. PICK k \in 0 .. Len(q), v \in [0 .. Len(q) -> World] :
          Heard(k, v, q, snap, w) /\ ApplyAll(v[Len(q)], p) = Ahead(hw, n)
  BY DEF Follows
<1>2. PICK l \in Nat : l = Len(q)
  BY LenProperties
<1>3. PICK r \in Seq(Msg) : r = Append(q, msg)
  BY AppendProperties
<1>4. Len(r) = l + 1 /\ r[l + 1] = msg /\ \A i \in 1 .. l : r[i] = q[i]
  BY <1>2, <1>3, AppendProperties
<1>5. PICK x \in World : x = ApplyAll(v[l], p)
  <2>1. PICK y \in World : y = v[l]
    BY <1>2
  <2> QED BY <2>1, ApplyAllType
<1>6. PICK u : u = [i \in 0 .. l + 1 |-> IF i = l + 1 THEN x ELSE v[i]]
  OBVIOUS
<1>7. u \in [0 .. l + 1 -> World] /\ u[l + 1] = x /\ \A i \in 0 .. l : u[i] = v[i]
  BY <1>2, <1>5, <1>6
<1>8. Heard(k, u, r, snap, w)
  <2>1. k \in 0 .. Len(r) /\ u \in [0 .. Len(r) -> World]
    BY <1>2, <1>4, <1>7
  <2>2. k = 0 => snap /\ u[0] = w
    BY <1>1, <1>2, <1>7 DEF Heard
  <2>3. k > 0 => r[k].is = "snapshot" /\ u[k] = r[k].world
    BY <1>1, <1>2, <1>4, <1>7 DEF Heard
  <2>4. ASSUME NEW i \in k + 1 .. Len(r)
        PROVE  r[i].is = "delta" /\ u[i] = ApplyAll(u[i - 1], r[i].deltas)
    <3>1. CASE i = l + 1
      <4>1. r[i] = msg /\ u[i] = x /\ u[i - 1] = v[l]
        BY <1>4, <1>7, <3>1
      <4> QED BY <1>5, <4>1
    <3>2. CASE i # l + 1
      <4>1. i \in k + 1 .. Len(q) /\ i \in 1 .. l /\ i - 1 \in 0 .. l /\ i \in 0 .. l
        BY <1>2, <1>4, <3>2
      <4>2. q[i].is = "delta" /\ v[i] = ApplyAll(v[i - 1], q[i].deltas)
        BY <1>1, <4>1 DEF Heard
      <4> QED BY <1>4, <1>7, <4>1, <4>2
    <3> QED BY <3>1, <3>2
  <2> QED BY <2>1, <2>2, <2>3, <2>4 DEF Heard
<1>9. ApplyAll(u[Len(r)], <<>>) = Ahead(hw, n)
  BY <1>1, <1>2, <1>4, <1>5, <1>7, ApplyNone
<1>10. k \in 0 .. Len(r) /\ u \in [0 .. Len(r) -> World]
  BY <1>2, <1>4, <1>7
<1> QED BY <1>3, <1>8, <1>9, <1>10 DEF Follows

(* A snapshot: what is pending is in it, and will be heard again. *)
LEMMA FollowsSnapshot ==
  ASSUME NEW q \in Seq(Msg), NEW snap, NEW w, NEW b \in World, NEW p \in Seq(Delta),
         NEW msg \in Msg, msg.is = "snapshot", msg.world = ApplyAll(b, p)
  PROVE  Follows(Append(q, msg), snap, w, msg.world, p, Added(p))
<1>1. PICK l \in Nat : l = Len(q)
  BY LenProperties
<1>2. PICK r \in Seq(Msg) : r = Append(q, msg)
  BY AppendProperties
<1>3. Len(r) = l + 1 /\ r[l + 1] = msg
  BY <1>1, <1>2, AppendProperties
<1>4. PICK x \in World : x = msg.world
  BY ApplyAllType
<1>5. PICK u : u = [i \in 0 .. l + 1 |-> x]
  OBVIOUS
<1>6. Heard(l + 1, u, r, snap, w)
  BY <1>3, <1>4, <1>5 DEF Heard
<1>7. ApplyAll(x, p) = Ahead(x, Added(p))
  BY <1>4, AppliedTwice
<1>8. u[Len(r)] = x /\ l + 1 \in 0 .. Len(r) /\ u \in [0 .. Len(r) -> World]
  BY <1>3, <1>5
<1> QED BY <1>2, <1>4, <1>6, <1>7, <1>8 DEF Follows

(* The mate hears the first message. *)
LEMMA FollowsHeard ==
  ASSUME NEW q \in Seq(Msg), NEW c \in Mate, NEW hw, NEW p, NEW n, q # <<>>,
         c.snap => c.mirror,
         Expecting(Tail(q), Received(c, Head(q)).snap),
         Follows(q, c.snap, c.world, hw, p, n)
  PROVE  Follows(Tail(q), Received(c, Head(q)).snap, Received(c, Head(q)).world, hw, p, n)
<1>1. PICK k \in 0 .. Len(q), v \in [0 .. Len(q) -> World] :
          Heard(k, v, q, c.snap, c.world) /\ ApplyAll(v[Len(q)], p) = Ahead(hw, n)
  BY DEF Follows
<1>2. PICK l \in Nat : Len(q) = l + 1
  <2>1. Len(q) \in Nat /\ Len(q) > 0
    BY EmptySeq, LenProperties
  <2> QED BY <2>1
<1>3. PICK r \in Seq(Msg) : r = Tail(q)
  BY HeadTailProperties
<1>4. Len(r) = l /\ \A i \in 1 .. l : r[i] = q[i + 1]
  BY <1>2, <1>3, HeadTailProperties
<1>5. PICK msg \in Msg : msg = Head(q) /\ msg = q[1]
  BY <1>2, HeadTailProperties
<1>6. PICK e : e = Received(c, msg)
  OBVIOUS
<1>7. PICK u : u = [i \in 0 .. l |-> v[i + 1]]
  OBVIOUS
<1>8. u \in [0 .. l -> World] /\ \A i \in 0 .. l : u[i] = v[i + 1]
  BY <1>2, <1>7
<1>9. u[Len(r)] = v[Len(q)]
  BY <1>2, <1>4, <1>8
<1>10. \A i \in k + 1 .. l + 1 : q[i].is = "delta" /\ v[i] = ApplyAll(v[i - 1], q[i].deltas)
  BY <1>1, <1>2 DEF Heard
<1>11. ASSUME NEW j \in 0 .. l, j + 1 >= k
       PROVE  \A i \in j + 1 .. l : r[i].is = "delta" /\ u[i] = ApplyAll(u[i - 1], r[i].deltas)
  <2> SUFFICES ASSUME NEW i \in j + 1 .. l PROVE r[i].is = "delta" /\ u[i] = ApplyAll(u[i - 1], r[i].deltas)
    OBVIOUS
  <2>1. i + 1 \in k + 1 .. l + 1 /\ i \in 1 .. l /\ i \in 0 .. l /\ i - 1 \in 0 .. l
    BY <1>11
  <2>2. q[i + 1].is = "delta" /\ v[i + 1] = ApplyAll(v[(i + 1) - 1], q[i + 1].deltas)
    BY <1>10, <2>1
  <2>3. u[i] = v[i + 1] /\ u[i - 1] = v[(i + 1) - 1] /\ r[i] = q[i + 1]
    BY <1>4, <1>8, <2>1
  <2> QED BY <2>2, <2>3
<1>12. ASSUME NEW j \in 0 .. l, Heard(j, u, r, e.snap, e.world)
       PROVE  Follows(r, e.snap, e.world, hw, p, n)
  BY <1>1, <1>4, <1>8, <1>9, <1>12 DEF Follows
<1>13. k \in {0, 1} => \A i \in 1 .. l : r[i].is = "delta" /\ u[i] = ApplyAll(u[i - 1], r[i].deltas)
  <2> HAVE k \in {0, 1}
  <2>1. 0 \in 0 .. l /\ 0 + 1 >= k /\ 0 + 1 = 1
    OBVIOUS
  <2>2. \A i \in 0 + 1 .. l : r[i].is = "delta" /\ u[i] = ApplyAll(u[i - 1], r[i].deltas)
    BY <1>11, <2>1
  <2> QED BY <2>2
<1>14. (\A i \in 1 .. l : r[i].is = "delta" /\ u[i] = ApplyAll(u[i - 1], r[i].deltas)) /\ e.snap /\ u[0] = e.world
           => Heard(0, u, r, e.snap, e.world)
  BY <1>4, <1>8 DEF Heard
<1>15. CASE k > 1
  <2>1. PICK j \in 1 .. l : j + 1 = k
    BY <1>2, <1>15
  <2>2. r[j].is = "snapshot" /\ u[j] = r[j].world
    BY <1>1, <1>4, <1>8, <2>1 DEF Heard
  <2>3. j \in 0 .. l /\ j + 1 >= k
    BY <2>1
  <2>4. \A i \in j + 1 .. l : r[i].is = "delta" /\ u[i] = ApplyAll(u[i - 1], r[i].deltas)
    BY <1>11, <2>3
  <2>5. Heard(j, u, r, e.snap, e.world)
    BY <1>4, <1>8, <2>1, <2>2, <2>4 DEF Heard
  <2> QED BY <1>3, <1>5, <1>6, <1>12, <2>3, <2>5
<1>16. CASE k = 1
  <2>0. /\ u[0] = v[1]
        /\ \A i \in 1 .. l : r[i].is = "delta" /\ u[i] = ApplyAll(u[i - 1], r[i].deltas)
    BY <1>8, <1>13, <1>16
  <2>1. msg.is = "snapshot" /\ v[1] = msg.world
    BY <1>1, <1>5, <1>16 DEF Heard
  <2>2. \A i \in 1 .. l : r[i].is # "snapshot"
    BY <2>0
  <2>3. e.snap
    BY <1>3, <1>4, <1>5, <1>6, <2>2 DEF Expecting
  <2>4. c.mirror
    BY <1>6, <2>3 DEF Received
  <2>5. e.world = msg.world
    BY <1>6, <2>1, <2>4 DEF Received, Installed, Mate
  <2>6. Heard(0, u, r, e.snap, e.world)
    BY <1>14, <2>0, <2>1, <2>3, <2>5
  <2> QED BY <1>3, <1>5, <1>6, <1>12, <2>6
<1>17. CASE k = 0
  <2>0. /\ u[0] = v[1]
        /\ \A i \in 1 .. l : r[i].is = "delta" /\ u[i] = ApplyAll(u[i - 1], r[i].deltas)
    BY <1>8, <1>13, <1>17
  <2>1. c.snap /\ c.mirror /\ v[0] = c.world
    BY <1>1, <1>17 DEF Heard
  <2>2. msg.is = "delta" /\ v[1] = ApplyAll(c.world, msg.deltas)
    BY <1>5, <1>10, <1>17, <2>1
  <2>3. e.snap /\ e.world = ApplyAll(c.world, msg.deltas)
    BY <1>6, <2>1, <2>2 DEF Received, Followed, Mate
  <2>4. Heard(0, u, r, e.snap, e.world)
    BY <1>14, <2>0, <2>2, <2>3
  <2> QED BY <1>3, <1>5, <1>6, <1>12, <2>4
<1> QED BY <1>15, <1>16, <1>17

(* A mate that has heard all is ahead by what its snapshot had too much.   *)
LEMMA FollowsAtTheEnd ==
  ASSUME NEW q, Len(q) = 0, NEW snap, NEW w, NEW hw, NEW p, Len(p) = 0, p \in Seq(Delta), NEW n,
         Follows(q, snap, w, hw, p, n)
  PROVE  w = Ahead(hw, n)
<1>1. PICK k \in 0 .. Len(q), v \in [0 .. Len(q) -> World] :
          Heard(k, v, q, snap, w) /\ ApplyAll(v[Len(q)], p) = Ahead(hw, n)
  BY DEF Follows
<1>2. v[0] = w /\ ApplyAll(w, p) = Ahead(hw, n)
  BY <1>1 DEF Heard
<1>3. p = <<>>
  BY EmptySeq
<1> QED BY <1>2, <1>3, ApplyNone

----------------------------------------------------------------------------
(* The inductive invariant                                                 *)

MirrorsTyped ==
    /\ host \in [tick : Int, world : World, pending : Seq(Delta), peers : SUBSET Mates]
    /\ lobby \in SUBSET Mates
    /\ mates \in [Mates -> Mate]
    /\ down \in [Mates -> Seq(Msg)]
    /\ up \in [Mates -> Seq(Up)]
    /\ slips \in [Mates -> [extra : Int, missed : BOOLEAN]]
    /\ DOMAIN spent = {"deeds", "frames", "asks", "slips"} /\ spent.deeds \in Int

(* What is pending is in the world already. *)
Pended(h) == \E b \in World : h.world = ApplyAll(b, h.pending)

(* Only a client of the host's lobby, one the host knows, has or awaits a  *)
(* snapshot.                                                               *)
Role(m, h, l, c, q, u) ==
    /\ c.snap => c.mirror
    /\ Expecting(q, c.snap) => c.role = "client" /\ m \in h.peers
    /\ u # <<>> => c.role = "client"
    /\ c.role = "client" => m \in l

Caught(h, c, q, s) ==
    Expecting(q, c.snap) /\ ~s.missed => Follows(q, c.snap, c.world, h.world, h.pending, s.extra)

Sound(m, h, l, c, q, u, s) == Role(m, h, l, c, q, u) /\ Caught(h, c, q, s)

MirrorInv ==
    /\ MirrorsTyped
    /\ Pended(host)
    /\ \A m \in Mates : Sound(m, host, lobby, mates[m], down[m], up[m], slips[m])

----------------------------------------------------------------------------
(* Steps of the host                                                       *)

Host == [tick : Int, world : World, pending : Seq(Delta), peers : SUBSET Mates]

LEMMA RecordKeeps ==
  ASSUME NEW h \in Host, NEW ds \in Seq(Delta), NEW r, r = Recorded(h, ds)
  PROVE  /\ r \in Host /\ r.tick = h.tick /\ r.peers = h.peers
         /\ r.world = ApplyAll(h.world, ds) /\ r.pending = h.pending \o ds
         /\ Pended(h) => Pended(r)
<1>1. PICK w \in World : w = ApplyAll(h.world, ds)
  BY ApplyAllType DEF Host
<1>2. PICK p \in Seq(Delta) : p = h.pending \o ds
  BY ConcatProperties DEF Host
<1>3. r = [h EXCEPT !.world = w, !.pending = p]
  BY <1>1, <1>2 DEF Recorded
<1>4. /\ r \in Host /\ r.tick = h.tick /\ r.peers = h.peers
      /\ r.world = w /\ r.pending = p
  BY <1>3 DEF Host
<1>5. ASSUME NEW b \in World, h.world = ApplyAll(b, h.pending) PROVE r.world = ApplyAll(b, r.pending)
  <2>1. ApplyAll(b, h.pending \o ds) = ApplyAll(ApplyAll(b, h.pending), ds)
    BY ApplyBoth DEF Host
  <2> QED BY <1>1, <1>2, <1>4, <1>5, <2>1
<1> QED BY <1>1, <1>2, <1>4, <1>5 DEF Pended

(* Deltas recorded, with the same peers or as many as the lobby has. *)
LEMMA SoundRecorded ==
  ASSUME NEW m \in Mates, NEW h \in Host, NEW l, NEW c \in Mate, NEW q \in Seq(Msg), NEW u,
         NEW s \in [extra : Int, missed : BOOLEAN],
         NEW ds \in Seq(Delta), NEW r \in Host, r.world = ApplyAll(h.world, ds), r.pending = h.pending \o ds,
         r.peers = h.peers \/ r.peers = l,
         Sound(m, h, l, c, q, u, s)
  PROVE  Sound(m, r, l, c, q, u, s)
<1>1. Role(m, r, l, c, q, u)
  BY DEF Sound, Role
<1>2. Caught(r, c, q, s)
  <2> SUFFICES ASSUME Expecting(q, c.snap), ~s.missed
               PROVE  Follows(q, c.snap, c.world, r.world, r.pending, s.extra)
    BY DEF Caught
  <2>1. Follows(q, c.snap, c.world, h.world, h.pending, s.extra)
    BY DEF Sound, Caught
  <2>2. /\ h.world \in World /\ h.pending \in Seq(Delta) /\ s.extra \in Int
    BY DEF Host
  <2>3. Follows(q, c.snap, c.world, ApplyAll(h.world, ds), h.pending \o ds, s.extra)
    BY <2>1, <2>2, FollowsRecorded
  <2> QED BY <2>3
<1> QED BY <1>1, <1>2 DEF Sound

(* Other peers only. *)
LEMMA SoundRefreshed ==
  ASSUME NEW m \in Mates, NEW h \in Host, NEW l, NEW c \in Mate, NEW q \in Seq(Msg), NEW u, NEW s,
         NEW r \in Host, r.world = h.world, r.pending = h.pending, r.peers = l,
         Sound(m, h, l, c, q, u, s)
  PROVE  Sound(m, r, l, c, q, u, s)
  BY DEF Sound, Role, Caught

(* One packet more, and what was pending is no longer. *)
LEMMA SoundDrained ==
  ASSUME NEW m \in Mates, NEW h \in Host, NEW l, NEW c \in Mate, NEW q \in Seq(Msg), NEW u,
         NEW s \in [extra : Int, missed : BOOLEAN],
         NEW d \in Host, d.world = h.world, d.pending = <<>>, d.peers = h.peers,
         NEW msg \in Msg, msg.is = "delta", msg.deltas = h.pending,
         Sound(m, h, l, c, q, u, s)
  PROVE  Sound(m, d, l, c, Append(q, msg), u, s)
<1>1. Expecting(Append(q, msg), c.snap) => Expecting(q, c.snap)
  <2>1. /\ Len(Append(q, msg)) = Len(q) + 1 /\ Len(q) \in Nat
        /\ Append(q, msg)[Len(q) + 1] = msg
        /\ \A i \in 1 .. Len(q) : Append(q, msg)[i] = q[i]
    BY AppendProperties, LenProperties
  <2> QED BY <2>1 DEF Expecting
<1>2. Role(m, d, l, c, Append(q, msg), u)
  BY <1>1 DEF Sound, Role
<1>3. Caught(d, c, Append(q, msg), s)
  <2> SUFFICES ASSUME Expecting(q, c.snap), ~s.missed
               PROVE  Follows(Append(q, msg), c.snap, c.world, h.world, <<>>, s.extra)
    BY <1>1 DEF Caught
  <2>1. Follows(q, c.snap, c.world, h.world, h.pending, s.extra)
    BY DEF Sound, Caught
  <2>2. /\ h.world \in World /\ h.pending \in Seq(Delta) /\ s.extra \in Int
    BY DEF Host
  <2> QED BY <2>1, <2>2, FollowsDrained
<1> QED BY <1>2, <1>3 DEF Sound

(* The packet is lost, or not meant for this mate. *)
LEMMA SoundMissed ==
  ASSUME NEW m \in Mates, NEW h \in Host, NEW l, NEW c \in Mate, NEW q \in Seq(Msg), NEW u,
         NEW s, NEW t, NEW d \in Host, d.peers = h.peers,
         t.missed \/ m \notin h.peers \/ m \notin l,
         Sound(m, h, l, c, q, u, s)
  PROVE  Sound(m, d, l, c, q, u, t)
  BY DEF Sound, Role, Caught

LEMMA DeltasTyped == ASSUME MirrorsTyped PROVE Deltas \subseteq Delta
  BY DEF MirrorsTyped, Deltas, Delta

LEMMA OneDelta == ASSUME NEW d \in Delta PROVE <<d>> \in Seq(Delta)
  BY DEF Delta

LEMMA TickedKeeps ==
  ASSUME NEW h \in Host, NEW ds \in Seq(Delta), NEW r, r = Ticked(h, ds)
  PROVE  /\ r \in Host /\ r.peers = h.peers
         /\ r.world = ApplyAll(h.world, ds) /\ r.pending = h.pending \o ds
         /\ Pended(h) => Pended(r)
<1>1. PICK e \in Host :
          /\ e = Recorded(h, ds) /\ e.peers = h.peers
          /\ e.world = ApplyAll(h.world, ds) /\ e.pending = h.pending \o ds
          /\ Pended(h) => Pended(e)
  BY RecordKeeps
<1>2. /\ e.peers = h.peers /\ e.world = ApplyAll(h.world, ds) /\ e.pending = h.pending \o ds
      /\ Pended(h) => Pended(e)
  BY <1>1
<1>3. PICK n \in Int : n = e.tick + 1
  BY DEF Host
<1>4. r \in Host /\ r.peers = e.peers /\ r.world = e.world /\ r.pending = e.pending
  <2>1. r = [e EXCEPT !.tick = n]
    BY <1>1, <1>3 DEF Ticked
  <2> QED BY <2>1 DEF Host
<1> QED BY <1>2, <1>4 DEF Pended

LEMMA HostFrameKeeps == MirrorInv /\ HostFrame => MirrorInv'
<1> SUFFICES ASSUME MirrorInv, HostFrame PROVE MirrorInv'
  OBVIOUS
<1>1. PICK work \in {<<>>} \cup {<<d>> : d \in Deltas}, refused \in SUBSET (host.peers \cap lobby), fails \in BOOLEAN :
          LET ticked == Ticked(host, work)
          IN /\ IF fails \/ ticked.pending = <<>>
                THEN refused = {} /\ host' = ticked /\ UNCHANGED <<down, slips>>
                ELSE /\ host' = Drained(ticked)
                     /\ Broadcast([is |-> "delta", tick |-> ticked.tick, deltas |-> ticked.pending], refused)
             /\ spent' = [spent EXCEPT !.frames = @ + 1, !.deeds = @ + Len(work), !.slips = @ + Cardinality(refused)]
  BY DEF HostFrame
<1>2. UNCHANGED <<lobby, mates, up>>
  BY DEF HostFrame
<1>3. MirrorsTyped /\ Pended(host) /\ \A m \in Mates : Sound(m, host, lobby, mates[m], down[m], up[m], slips[m])
  BY DEF MirrorInv
<1>4. work \in Seq(Delta)
  BY <1>3, DeltasTyped, OneDelta, EmptySeq
<1>5. host \in Host
  BY <1>3 DEF MirrorsTyped, Host
<1>6. PICK t \in Host :
          /\ t = Ticked(host, work) /\ t.peers = host.peers
          /\ t.world = ApplyAll(host.world, work) /\ t.pending = host.pending \o work
          /\ Pended(t)
  BY <1>3, <1>4, <1>5, TickedKeeps
<1>7. \A m \in Mates : Sound(m, t, lobby, mates[m], down[m], up[m], slips[m])
  <2> SUFFICES ASSUME NEW m \in Mates PROVE Sound(m, t, lobby, mates[m], down[m], up[m], slips[m])
    OBVIOUS
  <2>1. mates[m] \in Mate /\ down[m] \in Seq(Msg) /\ slips[m] \in [extra : Int, missed : BOOLEAN]
    BY <1>3 DEF MirrorsTyped
  <2>2. Sound(m, host, lobby, mates[m], down[m], up[m], slips[m])
    BY <1>3
  <2> QED BY <1>4, <1>5, <1>6, <2>1, <2>2, SoundRecorded
<1>8. /\ DOMAIN spent' = {"deeds", "frames", "asks", "slips"} /\ spent'.deeds \in Int
      /\ lobby' \in SUBSET Mates /\ mates' \in [Mates -> Mate] /\ up' \in [Mates -> Seq(Up)]
  <2>1. Len(work) \in Int
    BY <1>4, LenProperties
  <2>2. spent' = [spent EXCEPT !.frames = @ + 1, !.deeds = @ + Len(work), !.slips = @ + Cardinality(refused)]
    BY <1>1
  <2>3. DOMAIN spent' = {"deeds", "frames", "asks", "slips"} /\ spent'.deeds = spent.deeds + Len(work)
    BY <1>3, <2>2 DEF MirrorsTyped
  <2> QED BY <1>2, <1>3, <2>1, <2>3 DEF MirrorsTyped
<1>9. CASE fails \/ t.pending = <<>>
  <2>1. host' = t /\ UNCHANGED <<down, slips>>
    BY <1>1, <1>6, <1>9
  <2>2. MirrorsTyped'
    BY <1>3, <1>8, <2>1 DEF MirrorsTyped, Host
  <2> QED BY <1>2, <1>6, <1>7, <2>1, <2>2 DEF MirrorInv
<1>10. CASE ~(fails \/ t.pending = <<>>)
  <2>1. PICK msg : msg = [is |-> "delta", tick |-> t.tick, deltas |-> t.pending]
    OBVIOUS
  <2>2. host' = Drained(t) /\ Broadcast(msg, refused)
    BY <1>1, <1>6, <1>10, <2>1
  <2>3. msg \in Msg /\ msg.is = "delta" /\ msg.deltas = t.pending
    BY <2>1 DEF Msg, Host
  <2>4. PICK p \in Seq(Delta) : p = <<>>
    BY EmptySeq
  <2>5. host' = [t EXCEPT !.pending = p]
    BY <2>2, <2>4 DEF Drained
  <2>6. host' \in Host /\ host'.peers = t.peers /\ host'.world = t.world /\ host'.pending = p
    BY <2>5 DEF Host
  <2>7. Pended(host')
    <3>1. host'.world \in World
      BY <2>6 DEF Host
    <3>2. ApplyAll(host'.world, host'.pending) = host'.world
      BY <2>4, <2>6, ApplyNone
    <3> QED BY <3>1, <3>2 DEF Pended
  <2>8. \A m \in Mates :
           /\ down'[m] = IF m \in (host.peers \cap lobby) \ refused THEN Append(down[m], msg) ELSE down[m]
           /\ slips'[m] = IF m \in refused THEN [slips[m] EXCEPT !.missed = TRUE] ELSE slips[m]
    BY <2>2 DEF Broadcast
  <2>9. MirrorsTyped'
    <3>1. down' \in [Mates -> Seq(Msg)]
      <4>1. \A m \in Mates : down[m] \in Seq(Msg) /\ Append(down[m], msg) \in Seq(Msg)
        BY <1>3, <2>3, AppendProperties DEF MirrorsTyped
      <4> QED BY <2>2, <4>1 DEF Broadcast
    <3>2. slips' \in [Mates -> [extra : Int, missed : BOOLEAN]]
      BY <1>3, <2>2 DEF MirrorsTyped, Broadcast
    <3> QED BY <1>8, <2>6, <3>1, <3>2 DEF MirrorsTyped, Host
  <2>10. ASSUME NEW m \in Mates
         PROVE  Sound(m, host', lobby, mates[m], down'[m], up[m], slips'[m])
    <3>1. mates[m] \in Mate /\ down[m] \in Seq(Msg) /\ slips[m] \in [extra : Int, missed : BOOLEAN]
      BY <1>3 DEF MirrorsTyped
    <3>2. Sound(m, t, lobby, mates[m], down[m], up[m], slips[m])
      BY <1>7
    <3>3. CASE m \in (host.peers \cap lobby) \ refused
      <4>1. down'[m] = Append(down[m], msg) /\ slips'[m] = slips[m]
        BY <2>8, <3>3
      <4>2. PICK d \in Host :
                /\ d = host' /\ d.world = t.world /\ d.pending = <<>> /\ d.peers = t.peers
        BY <2>4, <2>6
      <4>3. Sound(m, d, lobby, mates[m], Append(down[m], msg), up[m], slips[m])
        BY <2>3, <3>1, <3>2, <4>2, SoundDrained
      <4> QED BY <4>1, <4>2, <4>3
    <3>4. CASE m \notin (host.peers \cap lobby) \ refused
      <4>1. down'[m] = down[m]
        BY <2>8, <3>4
      <4>2. slips'[m].missed \/ m \notin t.peers \/ m \notin lobby
        BY <1>6, <2>8, <3>1, <3>4
      <4>3. PICK s : s = slips'[m]
        OBVIOUS
      <4>4. Sound(m, host', lobby, mates[m], down[m], up[m], s)
        BY <2>6, <3>1, <3>2, <4>2, <4>3, SoundMissed
      <4> QED BY <4>1, <4>3, <4>4
    <3> QED BY <3>3, <3>4
  <2> QED BY <1>2, <2>7, <2>9, <2>10 DEF MirrorInv
<1> QED BY <1>9, <1>10

LEMMA HostActsKeeps == MirrorInv /\ HostActs => MirrorInv'
<1> SUFFICES ASSUME MirrorInv, HostActs PROVE MirrorInv'
  OBVIOUS
<1>1. PICK d \in Deltas : host' = Recorded(host, <<d>>)
  BY DEF HostActs
<1>2. /\ spent' = [spent EXCEPT !.deeds = @ + 1]
      /\ UNCHANGED <<lobby, mates, down, up, slips>>
  BY DEF HostActs
<1>3. MirrorsTyped /\ Pended(host) /\ \A m \in Mates : Sound(m, host, lobby, mates[m], down[m], up[m], slips[m])
  BY DEF MirrorInv
<1>4. PICK ds \in Seq(Delta) : ds = <<d>>
  BY <1>3, DeltasTyped, OneDelta
<1>5. host \in Host
  BY <1>3 DEF MirrorsTyped, Host
<1>6. PICK t \in Host :
          /\ t = host' /\ t.peers = host.peers
          /\ t.world = ApplyAll(host.world, ds) /\ t.pending = host.pending \o ds
          /\ Pended(t)
  BY <1>1, <1>3, <1>4, <1>5, RecordKeeps
<1>7. ASSUME NEW m \in Mates PROVE Sound(m, t, lobby, mates[m], down[m], up[m], slips[m])
  <2>1. mates[m] \in Mate /\ down[m] \in Seq(Msg) /\ slips[m] \in [extra : Int, missed : BOOLEAN]
    BY <1>3 DEF MirrorsTyped
  <2>2. Sound(m, host, lobby, mates[m], down[m], up[m], slips[m])
    BY <1>3
  <2> QED BY <1>5, <1>6, <2>1, <2>2, SoundRecorded
<1>8. MirrorsTyped'
  BY <1>2, <1>3, <1>6 DEF MirrorsTyped, Host
<1> QED BY <1>2, <1>6, <1>7, <1>8 DEF MirrorInv

(* Answer *)
LEMMA SoundAnswered ==
  ASSUME NEW m \in Mates, NEW h \in Host, NEW l, NEW c \in Mate, NEW q \in Seq(Msg), NEW u, NEW v,
         u # <<>>, m \in l, NEW s,
         NEW r \in Host, r.world = h.world, r.pending = h.pending, r.peers = l, Pended(h),
         NEW msg \in Msg, msg.is = "snapshot", msg.world = h.world,
         NEW t \in [extra : Int, missed : BOOLEAN], t.extra = Added(h.pending),
         Sound(m, h, l, c, q, u, s)
  PROVE  Sound(m, r, l, c, Append(q, msg), v, t)
<1>1. PICK b \in World : h.world = ApplyAll(b, h.pending)
  BY DEF Pended
<1>2. h.pending \in Seq(Delta)
  BY DEF Host
<1>3. Follows(Append(q, msg), c.snap, c.world, msg.world, h.pending, Added(h.pending))
  BY <1>1, <1>2, FollowsSnapshot
<1>4. Role(m, r, l, c, Append(q, msg), v)
  BY DEF Sound, Role
<1>5. Caught(r, c, Append(q, msg), t)
  BY <1>3 DEF Caught
<1> QED BY <1>4, <1>5 DEF Sound

(* Packets on their way to the host matter as long as they are a client's. *)
LEMMA SoundSent ==
  ASSUME NEW m, NEW h, NEW l, NEW c, NEW q, NEW u, NEW s, NEW v,
         c.role = "client" \/ v = <<>>,
         Sound(m, h, l, c, q, u, s)
  PROVE  Sound(m, h, l, c, q, v, s)
  BY DEF Sound, Role

LEMMA HostHearsKeeps == MirrorInv /\ HostHears => MirrorInv'
<1> SUFFICES ASSUME MirrorInv, HostHears PROVE MirrorInv'
  OBVIOUS
<1>3. MirrorsTyped /\ Pended(host) /\ \A m \in Mates : Sound(m, host, lobby, mates[m], down[m], up[m], slips[m])
  BY DEF MirrorInv
<1>4. PICK r \in Host : /\ r = RefreshPeers(host)
                        /\ r.world = host.world /\ r.pending = host.pending /\ r.peers = lobby
  <2>1. host \in Host /\ lobby \in SUBSET Mates
    BY <1>3 DEF MirrorsTyped, Host
  <2>2. PICK r : r = [host EXCEPT !.peers = lobby]
    OBVIOUS
  <2>3. r \in Host /\ r.world = host.world /\ r.pending = host.pending /\ r.peers = lobby
    BY <2>1, <2>2 DEF Host
  <2>4. r = RefreshPeers(host)
    BY <2>2 DEF RefreshPeers
  <2> QED BY <2>3, <2>4
<1>5. host \in Host
  BY <1>3 DEF MirrorsTyped, Host
<1>6. Pended(r)
  BY <1>3, <1>4 DEF Pended
<1>7. ASSUME NEW m \in Mates
      PROVE  /\ mates[m] \in Mate /\ down[m] \in Seq(Msg) /\ slips[m] \in [extra : Int, missed : BOOLEAN]
             /\ up[m] \in Seq(Up)
             /\ Sound(m, r, lobby, mates[m], down[m], up[m], slips[m])
  <2>1. /\ mates[m] \in Mate /\ down[m] \in Seq(Msg) /\ slips[m] \in [extra : Int, missed : BOOLEAN]
        /\ up[m] \in Seq(Up)
    BY <1>3 DEF MirrorsTyped
  <2>2. Sound(m, host, lobby, mates[m], down[m], up[m], slips[m])
    BY <1>3
  <2>3. Sound(m, r, lobby, mates[m], down[m], up[m], slips[m])
    BY <1>4, <1>5, <2>1, <2>2, SoundRefreshed
  <2> QED BY <2>1, <2>3
<1>8. CASE host' = RefreshPeers(host) /\ UNCHANGED <<lobby, mates, down, up, slips, spent>>
  <2>1. host' = r /\ UNCHANGED <<lobby, mates, down, up, slips, spent>>
    BY <1>4, <1>8
  <2>2. MirrorsTyped'
    BY <1>3, <2>1 DEF MirrorsTyped, Host
  <2> QED BY <1>6, <1>7, <2>1, <2>2 DEF MirrorInv
<1>9. ASSUME NEW m \in lobby,
             up[m] # <<>>, up' = [up EXCEPT ![m] = Tail(@)], UNCHANGED <<lobby, mates>>,
             \/ /\ Head(up[m]).is = "join"
                /\ \E refused \in BOOLEAN : Answer(m, refused)
             \/ /\ Head(up[m]).is = "action"
                /\ host' = Recorded(RefreshPeers(host), <<Head(up[m]).delta>>)
                /\ UNCHANGED <<down, slips, spent>>
      PROVE  MirrorInv'
  <2>1. m \in Mates
    BY <1>3 DEF MirrorsTyped
  <2>2. up' \in [Mates -> Seq(Up)] /\ \A x \in Mates : up'[x] = IF x = m THEN Tail(up[m]) ELSE up[x]
    <3>1. up[m] \in Seq(Up) /\ Tail(up[m]) \in Seq(Up)
      BY <1>7, <1>9, <2>1, HeadTailProperties
    <3> QED BY <1>3, <1>9, <3>1 DEF MirrorsTyped
  <2>3. mates[m].role = "client"
    BY <1>7, <1>9, <2>1 DEF Sound, Role
  <2>4. ASSUME NEW x \in Mates PROVE Sound(x, r, lobby, mates[x], down[x], up'[x], slips[x])
    <3>1. Sound(x, r, lobby, mates[x], down[x], up[x], slips[x])
      BY <1>7
    <3>2. CASE x = m
      BY <2>3, <3>1, <3>2, SoundSent
    <3> QED BY <2>2, <3>1, <3>2
  <2>5. ASSUME NEW refused \in BOOLEAN, Answer(m, refused) PROVE MirrorInv'
    <3>1. host' = r
      BY <1>4, <2>5 DEF Answer
    <3>2. DOMAIN spent' = {"deeds", "frames", "asks", "slips"} /\ spent'.deeds \in Int
      <4>1. spent' = [spent EXCEPT !.slips = @ + (IF refused THEN 1 ELSE 0)]
        BY <2>5 DEF Answer
      <4> QED BY <1>3, <4>1 DEF MirrorsTyped
    <3>3. CASE refused
      <4>1. down' = down /\ slips' = slips
        <5>1. down' = [down EXCEPT ![m] = down[m]] /\ slips' = slips
          BY <2>5, <3>3 DEF Answer
        <5> QED BY <1>3, <5>1 DEF MirrorsTyped
      <4>2. MirrorsTyped'
        BY <1>3, <1>9, <2>2, <3>1, <3>2, <4>1 DEF MirrorsTyped, Host
      <4> QED BY <1>6, <1>9, <2>4, <3>1, <4>1, <4>2 DEF MirrorInv
    <3>4. CASE ~refused
      <4>1. PICK msg : msg = [is |-> "snapshot", tick |-> host.tick, world |-> host.world]
        OBVIOUS
      <4>2. msg \in Msg /\ msg.is = "snapshot" /\ msg.world = host.world
        BY <1>5, <4>1 DEF Msg, Host
      <4>3. PICK t \in [extra : Int, missed : BOOLEAN] :
                t = [extra |-> Added(host.pending), missed |-> FALSE] /\ t.extra = Added(host.pending)
        <5>1. FreshWorld \in World /\ host.pending \in Seq(Delta)
          BY <1>5 DEF FreshWorld, World, Host
        <5>2. PICK n \in Int : n = Added(host.pending)
          BY <5>1, AddsTheSame
        <5>3. [extra |-> n, missed |-> FALSE] \in [extra : Int, missed : BOOLEAN]
          OBVIOUS
        <5> QED BY <5>2, <5>3
      <4>4. down' = [down EXCEPT ![m] = Append(@, msg)] /\ slips' = [slips EXCEPT ![m] = t]
        BY <2>5, <3>4, <4>1, <4>3 DEF Answer
      <4>5. /\ down' \in [Mates -> Seq(Msg)] /\ slips' \in [Mates -> [extra : Int, missed : BOOLEAN]]
            /\ \A x \in Mates : /\ down'[x] = IF x = m THEN Append(down[m], msg) ELSE down[x]
                                /\ slips'[x] = IF x = m THEN t ELSE slips[x]
        <5>1. Append(down[m], msg) \in Seq(Msg)
          BY <1>7, <2>1, <4>2, AppendProperties
        <5> QED BY <1>3, <4>4, <5>1 DEF MirrorsTyped
      <4>6. MirrorsTyped'
        BY <1>3, <1>9, <2>2, <3>1, <3>2, <4>5 DEF MirrorsTyped, Host
      <4>7. ASSUME NEW x \in Mates PROVE Sound(x, r, lobby, mates[x], down'[x], up'[x], slips'[x])
        <5>1. CASE x # m
          BY <2>4, <4>5, <5>1
        <5>2. CASE x = m
          <6>1. /\ mates[m] \in Mate /\ down[m] \in Seq(Msg)
                /\ Sound(m, host, lobby, mates[m], down[m], up[m], slips[m])
            BY <1>3, <1>7, <2>1
          <6>2. PICK u : u = up'[m]
            OBVIOUS
          <6>3. Sound(m, r, lobby, mates[m], Append(down[m], msg), u, t)
            BY <1>3, <1>4, <1>5, <1>9, <2>1, <4>2, <4>3, <6>1, SoundAnswered
          <6> QED BY <2>1, <4>5, <5>2, <6>2, <6>3
        <5> QED BY <5>1, <5>2
      <4> QED BY <1>6, <1>9, <3>1, <4>6, <4>7 DEF MirrorInv
    <3> QED BY <3>3, <3>4
  <2>6. ASSUME Head(up[m]).is = "action",
               host' = Recorded(RefreshPeers(host), <<Head(up[m]).delta>>),
               UNCHANGED <<down, slips, spent>>
        PROVE  MirrorInv'
    <3>1. PICK ds \in Seq(Delta) : ds = <<Head(up[m]).delta>>
      <4>1. Head(up[m]) \in Up
        BY <1>7, <1>9, <2>1, HeadTailProperties
      <4>2. Head(up[m]).delta \in Delta
        BY <2>6, <4>1 DEF Up
      <4> QED BY <4>2, OneDelta
    <3>2. PICK t \in Host :
              /\ t = host' /\ t.peers = r.peers
              /\ t.world = ApplyAll(r.world, ds) /\ t.pending = r.pending \o ds
              /\ Pended(t)
      <4>1. host' = Recorded(r, ds)
        BY <1>4, <2>6, <3>1
      <4> QED BY <1>6, <4>1, RecordKeeps
    <3>3. ASSUME NEW x \in Mates PROVE Sound(x, t, lobby, mates[x], down[x], up'[x], slips[x])
      <4>1. mates[x] \in Mate /\ down[x] \in Seq(Msg) /\ slips[x] \in [extra : Int, missed : BOOLEAN]
        BY <1>7
      <4>2. PICK u : u = up'[x]
        OBVIOUS
      <4>3. Sound(x, r, lobby, mates[x], down[x], u, slips[x])
        BY <2>4, <4>2
      <4>4. Sound(x, t, lobby, mates[x], down[x], u, slips[x])
        BY <3>2, <4>1, <4>3, SoundRecorded
      <4> QED BY <4>2, <4>4
    <3>4. MirrorsTyped'
      BY <1>3, <1>9, <2>2, <2>6, <3>2 DEF MirrorsTyped, Host
    <3> QED BY <1>9, <2>6, <3>2, <3>3, <3>4 DEF MirrorInv
  <2> QED BY <1>9, <2>5, <2>6
<1> QED BY <1>8, <1>9 DEF HostHears

----------------------------------------------------------------------------
(* Steps of a mate                                                         *)

(* What a mate does to its own session. *)
LEMMA OneMateKeeps ==
  ASSUME MirrorInv, NEW m \in Mates, NEW c \in Mate, mates' = [mates EXCEPT ![m] = c],
         UNCHANGED <<host, lobby, down, up, slips, spent>>,
         Sound(m, host, lobby, c, down[m], up[m], slips[m])
  PROVE  MirrorInv'
<1>1. \A x \in Mates : mates'[x] = IF x = m THEN c ELSE mates[x]
  BY DEF MirrorInv, MirrorsTyped
<1>2. MirrorsTyped'
  BY DEF MirrorInv, MirrorsTyped
<1>3. ASSUME NEW x \in Mates PROVE Sound(x, host, lobby, mates'[x], down[x], up[x], slips[x])
  <2>1. CASE x = m
    BY <1>1, <2>1
  <2>2. CASE x # m
    BY <1>1, <2>2 DEF MirrorInv
  <2> QED BY <2>1, <2>2
<1> QED BY <1>2, <1>3 DEF MirrorInv

LEMMA JoinKeeps == ASSUME MirrorInv, NEW m \in Mates, Join(m) PROVE MirrorInv'
<1>1. lobby' = lobby \cup {m} /\ UNCHANGED <<host, mates, down, up, slips, spent>>
  BY DEF Join
<1>2. MirrorsTyped'
  BY <1>1 DEF MirrorInv, MirrorsTyped
<1>3. ASSUME NEW x \in Mates PROVE Sound(x, host, lobby', mates[x], down[x], up[x], slips[x])
  BY <1>1 DEF MirrorInv, Sound, Role
<1> QED BY <1>1, <1>2, <1>3 DEF MirrorInv

LEMMA LobbyReadyKeeps == ASSUME MirrorInv, NEW m \in Mates, LobbyReady(m) PROVE MirrorInv'
<1>1. PICK c \in Mate : c = [mates[m] EXCEPT !.role = "client"] /\ c.role = "client"
                        /\ c.snap = mates[m].snap /\ c.mirror = mates[m].mirror /\ c.world = mates[m].world
  <2>1. PICK o \in Mate : o = mates[m]
    BY DEF MirrorInv, MirrorsTyped
  <2>2. PICK c : c = [o EXCEPT !.role = "client"]
    OBVIOUS
  <2>3. c \in Mate /\ c.role = "client"
                        /\ c.snap = o.snap /\ c.mirror = o.mirror /\ c.world = o.world
    BY <2>2 DEF Mate
  <2> QED BY <2>1, <2>2, <2>3
<1>2. Sound(m, host, lobby, mates[m], down[m], up[m], slips[m]) /\ m \in lobby
  BY DEF MirrorInv, LobbyReady
<1>3. Sound(m, host, lobby, c, down[m], up[m], slips[m])
  BY <1>1, <1>2 DEF Sound, Role, Caught
<1>4. mates' = [mates EXCEPT ![m] = c] /\ UNCHANGED <<host, lobby, down, up, slips, spent>>
  BY <1>1 DEF LobbyReady
<1> QED BY <1>3, <1>4, OneMateKeeps

LEMMA StartMirrorKeeps == ASSUME MirrorInv, NEW m \in Mates, StartMirror(m) PROVE MirrorInv'
<1>1. PICK c \in Mate : c = [mates[m] EXCEPT !.mirror = TRUE] /\ c.mirror
                        /\ c.snap = mates[m].snap /\ c.role = mates[m].role /\ c.world = mates[m].world
  <2>1. PICK o \in Mate : o = mates[m]
    BY DEF MirrorInv, MirrorsTyped
  <2>2. PICK c : c = [o EXCEPT !.mirror = TRUE]
    OBVIOUS
  <2>3. c \in Mate /\ c.mirror
                        /\ c.snap = o.snap /\ c.role = o.role /\ c.world = o.world
    BY <2>2 DEF Mate
  <2> QED BY <2>1, <2>2, <2>3
<1>2. Sound(m, host, lobby, mates[m], down[m], up[m], slips[m])
  BY DEF MirrorInv
<1>3. Sound(m, host, lobby, c, down[m], up[m], slips[m])
  BY <1>1, <1>2 DEF Sound, Role, Caught
<1>4. mates' = [mates EXCEPT ![m] = c] /\ UNCHANGED <<host, lobby, down, up, slips, spent>>
  BY <1>1 DEF StartMirror
<1> QED BY <1>3, <1>4, OneMateKeeps

LEMMA MateTicksKeeps == ASSUME MirrorInv, NEW m \in Mates, MateTicks(m) PROVE MirrorInv'
<1>1. PICK c \in Mate : c = [mates[m] EXCEPT !.clock = @ + 1] /\ c.mirror = mates[m].mirror
                        /\ c.snap = mates[m].snap /\ c.role = mates[m].role /\ c.world = mates[m].world
  <2>1. PICK o \in Mate : o = mates[m]
    BY DEF MirrorInv, MirrorsTyped
  <2>0. PICK n \in Int : n = o.clock + 1
    BY DEF Mate
  <2>2. PICK c : c = [o EXCEPT !.clock = n]
    OBVIOUS
  <2>3. c \in Mate /\ c.mirror = o.mirror
                        /\ c.snap = o.snap /\ c.role = o.role /\ c.world = o.world
    BY <2>2 DEF Mate
  <2> QED BY <2>0, <2>1, <2>2, <2>3
<1>2. Sound(m, host, lobby, mates[m], down[m], up[m], slips[m])
  BY DEF MirrorInv
<1>3. Sound(m, host, lobby, c, down[m], up[m], slips[m])
  BY <1>1, <1>2 DEF Sound, Role, Caught
<1>4. mates' = [mates EXCEPT ![m] = c] /\ UNCHANGED <<host, lobby, down, up, slips, spent>>
  BY <1>1 DEF MateTicks
<1> QED BY <1>3, <1>4, OneMateKeeps

(* A client sends the host a packet. *)
LEMMA SentKeeps ==
  ASSUME MirrorInv, NEW m \in Mates, NEW p \in Up, mates[m].role = "client",
         up' = [up EXCEPT ![m] = Append(@, p)],
         UNCHANGED <<host, lobby, mates, down, slips>>,
         DOMAIN spent' = {"deeds", "frames", "asks", "slips"}, spent'.deeds \in Int
  PROVE  MirrorInv'
<1>1. Append(up[m], p) \in Seq(Up)
  BY AppendProperties DEF MirrorInv, MirrorsTyped
<1>2. up' \in [Mates -> Seq(Up)] /\ \A x \in Mates : x # m => up'[x] = up[x]
  BY <1>1 DEF MirrorInv, MirrorsTyped
<1>3. MirrorsTyped'
  BY <1>2 DEF MirrorInv, MirrorsTyped
<1>4. ASSUME NEW x \in Mates PROVE Sound(x, host, lobby, mates[x], down[x], up'[x], slips[x])
  <2>1. Sound(x, host, lobby, mates[x], down[x], up[x], slips[x])
    BY DEF MirrorInv
  <2>2. CASE x = m
    <3>1. PICK u : u = up'[x]
      OBVIOUS
    <3> QED BY <2>1, <2>2, <3>1, SoundSent
  <2> QED BY <1>2, <2>1, <2>2
<1> QED BY <1>3, <1>4 DEF MirrorInv

LEMMA SendJoinRequestKeeps == ASSUME MirrorInv, NEW m \in Mates, SendJoinRequest(m) PROVE MirrorInv'
<1>1. PICK p \in Up : p = [is |-> "join"]
  BY DEF Up
<1>2. /\ mates[m].role = "client" /\ up' = [up EXCEPT ![m] = Append(@, p)]
      /\ UNCHANGED <<host, lobby, mates, down, slips>>
  BY <1>1 DEF SendJoinRequest
<1>3. DOMAIN spent' = {"deeds", "frames", "asks", "slips"} /\ spent'.deeds \in Int
  BY DEF MirrorInv, MirrorsTyped, SendJoinRequest
<1> QED BY <1>2, <1>3, SentKeeps

LEMMA MateActsKeeps == ASSUME MirrorInv, NEW m \in Mates, MateActs(m) PROVE MirrorInv'
<1>1. PICK d \in Delta :
          IF mates[m].role = "client"
          THEN up' = [up EXCEPT ![m] = Append(@, [is |-> "action", delta |-> d])] /\ UNCHANGED mates
          ELSE mates[m].mirror /\ mates' = [mates EXCEPT ![m].world = ApplyWorldDelta(@, d)] /\ UNCHANGED up
  BY DeltasTyped DEF MateActs, MirrorInv
<1>2. UNCHANGED <<host, lobby, down, slips>>
  BY DEF MateActs
<1>3. DOMAIN spent' = {"deeds", "frames", "asks", "slips"} /\ spent'.deeds \in Int
  BY DEF MirrorInv, MirrorsTyped, MateActs
<1>4. CASE mates[m].role = "client"
  <2>1. PICK p \in Up : p = [is |-> "action", delta |-> d]
    BY DEF Up
  <2>2. up' = [up EXCEPT ![m] = Append(@, p)] /\ UNCHANGED mates
    BY <1>1, <1>4, <2>1
  <2> QED BY <1>2, <1>3, <1>4, <2>2, SentKeeps
<1>5. CASE mates[m].role # "client"
  <2>1. PICK w \in World : w = ApplyWorldDelta(mates[m].world, d)
    <3>1. mates[m].world \in World
      BY DEF MirrorInv, MirrorsTyped, Mate
    <3> QED BY <3>1, ApplyDeltaType
  <2>2. PICK c \in Mate : c = [mates[m] EXCEPT !.world = w] /\ c.mirror = mates[m].mirror
                          /\ c.snap = mates[m].snap /\ c.role = mates[m].role
    <3>1. PICK o \in Mate : o = mates[m]
      BY DEF MirrorInv, MirrorsTyped
    <3>2. PICK c : c = [o EXCEPT !.world = w]
      OBVIOUS
    <3>3. c \in Mate /\ c.mirror = o.mirror
                          /\ c.snap = o.snap /\ c.role = o.role
      BY <3>2 DEF Mate
    <3> QED BY <3>1, <3>2, <3>3
  <2>3. mates' = [mates EXCEPT ![m] = c] /\ UNCHANGED up
    BY <1>1, <1>5, <2>1, <2>2
  <2>4. \A x \in Mates : mates'[x] = IF x = m THEN c ELSE mates[x]
    BY <2>3 DEF MirrorInv, MirrorsTyped
  <2>5. MirrorsTyped'
    BY <1>2, <1>3, <2>3 DEF MirrorInv, MirrorsTyped
  <2>6. ASSUME NEW x \in Mates PROVE Sound(x, host, lobby, mates'[x], down[x], up[x], slips[x])
    <3>1. Sound(x, host, lobby, mates[x], down[x], up[x], slips[x])
      BY DEF MirrorInv
    <3>2. CASE x = m
      <4>1. Sound(m, host, lobby, c, down[m], up[m], slips[m])
        BY <1>5, <2>2, <3>1, <3>2 DEF Sound, Role, Caught
      <4> QED BY <2>4, <3>2, <4>1
    <3> QED BY <2>4, <3>1, <3>2
  <2> QED BY <1>2, <2>3, <2>5, <2>6 DEF MirrorInv
<1> QED BY <1>4, <1>5

LEMMA ReceivedTyped ==
  ASSUME NEW c \in Mate, NEW msg \in Msg
  PROVE  LET e == Received(c, msg)
         IN /\ e \in Mate /\ e.mirror = c.mirror /\ e.role = c.role
            /\ e.snap => c.snap \/ (c.mirror /\ msg.is = "snapshot")
<1> DEFINE e == Received(c, msg)
<1>1. CASE ~c.mirror
  BY <1>1 DEF Received
<1>2. CASE c.mirror /\ msg.is = "snapshot"
  <2>1. PICK w \in World, n \in Int : w = msg.world /\ n = msg.tick
    BY <1>2 DEF Msg
  <2>2. e = [c EXCEPT !.world = w, !.clock = n, !.snap = TRUE]
    BY <1>2, <2>1 DEF Received, Installed
  <2> HIDE DEF e
  <2>3. e \in Mate /\ e.mirror = c.mirror /\ e.role = c.role
    BY <2>2 DEF Mate
  <2> QED BY <1>2, <2>3 DEF e
<1>3. CASE c.mirror /\ msg.is # "snapshot"
  <2>1. PICK n \in Int, ds \in Seq(Delta) : n = msg.tick /\ ds = msg.deltas
    BY <1>3 DEF Msg
  <2>2. PICK w \in World : w = ApplyAll(c.world, ds)
    <3>1. c.world \in World
      BY DEF Mate
    <3> QED BY <3>1, ApplyAllType
  <2>3. e = [c EXCEPT !.world = w, !.clock = n]
    BY <1>3, <2>1, <2>2 DEF Received, Followed
  <2> HIDE DEF e
  <2>4. e \in Mate /\ e.mirror = c.mirror /\ e.role = c.role /\ e.snap = c.snap
    BY <2>3 DEF Mate
  <2> QED BY <2>4 DEF e
<1> QED BY <1>1, <1>2, <1>3

(* A packet heard. *)
LEMMA SoundHeard ==
  ASSUME NEW m, NEW h, NEW l, NEW c \in Mate, NEW q \in Seq(Msg), q # <<>>, NEW u, NEW s,
         Sound(m, h, l, c, q, u, s)
  PROVE  Sound(m, h, l, Received(c, Head(q)), Tail(q), u, s)
<1>1. PICK msg \in Msg : msg = Head(q) /\ msg = q[1]
  BY HeadTailProperties
<1>2. PICK e : /\ e = Received(c, Head(q))
               /\ e \in Mate /\ e.mirror = c.mirror /\ e.role = c.role
               /\ e.snap => c.snap \/ (c.mirror /\ msg.is = "snapshot")
  BY <1>1, ReceivedTyped
<1>3. Expecting(Tail(q), e.snap) => Expecting(q, c.snap)
  <2>1. PICK n \in Nat : n = Len(Tail(q)) /\ Len(q) = n + 1
    <3>1. Len(q) \in Nat /\ Len(q) > 0
      BY EmptySeq, LenProperties
    <3>2. PICK k \in Nat : Len(q) = k + 1
      BY <3>1
    <3>3. Len(Tail(q)) = Len(q) - 1
      BY HeadTailProperties
    <3>4. Len(Tail(q)) = k
      BY <3>2, <3>3
    <3> QED BY <3>2, <3>4
  <2>2. \A i \in 1 .. n : Tail(q)[i] = q[i + 1] /\ i + 1 \in 1 .. n + 1
    BY <2>1, HeadTailProperties
  <2> QED BY <1>1, <1>2, <2>1, <2>2 DEF Expecting
<1>4. Role(m, h, l, e, Tail(q), u)
  BY <1>2, <1>3 DEF Sound, Role
<1>5. Caught(h, e, Tail(q), s)
  <2> SUFFICES ASSUME Expecting(Tail(q), e.snap), ~s.missed
               PROVE  Follows(Tail(q), e.snap, e.world, h.world, h.pending, s.extra)
    BY DEF Caught
  <2>1. Follows(q, c.snap, c.world, h.world, h.pending, s.extra) /\ (c.snap => c.mirror)
    BY <1>3 DEF Sound, Caught, Role
  <2> QED BY <1>2, <2>1, FollowsHeard
<1> QED BY <1>2, <1>4, <1>5 DEF Sound

LEMMA MateHearsKeeps == ASSUME MirrorInv, NEW m \in Mates, MateHears(m) PROVE MirrorInv'
<1>1. /\ down[m] # <<>> /\ down' = [down EXCEPT ![m] = Tail(@)]
      /\ mates' = [mates EXCEPT ![m] = Received(@, Head(down[m]))]
      /\ UNCHANGED <<host, lobby, up, slips, spent>>
  BY DEF MateHears
<1>2. mates[m] \in Mate /\ down[m] \in Seq(Msg)
  BY DEF MirrorInv, MirrorsTyped
<1>3. Head(down[m]) \in Msg /\ Tail(down[m]) \in Seq(Msg)
  BY <1>1, <1>2, HeadTailProperties
<1>4. PICK e \in Mate : e = Received(mates[m], Head(down[m]))
  BY <1>2, <1>3, ReceivedTyped
<1>5. \A x \in Mates : /\ mates'[x] = IF x = m THEN e ELSE mates[x]
                       /\ down'[x] = IF x = m THEN Tail(down[m]) ELSE down[x]
  BY <1>1, <1>4 DEF MirrorInv, MirrorsTyped
<1>6. MirrorsTyped'
  BY <1>1, <1>3, <1>4 DEF MirrorInv, MirrorsTyped
<1>7. ASSUME NEW x \in Mates PROVE Sound(x, host, lobby, mates'[x], down'[x], up[x], slips[x])
  <2>1. Sound(x, host, lobby, mates[x], down[x], up[x], slips[x])
    BY DEF MirrorInv
  <2>2. CASE x = m
    <3>1. Sound(m, host, lobby, Received(mates[m], Head(down[m])), Tail(down[m]), up[m], slips[m])
      BY <1>1, <1>2, <2>1, <2>2, SoundHeard
    <3> QED BY <1>4, <1>5, <2>2, <3>1
  <2> QED BY <1>5, <2>1, <2>2
<1> QED BY <1>1, <1>6, <1>7 DEF MirrorInv

LEMMA OutsideTyped == Outside \in Mate /\ ~Outside.snap /\ Outside.role # "client"
  BY DEF Outside, FreshWorld, Mate, World

LEMMA QuitKeeps == ASSUME MirrorInv, NEW m \in Mates, Quit(m) PROVE MirrorInv'
<1>1. /\ lobby' = lobby \ {m}
      /\ mates' = [mates EXCEPT ![m] = Outside]
      /\ down' = [down EXCEPT ![m] = <<>>] /\ up' = [up EXCEPT ![m] = <<>>]
      /\ slips' = [slips EXCEPT ![m] = Even]
      /\ UNCHANGED <<host, spent>>
  BY DEF Quit
<1>2. PICK c \in Mate : c = Outside /\ ~c.snap /\ c.role # "client"
  BY OutsideTyped
<1>3. PICK q \in Seq(Msg) : q = <<>> /\ Len(q) = 0
  BY EmptySeq
<1>4. PICK u \in Seq(Up) : u = <<>>
  BY EmptySeq
<1>5. PICK s \in [extra : Int, missed : BOOLEAN] : s = Even
  <2>1. Even \in [extra : Int, missed : BOOLEAN]
    BY DEF Even
  <2> QED BY <2>1
<1>6. \A x \in Mates : /\ mates'[x] = IF x = m THEN c ELSE mates[x]
                       /\ down'[x] = IF x = m THEN q ELSE down[x]
                       /\ up'[x] = IF x = m THEN u ELSE up[x]
                       /\ slips'[x] = IF x = m THEN s ELSE slips[x]
  BY <1>1, <1>2, <1>3, <1>4, <1>5 DEF MirrorInv, MirrorsTyped
<1>7. MirrorsTyped'
  BY <1>1, <1>2, <1>3, <1>4, <1>5 DEF MirrorInv, MirrorsTyped
<1>8. ASSUME NEW x \in Mates PROVE Sound(x, host, lobby', mates'[x], down'[x], up'[x], slips'[x])
  <2>1. Sound(x, host, lobby, mates[x], down[x], up[x], slips[x])
    BY DEF MirrorInv
  <2>2. CASE x = m
    <3>1. ~Expecting(q, c.snap)
      BY <1>2, <1>3 DEF Expecting
    <3>2. Sound(m, host, lobby', c, q, u, s)
      BY <1>2, <1>4, <3>1 DEF Sound, Role, Caught
    <3> QED BY <1>6, <2>2, <3>2
  <2>3. CASE x # m
    <3>1. Sound(x, host, lobby', mates[x], down[x], up[x], slips[x])
      BY <1>1, <2>1, <2>3 DEF Sound, Role
    <3> QED BY <1>6, <2>3, <3>1
  <2> QED BY <2>2, <2>3
<1> QED BY <1>1, <1>7, <1>8 DEF MirrorInv

----------------------------------------------------------------------------

LEMMA InitSound == MirrorInit => MirrorInv
<1> SUFFICES ASSUME MirrorInit PROVE MirrorInv
  OBVIOUS
<1>1. MirrorsTyped
  BY EmptySeq DEF MirrorInit, MirrorsTyped, FreshWorld, World, Outside, Mate, Even
<1>2. Pended(host)
  <2>1. host.world = FreshWorld /\ host.pending = <<>> /\ FreshWorld \in World
    BY DEF MirrorInit, FreshWorld, World
  <2> QED BY <2>1, ApplyNone DEF Pended
<1>3. ASSUME NEW m \in Mates PROVE Sound(m, host, lobby, mates[m], down[m], up[m], slips[m])
  <2>1. mates[m] = Outside /\ down[m] = <<>> /\ up[m] = <<>> /\ Len(down[m]) = 0
    BY EmptySeq DEF MirrorInit
  <2>2. ~Expecting(down[m], mates[m].snap)
    BY <2>1, OutsideTyped DEF Expecting
  <2> QED BY <2>1, <2>2, OutsideTyped DEF Sound, Role, Caught
<1> QED BY <1>1, <1>2, <1>3 DEF MirrorInv

LEMMA NextSound == MirrorInv /\ [MirrorNext]_mirrorVars => MirrorInv'
<1> SUFFICES ASSUME MirrorInv, [MirrorNext]_mirrorVars PROVE MirrorInv'
  OBVIOUS
<1>1. CASE HostFrame
  BY <1>1, HostFrameKeeps
<1>2. CASE HostActs
  BY <1>2, HostActsKeeps
<1>3. CASE HostHears
  BY <1>3, HostHearsKeeps
<1>4. CASE MateSteps
  <2>1. PICK m \in Mates : \/ Join(m) \/ LobbyReady(m) \/ StartMirror(m) \/ SendJoinRequest(m)
                           \/ MateActs(m) \/ MateHears(m) \/ MateTicks(m) \/ Quit(m)
    BY <1>4 DEF MateSteps
  <2> QED BY <2>1, JoinKeeps, LobbyReadyKeeps, StartMirrorKeeps, SendJoinRequestKeeps,
             MateActsKeeps, MateHearsKeeps, MateTicksKeeps, QuitKeeps
<1>5. CASE UNCHANGED mirrorVars
  BY <1>5 DEF mirrorVars, MirrorInv, MirrorsTyped
<1> QED BY <1>1, <1>2, <1>3, <1>4, <1>5 DEF MirrorNext

LEMMA InvCatchesUp == MirrorInv => MirrorsCatchUp
<1> SUFFICES ASSUME MirrorInv, NEW m \in lobby,
                    mates[m].snap, down[m] = <<>>, host.pending = <<>>, ~slips[m].missed
             PROVE  mates[m].world = [host.world EXCEPT !.standing = @ + slips[m].extra]
  BY DEF MirrorsCatchUp
<1>1. m \in Mates
  BY DEF MirrorInv, MirrorsTyped
<1>2. Expecting(down[m], mates[m].snap)
  BY DEF Expecting
<1>3. Sound(m, host, lobby, mates[m], down[m], up[m], slips[m])
  BY <1>1 DEF MirrorInv
<1>4. Follows(down[m], mates[m].snap, mates[m].world, host.world, host.pending, slips[m].extra)
  BY <1>2, <1>3 DEF Sound, Caught
<1>5. Len(down[m]) = 0 /\ Len(host.pending) = 0 /\ host.pending \in Seq(Delta)
  BY EmptySeq
<1>6. mates[m].world = Ahead(host.world, slips[m].extra)
  BY <1>4, <1>5, FollowsAtTheEnd
<1> QED BY <1>6 DEF Ahead

(* A mirror that has heard all there is to hear is the host's world, but   *)
(* for what was pending when its snapshot was made (replication.rs:94):    *)
(* for any number of mates joining, leaving and joining again, acting and  *)
(* asking for snapshots, with any number of packets refused.               *)
THEOREM MirrorsAlwaysCatchUp == MirrorSpec => []MirrorsCatchUp
<1>1. MirrorSpec => []MirrorInv
  BY InitSound, NextSound, PTL DEF MirrorSpec
<1> QED BY <1>1, InvCatchesUp, PTL

-----------------------------------------------------------------------------
(* Standings between factions.                                             *)

(* What the content and its types provide: ids are positive numbers, scores
   and increments are 16-bit integers, no player is called "factions", and a
   faction's ancestors end (the code would walk a cycle for ever). *)
Ranked(rank, n) ==
  /\ rank \in [Factions -> 0 .. n]
  /\ \A f \in Factions : Defs[f] # 0 => Defs[f] \in Factions /\ rank[Defs[f]] < rank[f]
Content ==
  /\ Factions \subseteq Nat \ {0}
  /\ Declared \in Seq(Int \X Int \X Int)
  /\ DefaultScore \in Int /\ SelfScore \in Int
  /\ I16 \in Nat \ {0}
  /\ Shifts \subseteq -I16 .. I16 - 1
  /\ "factions" \notin Steam
  /\ \E n \in Nat : \E rank : Ranked(rank, n)

----------------------------------------------------------------------------
(* Scores.                                                                 *)

Score == -I16 .. I16 - 1

LEMMA SaturatingType ==
  ASSUME Content, NEW n \in Int
  PROVE  Saturating(n) \in Score
  BY DEF Content, Saturating, Score

LEMMA SaturatingGrows ==
  ASSUME Content, NEW m \in Int, NEW n \in Int, m <= n
  PROVE  Saturating(m) <= Saturating(n)
  BY DEF Content, Saturating

LEMMA ClampGrows ==
  ASSUME NEW m \in Int, NEW n \in Int, m <= n
  PROVE  Clamp(m) <= Clamp(n) /\ Clamp(m) \in Int /\ Clamp(n) \in Int
  BY DEF Clamp, SCORE_MIN, SCORE_MAX

(* A shift moves what is stored by its own sign, or not at all. *)
LEMMA PlusMoves ==
  ASSUME Content, NEW n \in Score, NEW d \in Shifts
  PROVE  /\ Plus(n, d) \in Score
         /\ IF d >= 0 THEN Plus(n, d) >= n ELSE Plus(n, d) <= n
  BY DEF Content, Plus, Saturating, Score, Unmet

LEMMA PlusType ==
  ASSUME Content, NEW n \in Score \cup {Unmet}, NEW d \in Shifts
  PROVE  Plus(n, d) \in Score
<1>1. (IF n = Unmet THEN 0 ELSE n) + d \in Int
  BY DEF Content, Score, Unmet
<1> QED BY <1>1, SaturatingType DEF Plus

LEMMA CanonicalPairIs ==
  ASSUME Content, NEW a \in Factions, NEW b \in Factions
  PROVE  /\ CanonicalPair(a, b) \in Factions \X Factions
         /\ CanonicalPair(a, b) = CanonicalPair(b, a)
         /\ \A c, d \in Factions : CanonicalPair(a, b) = CanonicalPair(c, d) => {a, b} = {c, d}
<1>0. a \in Int /\ b \in Int /\ \A c \in Factions : c \in Int
  BY DEF Content
<1>1. /\ CanonicalPair(a, b) \in Factions \X Factions
      /\ CanonicalPair(a, b) = CanonicalPair(b, a)
  BY <1>0 DEF CanonicalPair
<1>2. ASSUME NEW c \in Factions, NEW d \in Factions, CanonicalPair(a, b) = CanonicalPair(c, d)
      PROVE  {a, b} = {c, d}
  <2>1. /\ CanonicalPair(a, b) = <<a, b>> \/ CanonicalPair(a, b) = <<b, a>>
        /\ CanonicalPair(c, d) = <<c, d>> \/ CanonicalPair(c, d) = <<d, c>>
    BY DEF CanonicalPair
  <2>2. (a = c /\ b = d) \/ (a = d /\ b = c)
    BY <1>2, <2>1
  <2> QED BY <2>2
<1> QED BY <1>1, <1>2

----------------------------------------------------------------------------
(* The line of a faction: the recursion over parents ends.                 *)

(* f is the function Line defines for the factions of a rank below n. *)
RankedBelow(rank, n) == {g \in Factions : rank[g] < n}
Lines(f, rank, n) ==
  f = [g \in RankedBelow(rank, n) |-> IF Defs[g] = 0 THEN <<g>> ELSE <<g>> \o f[Defs[g]]]

LEMMA LinesExist ==
  ASSUME Content, NEW n \in Nat, NEW rank, Ranked(rank, n), NEW k \in Nat
  PROVE  \E f : Lines(f, rank, k)
<1> DEFINE P == {m \in Nat : \E f : Lines(f, rank, m)}
<1>1. 0 \in P
  <2>1. RankedBelow(rank, 0) = {}
    BY DEF RankedBelow, Ranked
  <2>2. Lines([g \in RankedBelow(rank, 0) |-> <<g>>], rank, 0)
    BY <2>1 DEF Lines
  <2> QED BY <2>2
<1>2. ASSUME NEW m \in P PROVE m + 1 \in P
  <2>1. PICK f : Lines(f, rank, m)
    OBVIOUS
  <2> DEFINE e == [g \in RankedBelow(rank, m + 1) |-> IF Defs[g] = 0 THEN <<g>> ELSE <<g>> \o f[Defs[g]]]
  <2>2. ASSUME NEW g \in RankedBelow(rank, m + 1), Defs[g] # 0 PROVE e[Defs[g]] = f[Defs[g]]
    <3>1. Defs[g] \in RankedBelow(rank, m) /\ Defs[g] \in RankedBelow(rank, m + 1)
      <4>1. Defs[g] \in Factions /\ rank[Defs[g]] < rank[g] /\ rank[g] < m + 1
        BY <2>2 DEF Ranked, RankedBelow
      <4>2. rank[Defs[g]] \in Nat /\ rank[g] \in Nat
        BY <2>2, <4>1 DEF Ranked, RankedBelow
      <4> QED BY <4>1, <4>2 DEF RankedBelow
    <3> QED BY <2>1, <3>1 DEF Lines
  <2>3. Lines(e, rank, m + 1)
    BY <2>2 DEF Lines
  <2> QED BY <2>3
<1>3. P = Nat
  <2> HIDE DEF P
  <2> QED BY <1>1, <1>2, SetInduction, P \in SUBSET Nat DEF P
<1> QED BY <1>3

(* So a faction's line is the faction followed by its parent's line. *)
LEMMA LineUnfolds ==
  ASSUME Content
  PROVE  \A f \in Factions : Line[f] = IF Defs[f] = 0 THEN <<f>> ELSE <<f>> \o Line[Defs[f]]
<1>0. PICK n \in Nat : \E rank : Ranked(rank, n)
  BY DEF Content
<1>1. PICK rank : Ranked(rank, n)
  BY <1>0
<1>2. PICK e : Lines(e, rank, n + 1)
  BY <1>1, LinesExist, n + 1 \in Nat
<1>3. RankedBelow(rank, n + 1) = Factions
  BY <1>1 DEF RankedBelow, Ranked
<1>4. \E l : l = [f \in Factions |-> IF Defs[f] = 0 THEN <<f>> ELSE <<f>> \o l[Defs[f]]]
  BY <1>2, <1>3 DEF Lines
<1>5. Line = [f \in Factions |-> IF Defs[f] = 0 THEN <<f>> ELSE <<f>> \o Line[Defs[f]]]
  BY <1>4, Zenon DEF Line
<1> QED BY <1>5

(* A line is a sequence of factions that begins with the faction itself. *)
LEMMA LineType ==
  ASSUME Content, NEW f \in Factions
  PROVE  Line[f] \in Seq(Factions) /\ Len(Line[f]) >= 1 /\ Line[f][1] = f
<1>0. PICK n \in Nat : \E rank : Ranked(rank, n)
  BY DEF Content
<1>1. PICK rank : Ranked(rank, n)
  BY <1>0
<1> DEFINE P == {m \in Nat : \A g \in RankedBelow(rank, m) :
                    Line[g] \in Seq(Factions) /\ Len(Line[g]) >= 1 /\ Line[g][1] = g}
<1>2. 0 \in P
  BY <1>1 DEF RankedBelow, Ranked
<1>3. ASSUME NEW m \in P PROVE m + 1 \in P
  <2>1. ASSUME NEW g \in RankedBelow(rank, m + 1)
        PROVE  Line[g] \in Seq(Factions) /\ Len(Line[g]) >= 1 /\ Line[g][1] = g
    <3>1. g \in Factions /\ <<g>> \in Seq(Factions) /\ Len(<<g>>) = 1 /\ <<g>>[1] = g
      BY DEF RankedBelow
    <3>2. CASE Defs[g] = 0
      <4>1. Line[g] = <<g>>
        BY <3>1, <3>2, LineUnfolds
      <4> QED BY <3>1, <4>1
    <3>3. CASE Defs[g] # 0
      <4>1. Defs[g] \in RankedBelow(rank, m)
        <5>1. Defs[g] \in Factions /\ rank[Defs[g]] < rank[g] /\ rank[g] < m + 1
          BY <1>1, <3>1, <3>3 DEF Ranked, RankedBelow
        <5>2. rank[Defs[g]] \in Nat /\ rank[g] \in Nat
          BY <1>1, <3>1, <5>1 DEF Ranked
        <5> QED BY <5>1, <5>2 DEF RankedBelow
      <4>2. PICK l \in Seq(Factions) : l = Line[Defs[g]] /\ Len(l) >= 1
        BY <4>1
      <4>3. PICK h \in Seq(Factions) : h = <<g>> /\ Len(h) = 1 /\ h[1] = g
        BY <3>1
      <4>4. Line[g] = h \o l
        BY <3>1, <3>3, <4>2, <4>3, LineUnfolds
      <4>5. h \o l \in Seq(Factions) /\ Len(h \o l) = 1 + Len(l) /\ (h \o l)[1] = h[1]
        BY <4>2, <4>3, ConcatProperties
      <4> QED BY <4>2, <4>3, <4>4, <4>5
    <3> QED BY <3>2, <3>3
  <2> QED BY <2>1
<1>4. P = Nat
  <2> HIDE DEF P
  <2> QED BY <1>2, <1>3, SetInduction, P \in SUBSET Nat DEF P
<1>5. n + 1 \in Nat /\ f \in RankedBelow(rank, n + 1)
  BY <1>1 DEF Ranked, RankedBelow
<1>6. n + 1 \in P
  BY <1>4, <1>5
<1> QED BY <1>5, <1>6

----------------------------------------------------------------------------
(* Inherited scores.                                                       *)

LEMMA MinIs ==
  ASSUME NEW s \in SUBSET Nat, s # {}
  PROVE  Min(s) \in s /\ \A y \in s : Min(s) <= y
<1>1. \E x \in s : \A y \in s : x <= y
  BY LeastNumber
<1> QED BY <1>1 DEF Min

(* The least member is the one no other is below. *)
LEMMA MinUnique ==
  ASSUME NEW s \in SUBSET Nat, NEW m \in s, \A y \in s : m <= y
  PROVE  Min(s) = m
<1>1. Min(s) \in s /\ Min(s) <= m /\ m <= Min(s)
  BY MinIs
<1>2. Min(s) \in Nat /\ m \in Nat
  BY <1>1
<1> QED BY <1>1, <1>2

LEMMA MaxIs ==
  ASSUME NEW n \in Nat, NEW s \in SUBSET (1 .. n), s # {}
  PROVE  Max(s) \in s
<1> DEFINE t == {i \in Nat : n - i \in s}
<1>1. t # {} /\ t \in SUBSET Nat
  <2>1. PICK x \in s : TRUE
    OBVIOUS
  <2>2. n - x \in Nat /\ n - (n - x) = x
    BY <2>1
  <2> QED BY <2>1, <2>2
<1>2. PICK m \in t : \A y \in t : m <= y
  <2> HIDE DEF t
  <2> QED BY <1>1, LeastNumber
<1>3. ASSUME NEW x \in s PROVE n - m >= x
  <2>1. n - x \in Nat /\ n - (n - x) = x /\ x \in Nat
    OBVIOUS
  <2>2. n - x \in t
    BY <2>1
  <2>3. m <= n - x /\ m \in Nat
    BY <1>2, <2>2
  <2> QED BY <2>1, <2>3
<1>4. \E x \in s : \A y \in s : x >= y
  BY <1>2, <1>3
<1> QED BY <1>4 DEF Max

(* A score that the content declares for a pair is a number. *)
LEMMA OverrideType ==
  ASSUME Content, NEW p, Overridden(p)
  PROVE  Override(p) \in Int
<1>1. PICK n \in Nat : Len(Declared) = n /\ DOMAIN Declared = 1 .. n
  BY LenProperties DEF Content
<1>2. OverridesOf(p) \in SUBSET (1 .. n) /\ OverridesOf(p) # {}
  BY <1>1 DEF OverridesOf, Overridden
<1>3. Max(OverridesOf(p)) \in 1 .. n
  BY <1>2, MaxIs
<1>4. Declared[Max(OverridesOf(p))] \in Int \X Int \X Int
  BY <1>1, <1>3, ElementOfSeq DEF Content
<1>5. Declared[Max(OverridesOf(p))][3] \in Int
  BY <1>4
<1> QED BY <1>5, ClampGrows DEF Override

(* What is declared for the pair, for an ancestor of a with b, and the score
   of the nearest such ancestor. *)
GivenItself(a, b) == Overridden(CanonicalPair(a, b))
GivenAbove(a, b) == {i \in 2 .. Len(Line[a]) : Overridden(CanonicalPair(Line[a][i], b))}
NearestGiven(a, b) == Override(CanonicalPair(Line[a][Min(GivenAbove(a, b))], b))

(* The pairs in the order base_score_with_inheritance tries them. *)
LEMMA TriedIs ==
  ASSUME Content, NEW a \in Factions, NEW b \in Factions,
         NEW m \in Nat, NEW n \in Nat, Len(Line[a]) = m, Len(Line[b]) = n
  PROVE  /\ m >= 1 /\ n >= 1
         /\ DOMAIN Tried(a, b) = 1 .. m + (n - 1)
         /\ Tried(a, b)[1] = CanonicalPair(a, b)
         /\ \A i \in 1 .. m : Tried(a, b)[i] = CanonicalPair(Line[a][i], b)
         /\ \A j \in 1 .. n - 1 : Tried(a, b)[m + j] = CanonicalPair(Line[b][j + 1], a)
<1>1. /\ Line[a] \in Seq(Factions) /\ m >= 1 /\ Line[a][1] = a
      /\ Line[b] \in Seq(Factions) /\ n >= 1
  BY LineType
<1>2. (\A i \in 1 .. m : Line[a][i] \in Factions) /\ (\A j \in 1 .. n - 1 : Line[b][j + 1] \in Factions)
  <2>1. \A j \in 1 .. n - 1 : j + 1 \in 1 .. n
    BY <1>1
  <2> QED BY <1>1, <2>1, ElementOfSeq
<1>3. PICK u : u = [i \in 1 .. m |-> CanonicalPair(Line[a][i], b)]
  OBVIOUS
<1>4. PICK v : v = [j \in 1 .. n - 1 |-> CanonicalPair(a, Line[b][j + 1])]
  OBVIOUS
<1>5. u \in Seq(Factions \X Factions) /\ Len(u) = m
  BY <1>2, <1>3, CanonicalPairIs
<1>6. v \in Seq(Factions \X Factions) /\ Len(v) = n - 1
  BY <1>1, <1>2, <1>4, CanonicalPairIs
<1>7. Tried(a, b) = u \o v
  <2>1. DOMAIN Line[a] = 1 .. m
    BY <1>1, LenProperties
  <2> QED BY <1>3, <1>4, <2>1 DEF Tried
<1>8. /\ u \o v \in Seq(Factions \X Factions)
      /\ Len(u \o v) = m + (n - 1)
      /\ \A i \in 1 .. m + (n - 1) : (u \o v)[i] = IF i <= m THEN u[i] ELSE v[i - m]
  <2>1. /\ u \o v \in Seq(Factions \X Factions)
        /\ Len(u \o v) = Len(u) + Len(v)
        /\ \A i \in 1 .. Len(u) + Len(v) : (u \o v)[i] = IF i <= Len(u) THEN u[i] ELSE v[i - Len(u)]
    BY <1>5, <1>6, ConcatProperties
  <2> QED BY <1>5, <1>6, <2>1
<1>9. DOMAIN Tried(a, b) = 1 .. m + (n - 1)
  BY <1>7, <1>8, LenProperties
<1>10. ASSUME NEW i \in 1 .. m PROVE Tried(a, b)[i] = CanonicalPair(Line[a][i], b)
  <2>1. i \in 1 .. m + (n - 1) /\ i <= m
    BY <1>1
  <2> QED BY <1>3, <1>7, <1>8, <2>1
<1>11. ASSUME NEW j \in 1 .. n - 1 PROVE Tried(a, b)[m + j] = CanonicalPair(Line[b][j + 1], a)
  <2>1. m + j \in 1 .. m + (n - 1) /\ ~(m + j <= m) /\ (m + j) - m = j
    BY <1>1
  <2>2. Tried(a, b)[m + j] = v[j]
    BY <1>7, <1>8, <2>1
  <2> QED BY <1>2, <1>4, <2>2, CanonicalPairIs
<1> QED BY <1>1, <1>9, <1>10, <1>11

(* What the walk finds. *)
LEMMA BaseScoreIs ==
  ASSUME Content, NEW a \in Factions, NEW b \in Factions
  PROVE  BaseScore[<<a, b>>] =
           IF GivenItself(a, b) THEN Override(CanonicalPair(a, b))
           ELSE IF GivenAbove(a, b) # {} THEN NearestGiven(a, b)
           ELSE IF GivenAbove(b, a) # {} THEN NearestGiven(b, a)
           ELSE DefaultScore
<1>1. PICK m \in Nat, n \in Nat : Len(Line[a]) = m /\ Len(Line[b]) = n
  BY LineType, LenProperties
<1>2. PICK tried : tried = Tried(a, b)
  OBVIOUS
<1>3. /\ m >= 1 /\ n >= 1
      /\ DOMAIN tried = 1 .. m + (n - 1)
      /\ tried[1] = CanonicalPair(a, b)
      /\ \A i \in 1 .. m : tried[i] = CanonicalPair(Line[a][i], b)
      /\ \A j \in 1 .. n - 1 : tried[m + j] = CanonicalPair(Line[b][j + 1], a)
  BY <1>1, <1>2, TriedIs
<1>4. PICK found : found = Found(a, b)
  OBVIOUS
<1>5. found = {i \in 1 .. m + (n - 1) : Overridden(tried[i])}
  BY <1>2, <1>3, <1>4 DEF Found
<1>6. BaseScore[<<a, b>>] = IF found = {} THEN DefaultScore ELSE Override(tried[Min(found)])
  BY <1>2, <1>4 DEF BaseScore
<1>7. found \in SUBSET Nat
  BY <1>5
<1>8. 1 \in found <=> GivenItself(a, b)
  BY <1>3, <1>5 DEF GivenItself
<1>9. /\ GivenAbove(a, b) = {i \in 2 .. m : Overridden(CanonicalPair(Line[a][i], b))}
      /\ GivenAbove(b, a) = {i \in 2 .. n : Overridden(CanonicalPair(Line[b][i], a))}
  BY <1>1 DEF GivenAbove
<1>10. \A i \in found : i = 1 \/ i \in GivenAbove(a, b) \/ (i - m \in 1 .. n - 1 /\ i - m + 1 \in GivenAbove(b, a))
  <2> SUFFICES ASSUME NEW i \in found, i # 1, i \notin GivenAbove(a, b)
               PROVE  i - m \in 1 .. n - 1 /\ i - m + 1 \in GivenAbove(b, a)
    OBVIOUS
  <2>1. i \in 1 .. m + (n - 1) /\ Overridden(tried[i])
    BY <1>5
  <2>2. ~(i <= m)
    <3>1. i <= m => i \in 1 .. m /\ i \in 2 .. m
      BY <2>1
    <3> QED BY <1>3, <1>9, <2>1, <3>1
  <2>3. i - m \in 1 .. n - 1 /\ m + (i - m) = i /\ i - m + 1 \in 2 .. n
    BY <1>3, <2>1, <2>2
  <2>4. tried[i] = CanonicalPair(Line[b][i - m + 1], a)
    BY <1>3, <2>3
  <2> QED BY <1>9, <2>1, <2>3, <2>4
<1>11. ASSUME GivenItself(a, b) PROVE BaseScore[<<a, b>>] = Override(CanonicalPair(a, b))
  <2>1. Min(found) = 1 /\ found # {}
    <3>1. 1 \in found /\ \A y \in found : 1 <= y
      BY <1>5, <1>8, <1>11
    <3> QED BY <1>7, <3>1, MinUnique
  <2> QED BY <1>3, <1>6, <2>1
<1>12. ASSUME ~GivenItself(a, b), GivenAbove(a, b) # {} PROVE BaseScore[<<a, b>>] = NearestGiven(a, b)
  <2>1. PICK k : k = Min(GivenAbove(a, b)) /\ k \in GivenAbove(a, b) /\ \A y \in GivenAbove(a, b) : k <= y
    <3>1. GivenAbove(a, b) \in SUBSET Nat
      BY <1>9
    <3> QED BY <1>12, <3>1, MinIs
  <2>2. k \in 2 .. m /\ k \in 1 .. m /\ k \in 1 .. m + (n - 1)
    BY <1>3, <1>9, <2>1
  <2>3. tried[k] = CanonicalPair(Line[a][k], b)
    BY <1>3, <2>2
  <2>4. k \in found
    BY <1>5, <1>9, <2>1, <2>2, <2>3
  <2>5. ASSUME NEW y \in found PROVE k <= y
    <3>1. y # 1
      BY <1>8, <1>12
    <3>2. CASE y \in GivenAbove(a, b)
      BY <2>1, <3>2
    <3>3. CASE y - m \in 1 .. n - 1
      BY <2>2, <3>3, <1>7
    <3> QED BY <1>10, <3>1, <3>2, <3>3
  <2>6. Min(found) = k /\ found # {}
    BY <1>7, <2>4, <2>5, MinUnique
  <2> QED BY <1>6, <2>1, <2>3, <2>6 DEF NearestGiven
<1>13. ASSUME ~GivenItself(a, b), GivenAbove(a, b) = {}, GivenAbove(b, a) # {} PROVE BaseScore[<<a, b>>] = NearestGiven(b, a)
  <2>1. PICK k : k = Min(GivenAbove(b, a)) /\ k \in GivenAbove(b, a) /\ \A y \in GivenAbove(b, a) : k <= y
    <3>1. GivenAbove(b, a) \in SUBSET Nat
      BY <1>9
    <3> QED BY <1>13, <3>1, MinIs
  <2>2. PICK j \in 1 .. n - 1 : k = j + 1
    <3>1. k - 1 \in 1 .. n - 1 /\ k = (k - 1) + 1
      BY <1>9, <2>1
    <3> QED BY <3>1
  <2>3. tried[m + j] = CanonicalPair(Line[b][k], a) /\ m + j \in 1 .. m + (n - 1)
    BY <1>3, <2>2
  <2>4. m + j \in found
    BY <1>5, <1>9, <2>1, <2>3
  <2>5. ASSUME NEW y \in found PROVE m + j <= y
    <3>1. y # 1 /\ y \in Nat
      BY <1>7, <1>8, <1>13
    <3>2. y - m + 1 \in GivenAbove(b, a)
      BY <1>10, <1>13, <3>1
    <3>3. k <= y - m + 1
      BY <2>1, <3>2
    <3> QED BY <2>2, <3>1, <3>3
  <2>6. Min(found) = m + j /\ found # {}
    BY <1>7, <2>4, <2>5, MinUnique
  <2> QED BY <1>6, <2>1, <2>3, <2>6 DEF NearestGiven
<1>14. ASSUME ~GivenItself(a, b), GivenAbove(a, b) = {}, GivenAbove(b, a) = {} PROVE BaseScore[<<a, b>>] = DefaultScore
  <2>1. found = {}
    BY <1>8, <1>10, <1>14
  <2> QED BY <1>6, <2>1
<1> QED BY <1>11, <1>12, <1>13, <1>14

LEMMA BaseScoreType ==
  ASSUME Content, NEW a \in Factions, NEW b \in Factions
  PROVE  BaseScore[<<a, b>>] \in Int
<1>1. ASSUME NEW c, NEW d, GivenAbove(c, d) # {} PROVE NearestGiven(c, d) \in Int
  <2>1. GivenAbove(c, d) \in SUBSET Nat
    BY DEF GivenAbove
  <2>2. Min(GivenAbove(c, d)) \in GivenAbove(c, d)
    BY <1>1, <2>1, MinIs
  <2>3. Overridden(CanonicalPair(Line[c][Min(GivenAbove(c, d))], d))
    BY <2>2 DEF GivenAbove
  <2> QED BY <2>3, OverrideType DEF NearestGiven
<1>2. GivenItself(a, b) => Override(CanonicalPair(a, b)) \in Int
  BY OverrideType DEF GivenItself
<1>3. DefaultScore \in Int
  BY DEF Content
<1> QED BY <1>1, <1>2, <1>3, BaseScoreIs

(* Content in which no two factions each inherit a score for the other, from
   ancestors of their own, that is not the same.  The shipped content has no
   such pair; base_score_with_inheritance asks a's ancestors first, so for
   one that has, the answer depends on who asks. *)
Unambiguous ==
  \A a, b \in Factions :
    \/ GivenItself(a, b)
    \/ GivenAbove(a, b) = {}
    \/ GivenAbove(b, a) = {}
    \/ NearestGiven(a, b) = NearestGiven(b, a)

F == INSTANCE SequenceLemmas WITH Op <- ApplyDelta

(* Then, and only then, the inherited scores are symmetric. *)
LEMMA BaseScoreSymmetric ==
  ASSUME Content
  PROVE  Unambiguous <=> \A a, b \in Factions : BaseScore[<<a, b>>] = BaseScore[<<b, a>>]
<1>1. ASSUME NEW a \in Factions, NEW b \in Factions
      PROVE  /\ GivenItself(a, b) <=> GivenItself(b, a)
             /\ Override(CanonicalPair(a, b)) = Override(CanonicalPair(b, a))
  <2>1. CanonicalPair(a, b) = CanonicalPair(b, a)
    BY CanonicalPairIs
  <2> QED BY <2>1 DEF GivenItself
<1>2. ASSUME NEW a \in Factions, NEW b \in Factions
      PROVE  BaseScore[<<a, b>>] = BaseScore[<<b, a>>] <=>
               \/ GivenItself(a, b)
               \/ GivenAbove(a, b) = {}
               \/ GivenAbove(b, a) = {}
               \/ NearestGiven(a, b) = NearestGiven(b, a)
  <2>1. BaseScore[<<a, b>>] =
           IF GivenItself(a, b) THEN Override(CanonicalPair(a, b))
           ELSE IF GivenAbove(a, b) # {} THEN NearestGiven(a, b)
           ELSE IF GivenAbove(b, a) # {} THEN NearestGiven(b, a)
           ELSE DefaultScore
    BY BaseScoreIs
  <2>2. BaseScore[<<b, a>>] =
           IF GivenItself(b, a) THEN Override(CanonicalPair(b, a))
           ELSE IF GivenAbove(b, a) # {} THEN NearestGiven(b, a)
           ELSE IF GivenAbove(a, b) # {} THEN NearestGiven(a, b)
           ELSE DefaultScore
    BY BaseScoreIs
  <2> HIDE DEF GivenItself, NearestGiven, GivenAbove
  <2> QED BY <1>1, <2>1, <2>2
<1> QED BY <1>2 DEF Unambiguous

----------------------------------------------------------------------------
(* The tables and what a load makes of them.                               *)

StandingTables == [drift : [Factions \X Factions -> Score],
          rep : [Steam -> [Factions -> Score \cup {Unmet}]]]
Shift == [who : Steam \cup {"factions"}, a : Factions, b : Factions, d : Shifts]

(* Stored standings fit 16 bits, and the journal holds shifts of known
   factions by known players only. *)
TablesTyped ==
  /\ Tables \in StandingTables
  /\ saved \in StandingTables
  /\ shifts \in Seq(Shift)

(* The tables are those of the snapshot with the journal's increments. *)
StandingsFollow == F!Fold(saved, shifts) = Tables

LEMMA ReplayedIsFold == Replayed = F!Fold(saved, shifts)
  BY DEF Replayed, F!Fold, F!FoldLeft, F!MapThenFoldSet, F!Max, FoldLeft, MapThenFoldSet, Max

LEMMA InitStandings == ASSUME Content, FactionInit PROVE TablesTyped /\ StandingsFollow
<1>1. 0 \in Score
  BY DEF Content, Score
<1>2. [drift |-> NoDrift, rep |-> NoRep] \in StandingTables
  BY <1>1 DEF StandingTables, NoDrift, NoRep
<1>3. Tables = saved /\ saved \in StandingTables /\ shifts = <<>>
  BY <1>2 DEF FactionInit, Tables
<1>4. shifts \in Seq(Shift)
  BY <1>3, EmptySeq
<1> QED BY <1>3, <1>4, F!FoldEmpty DEF TablesTyped, StandingsFollow

(* A call that changes the tables as a replay of its record would. *)
LEMMA RecordFollows ==
  ASSUME Content, TablesTyped, StandingsFollow, NEW r \in Shift, Record(r),
         Tables' = ApplyDelta(Tables, r), Tables' \in StandingTables
  PROVE  TablesTyped' /\ StandingsFollow'
<1>1. shifts' = Append(shifts, r) /\ saved' = saved
  BY DEF Record
<1>2. shifts' \in Seq(Shift) /\ F!Fold(saved, Append(shifts, r)) = ApplyDelta(F!Fold(saved, shifts), r)
  BY <1>1, AppendProperties, F!FoldAppend DEF TablesTyped
<1> QED BY <1>1, <1>2 DEF TablesTyped, StandingsFollow

LEMMA ShiftFactionRelationFollows ==
  ASSUME Content, TablesTyped, StandingsFollow, ShiftFactionRelation
  PROVE  TablesTyped' /\ StandingsFollow'
<1>1. PICK a \in Factions \cup {0}, b \in Factions \cup {0}, d \in Shifts :
        IF {a, b} \subseteq Factions
        THEN /\ Record([who |-> "factions", a |-> a, b |-> b, d |-> d])
             /\ drift' = Shifted(a, b, d)
             /\ UNCHANGED rep
        ELSE Refuse
  BY DEF ShiftFactionRelation
<1>2. CASE {a, b} \subseteq Factions
  <2> DEFINE r == [who |-> "factions", a |-> a, b |-> b, d |-> d]
  <2>1. a \in Factions /\ b \in Factions /\ r \in Shift
    BY <1>2 DEF Shift
  <2>2. Record(r) /\ drift' = Shifted(a, b, d) /\ rep' = rep
    BY <1>1, <1>2
  <2>3. CanonicalPair(a, b) \in Factions \X Factions
    BY <2>1, CanonicalPairIs
  <2>4. drift \in [Factions \X Factions -> Score] /\ rep \in [Steam -> [Factions -> Score \cup {Unmet}]]
    BY DEF TablesTyped, Tables, StandingTables
  <2>5. Plus(drift[CanonicalPair(a, b)], d) \in Score
    BY <2>3, <2>4, PlusType
  <2>6. drift' \in [Factions \X Factions -> Score]
    BY <2>2, <2>3, <2>4, <2>5 DEF Shifted
  <2>7. Tables' \in StandingTables
    BY <2>2, <2>4, <2>6 DEF Tables, StandingTables
  <2>8. Tables' = ApplyDelta(Tables, r)
    BY <2>1, <2>2 DEF Tables, ApplyDelta, Shifted
  <2> HIDE DEF r
  <2> QED BY <2>1, <2>2, <2>7, <2>8, RecordFollows
<1>3. CASE ~({a, b} \subseteq Factions)
  BY <1>1, <1>3 DEF Refuse, TablesTyped, StandingsFollow, Tables
<1> QED BY <1>2, <1>3

LEMMA ShiftPlayerRepFollows ==
  ASSUME Content, TablesTyped, StandingsFollow, ShiftPlayerRep
  PROVE  TablesTyped' /\ StandingsFollow'
<1>1. PICK s \in Steam, f \in Factions \cup {0}, d \in Shifts :
        IF f \in Factions
        THEN /\ Record([who |-> s, a |-> f, b |-> f, d |-> d])
             /\ rep' = [rep EXCEPT ![s][f] = Plus(@, d)]
             /\ UNCHANGED drift
        ELSE Refuse
  BY DEF ShiftPlayerRep
<1>2. CASE f \in Factions
  <2> DEFINE r == [who |-> s, a |-> f, b |-> f, d |-> d]
  <2>1. r \in Shift /\ s # "factions"
    BY <1>2 DEF Shift, Content
  <2>2. Record(r) /\ rep' = [rep EXCEPT ![s][f] = Plus(@, d)] /\ drift' = drift
    BY <1>1, <1>2
  <2>4. drift \in [Factions \X Factions -> Score] /\ rep \in [Steam -> [Factions -> Score \cup {Unmet}]]
    BY DEF TablesTyped, Tables, StandingTables
  <2>5. Plus(rep[s][f], d) \in Score
    BY <1>2, <2>4, PlusType
  <2>6. rep' \in [Steam -> [Factions -> Score \cup {Unmet}]]
    BY <1>2, <2>2, <2>4, <2>5
  <2>7. Tables' \in StandingTables
    BY <2>2, <2>4, <2>6 DEF Tables, StandingTables
  <2>8. Tables' = ApplyDelta(Tables, r)
    BY <1>2, <2>1, <2>2 DEF Tables, ApplyDelta
  <2> HIDE DEF r
  <2> QED BY <2>1, <2>2, <2>7, <2>8, RecordFollows
<1>3. CASE f \notin Factions
  BY <1>1, <1>3 DEF Refuse, TablesTyped, StandingsFollow, Tables
<1> QED BY <1>2, <1>3

LEMMA SaveFollows ==
  ASSUME Content, TablesTyped, StandingsFollow, Save
  PROVE  TablesTyped' /\ StandingsFollow'
<1>1. saved' = Tables /\ shifts' = <<>> /\ Tables' = Tables
  BY DEF Save, Tables
<1>2. <<>> \in Seq(Shift) /\ F!Fold(Tables, <<>>) = Tables
  BY EmptySeq, F!FoldEmpty
<1> QED BY <1>1, <1>2 DEF TablesTyped, StandingsFollow

LEMMA NextFollows ==
  ASSUME Content, TablesTyped, StandingsFollow, [FactionNext]_factionVars
  PROVE  TablesTyped' /\ StandingsFollow'
<1>1. CASE UNCHANGED factionVars
  BY <1>1 DEF factionVars, TablesTyped, StandingsFollow, Tables
<1> QED BY <1>1, ShiftFactionRelationFollows, ShiftPlayerRepFollows, SaveFollows DEF FactionNext

(* Standings stay within 16 bits, whatever is shifted (Saturating). *)
THEOREM StandingsTyped == ASSUME Content PROVE FactionSpec => [](TablesTyped /\ StandingsFollow)
<1>1. FactionInit => TablesTyped /\ StandingsFollow
  BY InitStandings
<1>2. TablesTyped /\ StandingsFollow /\ [FactionNext]_factionVars => (TablesTyped /\ StandingsFollow)'
  BY NextFollows
<1> QED BY <1>1, <1>2, PTL DEF FactionSpec

(* With content that is unambiguous, two factions always think the same of
   each other, and a load always finds the standings that were in memory. *)
THEOREM StandingsAlwaysAgree ==
  ASSUME Content, Unambiguous
  PROVE  FactionSpec => []StandingsAgree
<1>1. ASSUME TablesTyped, StandingsFollow PROVE StandingsAgree
  <2>1. ASSUME NEW a \in Factions, NEW b \in Factions
        PROVE  RelationScore(drift, a, b) = RelationScore(drift, b, a)
    <3>1. BaseScore[<<a, b>>] = BaseScore[<<b, a>>]
      BY BaseScoreSymmetric
    <3>2. CanonicalPair(a, b) = CanonicalPair(b, a)
      BY CanonicalPairIs
    <3> QED BY <3>1, <3>2 DEF RelationScore
  <2>2. Replayed = Tables
    BY <1>1, ReplayedIsFold DEF StandingsFollow
  <2> QED BY <2>1, <2>2 DEF StandingsAgree
<1>2. TablesTyped /\ StandingsFollow => StandingsAgree
  BY <1>1
<1> QED BY <1>2, StandingsTyped, PTL

(* With any content, a shift never moves a standing against its sign and
   never moves the standing of a third. *)
THEOREM ShiftsAlwaysKeepTheirSign ==
  ASSUME Content
  PROVE  FactionSpec => ShiftsKeepTheirSign
<1>1. ASSUME TablesTyped, FactionNext PROVE ShiftKeepsItsSign
  <2> DEFINE Drifted(d, old, new) == IF d >= 0 THEN new >= old ELSE new <= old
  <2>0. /\ drift \in [Factions \X Factions -> Score]
        /\ rep \in [Steam -> [Factions -> Score \cup {Unmet}]]
        /\ shifts \in Seq(Shift)
    BY <1>1 DEF TablesTyped, Tables, StandingTables
  <2>1. ASSUME NEW r \in Shift, shifts' = Append(shifts, r),
               \A a, b \in Factions :
                 IF r.who = "factions" /\ {a, b} = {r.a, r.b}
                 THEN Drifted(r.d, RelationScore(drift, a, b), RelationScore(drift', a, b))
                 ELSE RelationScore(drift', a, b) = RelationScore(drift, a, b),
               \A s \in Steam, f \in Factions : rep[s][f] # Unmet =>
                 IF r.who = s /\ r.a = f
                 THEN Drifted(r.d, PlayerScore(drift, rep, s, f), PlayerScore(drift', rep', s, f))
                 ELSE PlayerScore(drift', rep', s, f) = PlayerScore(drift, rep, s, f)
        PROVE  ShiftKeepsItsSign
    <3>1. Last(shifts') = r
      <4>1. /\ Append(shifts, r) \in Seq(Shift) /\ Len(Append(shifts, r)) = Len(shifts) + 1
            /\ Append(shifts, r)[Len(shifts) + 1] = r
        BY <2>0, AppendProperties
      <4> QED BY <2>1, <4>1 DEF Last
    <3> QED BY <2>1, <3>1 DEF ShiftKeepsItsSign
  <2>2. ASSUME ShiftFactionRelation PROVE ShiftKeepsItsSign
    <3>1. PICK a \in Factions \cup {0}, b \in Factions \cup {0}, d \in Shifts :
            IF {a, b} \subseteq Factions
            THEN /\ Record([who |-> "factions", a |-> a, b |-> b, d |-> d])
                 /\ drift' = Shifted(a, b, d)
                 /\ UNCHANGED rep
            ELSE Refuse
      BY <2>2 DEF ShiftFactionRelation
    <3>2. CASE ~({a, b} \subseteq Factions)
      BY <3>1, <3>2 DEF Refuse, ShiftKeepsItsSign
    <3>3. CASE {a, b} \subseteq Factions
      <4> DEFINE r == [who |-> "factions", a |-> a, b |-> b, d |-> d]
                 q == CanonicalPair(a, b)
      <4>1. a \in Factions /\ b \in Factions /\ r \in Shift
        BY <3>3 DEF Shift
      <4>2. shifts' = Append(shifts, r) /\ drift' = [drift EXCEPT ![q] = Plus(@, d)] /\ rep' = rep
        BY <3>1, <3>3 DEF Record, Shifted
      <4>3. q \in Factions \X Factions
        BY <4>1, CanonicalPairIs
      <4>4. drift'[q] = Plus(drift[q], d) /\ \A p \in Factions \X Factions : p # q => drift'[p] = drift[p]
        BY <2>0, <4>2, <4>3
      <4>5. ASSUME NEW x \in Factions, NEW y \in Factions
            PROVE  IF {x, y} = {a, b}
                   THEN Drifted(d, RelationScore(drift, x, y), RelationScore(drift', x, y))
                   ELSE RelationScore(drift', x, y) = RelationScore(drift, x, y)
        <5>1. CASE x = y
          BY <5>1 DEF RelationScore, Content
        <5>2. CASE x # y /\ {x, y} # {a, b}
          <6>0. /\ CanonicalPair(x, y) \in Factions \X Factions
                /\ \A c, e \in Factions : CanonicalPair(x, y) = CanonicalPair(c, e) => {x, y} = {c, e}
            BY CanonicalPairIs
          <6>1. CanonicalPair(x, y) # q /\ CanonicalPair(x, y) \in Factions \X Factions
            BY <4>1, <5>2, <6>0
          <6> QED BY <4>4, <5>2, <6>1 DEF RelationScore
        <5>3. CASE x # y /\ {x, y} = {a, b}
          <6>1. CanonicalPair(x, y) = q
            <7>1. (x = a /\ y = b) \/ (x = b /\ y = a)
              BY <5>3
            <7> QED BY <4>1, <7>1, CanonicalPairIs
          <6>2. PICK m, n, base : m = drift[q] /\ n = Plus(drift[q], d) /\ base = BaseScore[<<x, y>>]
            OBVIOUS
          <6>3. m \in Score /\ n \in Score /\ m \in Int /\ n \in Int /\ base \in Int
                /\ (IF d >= 0 THEN n >= m ELSE n <= m)
            <7>1. m \in Score /\ d \in Shifts /\ n = Plus(m, d)
              BY <2>0, <4>3, <6>2
            <7>2. n \in Score /\ (IF d >= 0 THEN n >= m ELSE n <= m)
              BY <7>1, PlusMoves
            <7>3. base \in Int
              BY <6>2, BaseScoreType
            <7> QED BY <7>1, <7>2, <7>3 DEF Score, Content
          <6>4. /\ RelationScore(drift, x, y) = Clamp(Saturating(base + m))
                /\ RelationScore(drift', x, y) = Clamp(Saturating(base + n))
            BY <4>4, <5>3, <6>1, <6>2 DEF RelationScore
          <6>5. base + m \in Int /\ base + n \in Int
                /\ Saturating(base + m) \in Int /\ Saturating(base + n) \in Int
            BY <6>3, SaturatingType DEF Score, Content
          <6>6. CASE d >= 0
            <7>1. Saturating(base + m) <= Saturating(base + n)
              BY <6>3, <6>5, <6>6, SaturatingGrows
            <7>2. /\ Clamp(Saturating(base + m)) <= Clamp(Saturating(base + n))
                  /\ Clamp(Saturating(base + m)) \in Int /\ Clamp(Saturating(base + n)) \in Int
              BY <6>5, <7>1, ClampGrows
            <7> QED BY <5>3, <6>4, <6>6, <7>2
          <6>7. CASE ~(d >= 0)
            <7>1. Saturating(base + n) <= Saturating(base + m)
              BY <6>3, <6>5, <6>7, SaturatingGrows
            <7>2. /\ Clamp(Saturating(base + n)) <= Clamp(Saturating(base + m))
                  /\ Clamp(Saturating(base + m)) \in Int /\ Clamp(Saturating(base + n)) \in Int
              BY <6>5, <7>1, ClampGrows
            <7> QED BY <5>3, <6>4, <6>7, <7>2
          <6> QED BY <6>6, <6>7
        <5> QED BY <5>1, <5>2, <5>3
      <4>6. ASSUME NEW s \in Steam, NEW f \in Factions, rep[s][f] # Unmet
            PROVE  r.who # s /\ PlayerScore(drift', rep', s, f) = PlayerScore(drift, rep, s, f)
        BY <4>2, <4>6 DEF PlayerScore, Content
      <4>7. r.who = "factions" /\ r.a = a /\ r.b = b /\ r.d = d
        OBVIOUS
      <4> HIDE DEF r, Drifted
      <4>8. \A x, y \in Factions :
              IF r.who = "factions" /\ {x, y} = {r.a, r.b}
              THEN Drifted(r.d, RelationScore(drift, x, y), RelationScore(drift', x, y))
              ELSE RelationScore(drift', x, y) = RelationScore(drift, x, y)
        BY <4>5, <4>7
      <4>9. \A s \in Steam, f \in Factions : rep[s][f] # Unmet =>
              IF r.who = s /\ r.a = f
              THEN Drifted(r.d, PlayerScore(drift, rep, s, f), PlayerScore(drift', rep', s, f))
              ELSE PlayerScore(drift', rep', s, f) = PlayerScore(drift, rep, s, f)
        BY <4>6
      <4> QED BY <2>1, <4>1, <4>2, <4>8, <4>9
    <3> QED BY <3>2, <3>3
  <2>3. ASSUME ShiftPlayerRep PROVE ShiftKeepsItsSign
    <3>1. PICK s \in Steam, f \in Factions \cup {0}, d \in Shifts :
            IF f \in Factions
            THEN /\ Record([who |-> s, a |-> f, b |-> f, d |-> d])
                 /\ rep' = [rep EXCEPT ![s][f] = Plus(@, d)]
                 /\ UNCHANGED drift
            ELSE Refuse
      BY <2>3 DEF ShiftPlayerRep
    <3>2. CASE f \notin Factions
      BY <3>1, <3>2 DEF Refuse, ShiftKeepsItsSign
    <3>3. CASE f \in Factions
      <4> DEFINE r == [who |-> s, a |-> f, b |-> f, d |-> d]
      <4>1. r \in Shift /\ s # "factions"
        BY <3>3 DEF Shift, Content
      <4>2. shifts' = Append(shifts, r) /\ rep' = [rep EXCEPT ![s][f] = Plus(@, d)] /\ drift' = drift
        BY <3>1, <3>3 DEF Record
      <4>3. ASSUME NEW t \in Steam, NEW g \in Factions, rep[t][g] # Unmet
            PROVE  IF s = t /\ f = g
                   THEN Drifted(d, PlayerScore(drift, rep, t, g), PlayerScore(drift', rep', t, g))
                   ELSE PlayerScore(drift', rep', t, g) = PlayerScore(drift, rep, t, g)
        <5>1. CASE ~(s = t /\ f = g)
          <6>1. rep'[t][g] = rep[t][g]
            BY <2>0, <3>3, <4>2, <5>1
          <6> QED BY <4>3, <5>1, <6>1 DEF PlayerScore
        <5>2. CASE s = t /\ f = g
          <6>1. PICK m, n : m = rep[s][f] /\ n = Plus(rep[s][f], d)
            OBVIOUS
          <6>2. m \in Score /\ n \in Score /\ m \in Int /\ n \in Int
                /\ (IF d >= 0 THEN n >= m ELSE n <= m)
            BY <2>0, <3>3, <4>3, <5>2, <6>1, PlusMoves DEF Score, Content
          <6>3. rep'[t][g] = n /\ n # Unmet
            BY <2>0, <3>3, <4>2, <5>2, <6>1, <6>2 DEF Score, Unmet, Content
          <6>4. PlayerScore(drift, rep, t, g) = Clamp(m) /\ PlayerScore(drift', rep', t, g) = Clamp(n)
            BY <4>3, <5>2, <6>1, <6>3 DEF PlayerScore
          <6>5. CASE d >= 0
            BY <5>2, <6>2, <6>4, <6>5, ClampGrows
          <6>6. CASE ~(d >= 0)
            BY <5>2, <6>2, <6>4, <6>6, ClampGrows
          <6> QED BY <6>5, <6>6
        <5> QED BY <5>1, <5>2
      <4>4. \A x, y \in Factions : RelationScore(drift', x, y) = RelationScore(drift, x, y)
        BY <4>2
      <4>5. r.who = s /\ r.a = f /\ r.d = d
        OBVIOUS
      <4> HIDE DEF r, Drifted
      <4> QED BY <2>1, <4>1, <4>2, <4>3, <4>4, <4>5
    <3> QED BY <3>2, <3>3
  <2>4. ASSUME Save PROVE ShiftKeepsItsSign
    BY <2>4 DEF Save, ShiftKeepsItsSign
  <2> QED BY <1>1, <2>2, <2>3, <2>4 DEF FactionNext
<1>2. TablesTyped /\ [FactionNext]_factionVars => [ShiftKeepsItsSign]_factionVars
  BY <1>1
<1> QED BY <1>2, StandingsTyped, PTL DEF FactionSpec, ShiftsKeepTheirSign

=============================================================================
