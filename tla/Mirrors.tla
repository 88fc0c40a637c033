-------------------------------- MODULE Mirrors --------------------------------
(***************************************************************************)
(* A hosted session: the authoritative world of the host (direct mode), a  *)
(* Steam lobby, and the mirrors of those who joined it.  The scripts that  *)
(* connect the signals of NetworkManager and SimHost are not part of the   *)
(* repository; they do what the signals' comments say, in any order.       *)
(*                                                                         *)
(* Of the world two things are kept, one for each way a delta changes it:  *)
(* a place it sets (MovePlayer, SetHealth, NpcPositionBatch, ...) and a    *)
(* standing it adds to (FactionRelationShift, PlayerRepShift).             *)
(***************************************************************************)
EXTENDS Integers, Sequences, FiniteSets, SequencesExt

CONSTANTS
    Mates,       \* those who may join
    MaxDeeds,    \* bound: deltas
    MaxFrames,   \* bound: frames of the host that tick
    MaxAsks,     \* bound: requests for a snapshot
    MaxSlips     \* bound: messages that send_p2p_packet refuses

VARIABLES
    host,        \* the host's Sim and session: [tick, world, pending, peers]
    lobby,       \* members besides the host, Steam's knowledge
    mates,       \* sessions and sims of the others: [role, mirror, clock, snap, world]
    down, up,    \* reliable packets in flight, to and from each of them
    slips,       \* history: m |-> [extra, missed], what its last snapshot lacks or has twice
    spent        \* [deeds, frames, asks, slips]

mirrorVars == <<host, lobby, mates, down, up, slips, spent>>

FreshWorld == [place |-> 0, standing |-> 0]
Outside == [role |-> "solo", mirror |-> FALSE, clock |-> 0, snap |-> FALSE, world |-> FreshWorld]
Even == [extra |-> 0, missed |-> FALSE]

(* apply_delta *)
ApplyWorldDelta(world, d) ==
    IF d.k = "place" THEN [world EXCEPT !.place = d.v] ELSE [world EXCEPT !.standing = @ + d.v]
ApplyAll(world, deltas) == FoldLeft(ApplyWorldDelta, world, deltas)
Added(deltas) == ApplyAll(FreshWorld, deltas).standing
Deltas == {[k |-> "place", v |-> spent.deeds + 1], [k |-> "standing", v |-> 1]}

MirrorInit ==
    /\ host = [tick |-> 0, world |-> FreshWorld, pending |-> <<>>, peers |-> {}]
    /\ lobby = {}
    /\ mates = [m \in Mates |-> Outside]
    /\ down = [m \in Mates |-> <<>>] /\ up = [m \in Mates |-> <<>>]
    /\ slips = [m \in Mates |-> Even]
    /\ spent = [deeds |-> 0, frames |-> 0, asks |-> 0, slips |-> 0]

-----------------------------------------------------------------------------
(* The host                                                                *)

(* record_delta, for changes already made to the world *)
Recorded(h, deltas) == [h EXCEPT !.world = ApplyAll(@, deltas), !.pending = @ \o deltas]

(* process: one to four ticks, the systems of which record deltas.  A tick *)
(* that fails ends the frame, and what is pending waits for the next.      *)
Ticked(h, deltas) == [Recorded(h, deltas) EXCEPT !.tick = @ + 1]
Drained(h) == [h EXCEPT !.pending = <<>>]

(* broadcast: whether a packet was accepted is not looked at. *)
Broadcast(msg, refused) ==
    /\ down' = [m \in Mates |-> IF m \in (host.peers \cap lobby) \ refused THEN Append(down[m], msg) ELSE down[m]]
    /\ slips' = [m \in Mates |-> IF m \in refused THEN [slips[m] EXCEPT !.missed = TRUE] ELSE slips[m]]

HostFrame ==
    /\ spent.frames < MaxFrames
    /\ \E work \in {<<>>} \cup {<<d>> : d \in Deltas}, refused \in SUBSET (host.peers \cap lobby), fails \in BOOLEAN :
          LET ticked == Ticked(host, work)
          IN /\ spent.deeds + Len(work) <= MaxDeeds /\ spent.slips + Cardinality(refused) <= MaxSlips
             /\ IF fails \/ ticked.pending = <<>>
                THEN refused = {} /\ host' = ticked /\ UNCHANGED <<down, slips>>
                ELSE /\ host' = Drained(ticked)
                     /\ Broadcast([is |-> "delta", tick |-> ticked.tick, deltas |-> ticked.pending], refused)
             /\ spent' = [spent EXCEPT !.frames = @ + 1, !.deeds = @ + Len(work), !.slips = @ + Cardinality(refused)]
    /\ UNCHANGED <<lobby, mates, up>>

(* dispatch_player_action, and what else calls into the Sim between frames *)
HostActs ==
    /\ spent.deeds < MaxDeeds
    /\ \E d \in Deltas : host' = Recorded(host, <<d>>)
    /\ spent' = [spent EXCEPT !.deeds = @ + 1]
    /\ UNCHANGED <<lobby, mates, down, up, slips>>

RefreshPeers(h) == [h EXCEPT !.peers = lobby]

(* serialize_snapshot_payload and send_snapshot: what is pending is part   *)
(* of the snapshot, and stays pending.                                     *)
Answer(m, refused) ==
    /\ host' = RefreshPeers(host)
    /\ down' = [down EXCEPT ![m] = IF refused THEN @ ELSE Append(@, [is |-> "snapshot", tick |-> host.tick, world |-> host.world])]
    /\ slips' = IF refused THEN slips ELSE [slips EXCEPT ![m] = [extra |-> Added(host.pending), missed |-> FALSE]]
    /\ spent' = [spent EXCEPT !.slips = @ + (IF refused THEN 1 ELSE 0)]

(* NetSession::tick: a packet, if there is one, then the lobby's members.  *)
HostHears ==
    \/ /\ host' = RefreshPeers(host) /\ host' # host
       /\ UNCHANGED <<lobby, mates, down, up, slips, spent>>
    \/ \E m \in lobby :
          /\ up[m] # <<>> /\ up' = [up EXCEPT ![m] = Tail(@)]
          /\ \/ /\ Head(up[m]).is = "join"
                /\ \E refused \in BOOLEAN :
                      (refused => spent.slips < MaxSlips) /\ Answer(m, refused)
             \/ /\ Head(up[m]).is = "action"
                /\ host' = Recorded(RefreshPeers(host), <<Head(up[m]).delta>>)
                /\ UNCHANGED <<down, slips, spent>>
          /\ UNCHANGED <<lobby, mates>>

-----------------------------------------------------------------------------
(* Those who join                                                          *)

Join(m) ==
    /\ m \notin lobby /\ lobby' = lobby \cup {m}
    /\ UNCHANGED <<host, mates, down, up, slips, spent>>
(* set_active_lobby: the owner of the lobby is another *)
LobbyReady(m) ==
    /\ m \in lobby /\ mates[m].role = "solo"
    /\ mates' = [mates EXCEPT ![m].role = "client"]
    /\ UNCHANGED <<host, lobby, down, up, slips, spent>>
StartMirror(m) ==
    /\ m \in lobby /\ ~mates[m].mirror
    /\ mates' = [mates EXCEPT ![m].mirror = TRUE]
    /\ UNCHANGED <<host, lobby, down, up, slips, spent>>
SendJoinRequest(m) ==
    /\ mates[m].role = "client" /\ spent.asks < MaxAsks
    /\ up' = [up EXCEPT ![m] = Append(@, [is |-> "join"])]
    /\ spent' = [spent EXCEPT !.asks = @ + 1]
    /\ UNCHANGED <<host, lobby, mates, down, slips>>

(* dispatch_player_action: a client's is sent, anyone else's is done here. *)
MateActs(m) ==
    /\ m \in lobby /\ spent.deeds < MaxDeeds
    /\ \E d \in Deltas :
          IF mates[m].role = "client"
          THEN up' = [up EXCEPT ![m] = Append(@, [is |-> "action", delta |-> d])] /\ UNCHANGED mates
          ELSE mates[m].mirror /\ mates' = [mates EXCEPT ![m].world = ApplyWorldDelta(@, d)] /\ UNCHANGED up
    /\ spent' = [spent EXCEPT !.deeds = @ + 1]
    /\ UNCHANGED <<host, lobby, down, slips>>

(* apply_external_snapshot: another world, with the host's clock *)
Installed(w, msg) == [w EXCEPT !.world = msg.world, !.clock = msg.tick, !.snap = TRUE]
(* Fault model: a batch that is older than the mirror's clock is skipped. *)
FollowedInTime(w, msg) ==
    IF msg.tick < w.clock THEN w ELSE [w EXCEPT !.world = ApplyAll(@, msg.deltas), !.clock = msg.tick]

(* apply_network_delta_batch: each delta in its order, then the clock *)
Followed(w, msg) == [w EXCEPT !.world = ApplyAll(@, msg.deltas), !.clock = msg.tick]

(* What is received before there is a Sim is refused. *)
Received(w, msg) ==
    IF ~w.mirror THEN w ELSE IF msg.is = "snapshot" THEN Installed(w, msg) ELSE Followed(w, msg)
MateHears(m) ==
    /\ down[m] # <<>> /\ down' = [down EXCEPT ![m] = Tail(@)]
    /\ mates' = [mates EXCEPT ![m] = Received(@, Head(down[m]))]
    /\ UNCHANGED <<host, lobby, up, slips, spent>>

(* A mirror's own tick, between the host's: its clock runs on, no further  *)
(* than MaxFrames here, and its deltas go nowhere.  What the player        *)
(* schedule computes in it for itself is left out.                         *)
MateTicks(m) ==
    /\ mates[m].mirror /\ mates[m].clock < MaxFrames
    /\ mates' = [mates EXCEPT ![m].clock = @ + 1]
    /\ UNCHANGED <<host, lobby, down, up, slips, spent>>

(* The program of a mate ends, and with it what was under way.             *)
Quit(m) ==
    /\ m \in lobby /\ lobby' = lobby \ {m}
    /\ mates' = [mates EXCEPT ![m] = Outside]
    /\ down' = [down EXCEPT ![m] = <<>>] /\ up' = [up EXCEPT ![m] = <<>>]
    /\ slips' = [slips EXCEPT ![m] = Even]
    /\ UNCHANGED <<host, spent>>

MateSteps ==
    \E m \in Mates :
        \/ Join(m) \/ LobbyReady(m) \/ StartMirror(m) \/ SendJoinRequest(m)
        \/ MateActs(m) \/ MateHears(m) \/ MateTicks(m) \/ Quit(m)

MirrorNext == HostFrame \/ HostActs \/ HostHears \/ MateSteps
MirrorSpec == MirrorInit /\ [][MirrorNext]_mirrorVars

-----------------------------------------------------------------------------
(* A mirror with a snapshot that has heard all there is to hear agrees     *)
(* with the host, whatever happened while it joined and however its own    *)
(* clock ran: what deltas set is the same, and what they add to differs by *)
(* exactly what was pending when its snapshot was made, which it gets a    *)
(* second time.  A packet Steam refused excuses it until the next snapshot.*)
MirrorsCatchUp ==
    \A m \in lobby :
        mates[m].snap /\ down[m] = <<>> /\ host.pending = <<>> /\ ~slips[m].missed
            => mates[m].world = [host.world EXCEPT !.standing = @ + slips[m].extra]
=============================================================================
