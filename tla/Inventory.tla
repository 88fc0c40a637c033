------------------------------ MODULE Inventory ------------------------------
(***************************************************************************)
(* The inventory API of Sim (world/inventory.rs, world/containers.rs) and  *)
(* the two systems that change belongings during a tick.  "live" is the    *)
(* running world; "replica" is the last snapshot with every journal record *)
(* written since then applied to it: what a load, or a mirror, has.        *)
(*                                                                         *)
(* A refused call is an action only where it changes something.            *)
(***************************************************************************)
EXTENDS Items

CONSTANTS
    StartLoads,   \* the pockets a run may start from, as lists of [id, count]
    PocketW, PocketH, GroundW, GroundH,
    MaxGrant,     \* units of one grant
    MaxOps        \* bound: calls and ticks of a behaviour

StackList == Seq([id : ItemIds, count : Nat])

(* Content: stacks are of known ids, a container stacks to one (the store  *)
(* of what is in it belongs to a unit, not to a stack).                    *)
ASSUME InventoryAssumption ==
    /\ PocketW \in Nat /\ PocketH \in Nat /\ GroundW \in Nat /\ GroundH \in Nat
    /\ StartLoads \subseteq StackList
    /\ \A r \in DOMAIN Recipe :
          Recipe[r].inputs \in StackList /\ Recipe[r].outputs \in StackList /\ Recipe[r].time \in Nat
    /\ \A id \in ItemIds :
          /\ Def[id].salvage \subseteq StackList
          /\ Def[id].inner # <<>> =>
                Def[id].inner[1] \in Nat /\ Def[id].inner[2] \in Nat /\ Def[id].stack = 1

VARIABLES
    live, replica,
    gaps,         \* what has happened since the snapshot that replay does not reproduce
    ops

vars == <<live, replica, gaps, ops>>

(* Effects the journal misses or misstates, and effects that change how    *)
(* much there is.                                                          *)
REPLAY_GAPS == {"hotbar", "reorder", "unremoved", "age", "payload", "partial", "craft", "perish"}
COUNT_GAPS  == {"partial", "payload", "spill"}

Do(w, log, odd) ==
    /\ ops < MaxOps
    /\ ops' = ops + 1
    /\ live' = w
    /\ replica' = ApplyAll(replica, log)
    /\ gaps' = gaps \cup odd

If(tag, cond) == IF cond THEN {tag} ELSE {}

Start(load) == MergeAll(World(EmptyGrid(PocketW, PocketH)), load, 0)

Init ==
    /\ live \in {Start(load) : load \in StartLoads}
    /\ replica = live
    /\ gaps = {}
    /\ ops = 0

-----------------------------------------------------------------------------
(* Pockets.                                                                *)

GrantItem(id, n) ==
    Do(Merge(live, id, n, live.clock),
       <<[kind |-> "ItemPickedUp", id |-> id, count |-> n, tick |-> live.clock]>>, {})

MoveBetweenSlots(i, j) ==
    /\ InRange(live.pockets, i) /\ InRange(live.pockets, j)
    /\ Do([live EXCEPT !.pockets = SwapItems(@, i, j)],
          <<[kind |-> "ItemMoved", from |-> i, to |-> j]>>, {})

(* The routed effect (eat, drink, ...) has succeeded. *)
ConsumeFromSlot(i) ==
    /\ InRange(live.pockets, i)
    /\ Def[live.pockets.items[i].stack.id].consumable
    /\ Do([live EXCEPT !.pockets = TakeOne(@, i)], <<[kind |-> "ItemConsumed", idx |-> i]>>, {})

Salvage(i) ==
    /\ InRange(live.pockets, i)
    /\ \E outputs \in Def[live.pockets.items[i].stack.id].salvage :
          Do(MergeAll([live EXCEPT !.pockets = TakeOne(@, i)], outputs, live.clock),
             <<[kind |-> "ItemsSalvaged", idx |-> i, outputs |-> outputs, tick |-> live.clock]>>, {})

(* take_placed_item, and put_placed_back: to the end of the list.          *)
Taken(src, i) == WithGrid(live, src, RemoveItem(GridOf(live, src), i))
(* Fault model: an early return forgets the item taken out. *)
PutBackForgotten(w, src, p) == w

PutBack(w, src, p) == WithGrid(w, src, [GridOf(w, src) EXCEPT !.items = Append(@, p)])
Reordered(src, i) == If("reorder", i # Len(GridOf(live, src).items))
Loaded(p) == p.inner # <<>> /\ p.inner[1].items # <<>>

HasItem(src, i) == HasGrid(live, src) /\ InRange(GridOf(live, src), i)

MoveBetweenGrids(src, i, dst) ==
    /\ src # dst
    /\ HasItem(src, i)
    /\ LET p == GridOf(live, src).items[i]
           w == Taken(src, i)
       IN  IF HasGrid(w, dst) /\ HasRoom(GridOf(w, dst), p.stack.id)
           THEN Do(PlaceIn(w, dst, p),
                   <<[kind |-> "ItemMovedBetweenGrids", from |-> src, idx |-> i, to |-> dst, item |-> p]>>, {})
           ELSE Do(PutBack(w, src, p), <<>>, Reordered(src, i))

-----------------------------------------------------------------------------
(* Paper doll.                                                             *)

Equip(slot, src, i) ==
    /\ live.worn[slot] = <<>>
    /\ HasItem(src, i)
    /\ LET p == GridOf(live, src).items[i]
           w == Taken(src, i)
       IN  IF slot \in Def[p.stack.id].slots
           THEN Do([w EXCEPT !.worn[slot] = <<[stack |-> p.stack, inner |-> p.inner]>>],
                   <<[kind |-> "ItemEquipped", slot |-> slot, item |-> p, from |-> src, idx |-> i]>>, {})
           ELSE Do(PutBack(w, src, p), <<>>, Reordered(src, i))

Unequip(slot, dst) ==
    /\ live.worn[slot] # <<>>
    /\ LET e == live.worn[slot][1]
           w == [live EXCEPT !.worn[slot] = <<>>]
       IN  /\ HasGrid(w, dst) /\ HasRoom(GridOf(w, dst), e.stack.id)
           /\ Do(PlaceIn(w, dst, e), <<[kind |-> "ItemUnequipped", slot |-> slot, item |-> e, to |-> dst]>>, {})

(* No journal record is written for the unit used up. *)
ConsumeFromHotbar(slot) ==
    /\ live.worn[slot] # <<>>
    /\ Def[live.worn[slot][1].stack.id].consumable
    /\ LET left == live.worn[slot][1].stack.count - 1
       IN  Do([live EXCEPT !.worn[slot] = IF left = 0 THEN <<>>
                                          ELSE <<[@[1] EXCEPT !.stack.count = left]>>],
              <<>>, {"hotbar"})

-----------------------------------------------------------------------------
(* World containers.                                                       *)

SpawnLog(b, g, public) == [kind |-> "WorldContainerSpawned", box |-> b, grid |-> g, public |-> public]
AddLog(b, p) == [kind |-> "WorldContainerItemAdded", box |-> b, item |-> p]

(* Spawning does the same to the live world as its record to a replica. *)
WithNewBox(w, g, public) == ApplyBoxSpawned(w, SpawnLog(w.nextBox + 1, g, public))

SpawnWorldContainer(public) ==
    LET g == EmptyGrid(GroundW, GroundH)
    IN  Do(WithNewBox(live, g, public), <<SpawnLog(live.nextBox + 1, g, public)>>, {})

DespawnWorldContainer(b) ==
    LET d == [kind |-> "WorldContainerDespawned", box |-> b]
    IN  b \in Boxes(live) /\ Do(ApplyBoxDespawned(live, d), <<d>>, {})

TakeFromContainer(b, i) ==
    /\ b \in Boxes(live)
    /\ InRange(live.boxes[b].grid, i)
    /\ LET p == live.boxes[b].grid.items[i]
           r == GrantOrMerge(live.pockets, p.stack.id, p.stack.count,
                             IF p.stack.tick < live.clock THEN live.clock ELSE p.stack.tick)
           w == [live EXCEPT !.pockets = r.grid]
       IN  IF r.left > 0  \* the stack stays in the container, what fitted stays in the pockets
           THEN Do(w, <<>>, If("partial", w # live))
           ELSE Do(WithBox(w, b, RemoveItem(live.boxes[b].grid, i)),
                   <<[kind |-> "WorldContainerItemRemoved", box |-> b, idx |-> i],
                     [kind |-> "ItemPickedUp", id |-> p.stack.id, count |-> p.stack.count,
                      tick |-> p.stack.tick]>>,
                   If("age", p.stack.tick < live.clock) \cup If("payload", Loaded(p)))

(* Only the arrival is journaled: a replay leaves the item in its source too. *)
PutInContainer(b, src, i) ==
    /\ b \in Boxes(live)
    /\ HasItem(src, i)
    /\ LET p == GridOf(live, src).items[i]
           r == Into(live.boxes[b].grid, p)
           w == WithBox(Taken(src, i), b, r.grid)
       IN  IF r.left > 0
           THEN Do(PutBack(w, src, p), <<>>,
                   Reordered(src, i) \cup If("partial", r.grid # live.boxes[b].grid))
           ELSE Do(w, <<AddLog(b, p)>>, {"unremoved"} \cup If("payload", Loaded(p)))

(* The closest personal container, the player not moving: any of them. *)
DropItemToGround(i) ==
    /\ InRange(live.pockets, i)
    /\ LET p       == live.pockets.items[i]
           w       == [live EXCEPT !.pockets = RemoveItem(@, i)]
           dropped == [kind |-> "ItemDropped", idx |-> i]
           piles   == {b \in Boxes(live) : ~live.boxes[b].public}
           Fill(v, b, log) ==
               LET r == Into(v.boxes[b].grid, p)
               IN  Do(WithBox(v, b, r.grid), log \o <<AddLog(b, p)>>,
                      If("payload", Loaded(p)) \cup If("spill", r.left > 0))
           ground  == EmptyGrid(GroundW, GroundH)
       IN  \/ \E b \in piles : Fill(w, b, <<dropped>>)
           \/ /\ piles = {}
              /\ Fill(WithNewBox(w, ground, FALSE), w.nextBox + 1,
                      <<dropped, SpawnLog(w.nextBox + 1, ground, FALSE)>>)

-----------------------------------------------------------------------------
(* Crafting.                                                               *)

Enough(w, stacks) == \A i \in DOMAIN stacks : CountOf(w.pockets, stacks[i].id) >= stacks[i].count

Craft(r) ==
    /\ Enough(live, Recipe[r].inputs)
    /\ Do(MergeAll(SpendAll(live, Recipe[r].inputs), Recipe[r].outputs, live.clock),
          <<[kind |-> "ItemsCrafted", recipe |-> r, tick |-> live.clock]>>, {})

QueueCraft(r, n) ==
    LET inputs == Times(Recipe[r].inputs, n)
        d      == [kind |-> "CraftJobQueued", job |-> live.nextJob + 1, recipe |-> r,
                   units |-> n, inputs |-> inputs]
    IN  /\ Enough(live, inputs)
        /\ Do([SpendAll(live, inputs) EXCEPT !.nextJob = d.job, !.queue = Append(@, NewJob(d))],
              <<d>>, {})

(* The unit being made, if it has begun, is forfeit. *)
RefundUnits(j) ==
    IF j.ticks > 0 /\ j.ticks < Recipe[j.recipe].time THEN j.units - 1 ELSE j.units

CancelCraft(k) ==
    /\ k \in DOMAIN live.queue
    /\ LET j      == live.queue[k]
           inputs == Times(Recipe[j.recipe].inputs, RefundUnits(j))
           refund == Without(inputs, {i \in DOMAIN inputs : inputs[i].count = 0})
       IN  Do(MergeAll([live EXCEPT !.queue = Without(@, {k})], refund, live.clock),
              <<[kind |-> "CraftJobCancelled", job |-> j.id, refund |-> refund]>>, {})

(* tick_crafting_queue: only the first job advances. *)
CraftTick(w) ==
    IF w.queue = <<>> THEN w
    ELSE LET j     == w.queue[1]
             ticks == IF j.ticks > 0 THEN j.ticks - 1 ELSE 0
             done  == ticks = 0
             next  == [j EXCEPT !.ticks = IF done THEN Recipe[j.recipe].time ELSE ticks,
                                !.units = IF done THEN @ - 1 ELSE @]
             v     == IF done THEN MergeAll(w, Recipe[j.recipe].outputs, w.clock) ELSE w
         IN  [v EXCEPT !.queue = IF next.units = 0 THEN Tail(@) ELSE [@ EXCEPT ![1] = next]]

(* tick_perishables. *)
Spoilt(stack, now) ==
    Def[stack.id].perish # NoPerish /\ stack.tick + Def[stack.id].perish <= now
PerishTick(w) ==
    [w EXCEPT !.pockets.items =
        Without(@, {i \in DOMAIN @ : Spoilt(@[i].stack, w.clock)})]

(* Neither system is journaled: the record carries the new tick only. *)
Tick ==
    LET now  == live.clock + 1
        aged == PerishTick([live EXCEPT !.clock = now])
    IN  Do(CraftTick(aged), <<[kind |-> "Tick", tick |-> now]>>,
           If("perish", aged.pockets # live.pockets) \cup If("craft", live.queue # <<>>))

-----------------------------------------------------------------------------
(* A snapshot, and a load of the snapshot and its journal. *)

RollSnapshot ==
    /\ replica # live
    /\ replica' = live
    /\ gaps' = {}
    /\ UNCHANGED <<live, ops>>

Load ==
    /\ live # replica
    /\ live' = replica
    /\ gaps' = {}
    /\ UNCHANGED <<replica, ops>>

Indexes == 1 .. PocketW * PocketH

Moving ==
    \/ \E i, j \in Indexes : i < j /\ MoveBetweenSlots(i, j)
    \/ \E s \in Sources, i \in Indexes, t \in Sources : MoveBetweenGrids(s, i, t)
    \/ \E s \in Slots, t \in Sources, i \in Indexes : Equip(s, t, i)
    \/ \E s \in Slots, t \in Sources : Unequip(s, t)
    \/ \E i \in Indexes : DropItemToGround(i)
    \/ \E b \in Boxes(live), i \in Indexes : TakeFromContainer(b, i)
    \/ \E b \in Boxes(live), s \in Sources, i \in Indexes : PutInContainer(b, s, i)

Crafting ==
    \/ \E r \in DOMAIN Recipe : Craft(r)
    \/ \E r \in DOMAIN Recipe, n \in 1 .. 2 : QueueCraft(r, n)
    \/ \E k \in DOMAIN live.queue : CancelCraft(k)
    \/ Tick

Next ==
    \/ Moving
    \/ Crafting
    \/ \E id \in ItemIds, n \in 1 .. MaxGrant : GrantItem(id, n)
    \/ \E i \in Indexes : ConsumeFromSlot(i)
    \/ \E i \in Indexes : Salvage(i)
    \/ \E s \in Slots : ConsumeFromHotbar(s)
    \/ \E public \in BOOLEAN : SpawnWorldContainer(public)
    \/ \E b \in Boxes(live) : DespawnWorldContainer(b)
    \/ RollSnapshot
    \/ Load

Spec == Init /\ [][Next]_vars

-----------------------------------------------------------------------------
(* Properties.                                                             *)

Grids(w) ==
    {w.pockets}
    \cup {w.worn[s][1].inner[1] : s \in {t \in Slots : w.worn[t] # <<>> /\ w.worn[t][1].inner # <<>>}}
    \cup {w.boxes[b].grid : b \in Boxes(w)}

(* Whatever is moved, refused, put back, poured or replayed, no two items  *)
(* of the live world or of a replica share a cell, none sticks out of its  *)
(* grid, and no stack is empty or above its limit.  A refused call pushes  *)
(* its item back without a check, and a replay places items by first fit   *)
(* in grids that may have drifted from the live ones.                      *)
EverythingWellPlaced ==
    \A g \in Grids(live) \cup Grids(replica) : WellPlaced(g)

(* delta.rs: the deltas on top of a snapshot reconstruct the state.  So    *)
(* they do, cell for cell and index for index, as long as none of the      *)
(* effects named in REPLAY_GAPS has happened since the snapshot.           *)
ReplayFollows ==
    gaps \cap REPLAY_GAPS = {} => replica = live

(* Moving things about neither makes nor loses a unit of anything, counted *)
(* over pockets, paper doll, containers and what lies in containers, but   *)
(* for the partial fits and lost contents named in COUNT_GAPS.             *)
MovesConserve ==
    [][(/\ gaps' \cap COUNT_GAPS = {}
        /\ \E id \in ItemIds : Total(live', id) # Total(live, id)) => ~Moving]_vars

(* Crafting is no source of wealth: with every recipe giving at most the   *)
(* value it takes, no order of queueing, ticking, cancelling and crafting  *)
(* leaves the player with more than before, the material locked in the     *)
(* queue counted (inventory.rs, queue_craft: no "cancel-re-queue duping"). *)
StackValue(stacks) == SumOver([i \in DOMAIN stacks |-> Def[stacks[i].id].value * stacks[i].count])
Worth(w) ==
    SumOver([id \in ItemIds |-> Def[id].value * Total(w, id)])
    + SumOver([k \in DOMAIN w.queue |-> w.queue[k].units * StackValue(Recipe[w.queue[k].recipe].inputs)])
CraftingCreatesNothing ==
    [][Worth(live') > Worth(live) => ~Crafting]_vars

(* Job and container ids are never handed out twice, across a load that    *)
(* continues from a replica too (resources.rs: reuse would alias distinct  *)
(* jobs): the counters never fall.                                         *)
IdsNeverReissued ==
    [][live.nextJob <= live'.nextJob /\ live.nextBox <= live'.nextBox]_vars

(* containers.rs, take_from_container: an error when the pockets are full, *)
(* "item left in the container".  So a take never changes how much there   *)
(* is.                                                                     *)
TakeConserves ==
    [][(\E id \in ItemIds : Total(live', id) > Total(live, id)) =>
          ~\E b \in Boxes(live), i \in Indexes : TakeFromContainer(b, i)]_vars

(* delta.rs: applying the deltas on top of a snapshot reconstructs the     *)
(* state exactly; so a replica never holds more of anything than the live  *)
(* world does.                                                             *)
ReplayAddsNothing ==
    \A id \in ItemIds : Total(replica, id) <= Total(live, id)
=============================================================================
