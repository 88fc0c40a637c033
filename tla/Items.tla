-------------------------------- MODULE Items --------------------------------
(***************************************************************************)
(* A player's belongings as the world keeps them and as a replayed journal *)
(* rebuilds them: pockets, paper doll, world containers, crafting queue.   *)
(* "Apply" is the item half of apply_delta (world/persistence.rs); the     *)
(* operations that write the records are in Inventory.                     *)
(***************************************************************************)
EXTENDS Grid, Functions

CONSTANTS
    Slots,     \* paper-doll slots
    Recipe     \* recipe -> [inputs, outputs, time], the first two lists of [id, count]

POCKETS == "pockets"
Sources == {POCKETS} \cup Slots

World(pockets) ==
    [pockets |-> pockets, worn |-> [s \in Slots |-> <<>>], boxes |-> <<>>,
     queue |-> <<>>, clock |-> 0, nextJob |-> 0, nextBox |-> 0]

(* grid_mut_by_source: the pockets, or the inner grid of a worn container. *)
HasGrid(w, src) ==
    src \in {POCKETS} \cup {s \in Slots : w.worn[s] # <<>> /\ w.worn[s][1].inner # <<>>}
GridOf(w, src) == IF src = POCKETS THEN w.pockets ELSE w.worn[src][1].inner[1]
WithGrid(w, src, g) ==
    IF src = POCKETS THEN [w EXCEPT !.pockets = g]
    ELSE [w EXCEPT !.worn[src] = <<[@[1] EXCEPT !.inner = <<g>>]>>]

Boxes(w) == DOMAIN w.boxes
WithBox(w, b, g) == [w EXCEPT !.boxes[b].grid = g]

(* merge_item_stack on the pockets: what does not fit is dropped. *)
Merge(w, id, count, tick) ==
    [w EXCEPT !.pockets = GrantOrMerge(@, id, count, tick).grid]
ApplyPickedUp(w, d) == Merge(w, d.id, d.count, d.tick)
Stamped(stacks, tick) ==
    [i \in DOMAIN stacks |-> [id |-> stacks[i].id, count |-> stacks[i].count, tick |-> tick]]
MergeAll(w, stacks, tick) == FoldLeft(ApplyPickedUp, w, Stamped(stacks, tick))

Spend(w, s) == [w EXCEPT !.pockets = ConsumeFromGrid(@, s.id, s.count).grid]
SpendAll(w, stacks) == FoldLeft(Spend, w, stacks)
(* Fault model: the inputs of one unit, whatever the count. *)
TimesOnce(stacks, n) == stacks

Times(stacks, n) == [i \in DOMAIN stacks |-> [stacks[i] EXCEPT !.count = @ * n]]

(* retain: the elements of q that are not at one of the places in "out". *)
Without(q, out) ==
    LET kept[n \in 0 .. Len(q)] ==
            IF n = 0 THEN <<>> ELSE IF n \in out THEN kept[n - 1] ELSE Append(kept[n - 1], q[n])
    IN  kept[Len(q)]

JobsOf(w, job) == {k \in DOMAIN w.queue : w.queue[k].id = job}
NewJob(d) ==
    [id |-> d.job, recipe |-> d.recipe, units |-> d.units, ticks |-> Recipe[d.recipe].time]

-----------------------------------------------------------------------------
(* The arms of apply_delta.  An arm whose index or id names nothing does   *)
(* nothing; none of them fails.                                            *)

InRange(g, i) == i \in DOMAIN g.items

ApplyDropped(w, d) ==
    IF InRange(w.pockets, d.idx) THEN [w EXCEPT !.pockets = RemoveItem(@, d.idx)] ELSE w

ApplySwapped(w, d) ==
    IF InRange(w.pockets, d.from) /\ InRange(w.pockets, d.to)
    THEN [w EXCEPT !.pockets = SwapItems(@, d.from, d.to)] ELSE w

(* Fault model: the record's source grid is ignored. *)
RemoveFromPockets(w, src, i) == ApplyDropped(w, [idx |-> i])

RemoveBySource(w, src, i) ==
    IF HasGrid(w, src) /\ InRange(GridOf(w, src), i)
    THEN WithGrid(w, src, RemoveItem(GridOf(w, src), i)) ELSE w

PlaceIn(w, src, p) ==
    IF HasGrid(w, src) /\ HasRoom(GridOf(w, src), p.stack.id)
    THEN WithGrid(w, src, Place(GridOf(w, src), p.stack, p.inner)) ELSE w

ApplyMovedBetweenGrids(w, d) == PlaceIn(RemoveBySource(w, d.from, d.idx), d.to, d.item)

ApplyConsumed(w, d) ==
    IF InRange(w.pockets, d.idx) THEN [w EXCEPT !.pockets = TakeOne(@, d.idx)] ELSE w

ApplySalvaged(w, d) == MergeAll(ApplyConsumed(w, d), d.outputs, d.tick)

ApplyCrafted(w, d) ==
    MergeAll(SpendAll(w, Recipe[d.recipe].inputs), Recipe[d.recipe].outputs, d.tick)

ApplyEquipped(w, d) ==
    [RemoveBySource(w, d.from, d.idx) EXCEPT
        !.worn[d.slot] = <<[stack |-> d.item.stack, inner |-> d.item.inner]>>]

ApplyUnequipped(w, d) == PlaceIn([w EXCEPT !.worn[d.slot] = <<>>], d.to, d.item)

(* Fault model: the id counter is left behind. *)
ApplyJobQueuedUncounted(w, d) ==
    [SpendAll(w, d.inputs) EXCEPT !.queue = Append(@, NewJob(d))]

ApplyJobQueued(w, d) ==
    [SpendAll(w, d.inputs) EXCEPT
        !.queue = Append(@, NewJob(d)),
        !.nextJob = IF @ < d.job THEN d.job ELSE @]

ApplyJobCancelled(w, d) ==
    MergeAll([w EXCEPT !.queue = Without(@, JobsOf(w, d.job))], d.refund, w.clock)

ApplyBoxSpawned(w, d) ==
    [w EXCEPT !.boxes = [b \in Boxes(w) \cup {d.box} |->
                            IF b = d.box THEN [grid |-> d.grid, public |-> d.public] ELSE @[b]],
              !.nextBox = IF @ < d.box THEN d.box ELSE @]

ApplyBoxDespawned(w, d) ==
    [w EXCEPT !.boxes = [b \in Boxes(w) \ {d.box} |-> @[b]]]

(* The contents of an added container go to the stack touched last. *)
Attach(r, inner) ==
    IF inner = <<>> \/ r.touched = 0 THEN r.grid ELSE [r.grid EXCEPT !.items[r.touched].inner = inner]
Into(g, p) == GrantOrMerge(g, p.stack.id, p.stack.count, p.stack.tick)
ApplyBoxAdded(w, d) ==
    IF d.box \in Boxes(w)
    THEN WithBox(w, d.box, Attach(Into(w.boxes[d.box].grid, d.item), d.item.inner)) ELSE w

ApplyBoxRemoved(w, d) ==
    IF d.box \in Boxes(w) /\ InRange(w.boxes[d.box].grid, d.idx)
    THEN WithBox(w, d.box, RemoveItem(w.boxes[d.box].grid, d.idx)) ELSE w

ApplyTick(w, d) == [w EXCEPT !.clock = d.tick]

Apply(w, d) ==
    CASE d.kind = "ItemPickedUp"              -> ApplyPickedUp(w, d)
      [] d.kind = "ItemDropped"               -> ApplyDropped(w, d)
      [] d.kind = "ItemMoved"                 -> ApplySwapped(w, d)
      [] d.kind = "ItemMovedBetweenGrids"     -> ApplyMovedBetweenGrids(w, d)
      [] d.kind = "ItemConsumed"              -> ApplyConsumed(w, d)
      [] d.kind = "ItemsSalvaged"             -> ApplySalvaged(w, d)
      [] d.kind = "ItemsCrafted"              -> ApplyCrafted(w, d)
      [] d.kind = "ItemEquipped"              -> ApplyEquipped(w, d)
      [] d.kind = "ItemUnequipped"            -> ApplyUnequipped(w, d)
      [] d.kind = "CraftJobQueued"            -> ApplyJobQueued(w, d)
      [] d.kind = "CraftJobCancelled"         -> ApplyJobCancelled(w, d)
      [] d.kind = "WorldContainerSpawned"     -> ApplyBoxSpawned(w, d)
      [] d.kind = "WorldContainerDespawned"   -> ApplyBoxDespawned(w, d)
      [] d.kind = "WorldContainerItemAdded"   -> ApplyBoxAdded(w, d)
      [] d.kind = "WorldContainerItemRemoved" -> ApplyBoxRemoved(w, d)
      [] d.kind = "Tick"                      -> ApplyTick(w, d)

ApplyAll(w, log) == FoldLeft(Apply, w, log)

(* Units of an id anywhere in a world, those locked in jobs left out. *)
SumOver(f) == FoldFunction(LAMBDA a, b : a + b, 0, f)
HeldWorn(e, id) ==
    IF e = <<>> THEN 0
    ELSE (IF e[1].stack.id = id THEN e[1].stack.count ELSE 0)
         + (IF e[1].inner = <<>> THEN 0 ELSE Held(e[1].inner[1], id))
Total(w, id) ==
    Held(w.pockets, id)
    + SumOver([s \in Slots |-> HeldWorn(w.worn[s], id)])
    + SumOver([b \in Boxes(w) |-> Held(w.boxes[b].grid, id)])
=============================================================================
