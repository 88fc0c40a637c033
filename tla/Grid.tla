-------------------------------- MODULE Grid --------------------------------
(***************************************************************************)
(* The placement engine (simn-sim/src/inventory_grid.rs).  A grid is       *)
(* [w, h, items]: a sequence of placed items, each a stack at a cell, with *)
(* a rotation and, if it is a container, an inner grid of its own (an      *)
(* option: <<>> or <<grid>>).  The order of "items" is part of the state:  *)
(* every command and every journal record names an item by its index.      *)
(***************************************************************************)
EXTENDS Naturals, Sequences, FiniteSets, SequencesExt

CONSTANT
    Def  \* the item registry: id -> [w, h, rotatable, stack, perish, inner, ...]

ItemIds == DOMAIN Def

(* Content of positive size; find_first_fit refuses to place anything else. *)
ASSUME GridAssumption ==
    \A id \in ItemIds :
        /\ Def[id].w \in Nat \ {0}
        /\ Def[id].h \in Nat \ {0}
        /\ Def[id].stack \in Nat \ {0}
        /\ Def[id].rotatable \in BOOLEAN

NoPerish == 0  \* an id whose "perish" is 0 never ages

EmptyGrid(w, h) == [w |-> w, h |-> h, items |-> <<>>]

(* Footprint of an item; 90 degrees swaps the sides. *)
Size(id, rot) ==
    IF rot = 90 THEN <<Def[id].h, Def[id].w>> ELSE <<Def[id].w, Def[id].h>>

Overlap(x, y, s, p) ==
    LET t == Size(p.stack.id, p.rot)
    IN  /\ x < p.x + t[1] /\ p.x < x + s[1]
        /\ y < p.y + t[2] /\ p.y < y + s[2]

(* Whether a rectangle fits at (x, y), the items in "ignored" set aside. *)
FitsAt(g, x, y, s, ignored) ==
    /\ x + s[1] <= g.w /\ y + s[2] <= g.h
    /\ \A i \in DOMAIN g.items \ ignored : ~Overlap(x, y, s, g.items[i])

(* Fault model: only the top left cell of the footprint is tried. *)
SpotsOfOneCell(g, s) ==
    {p \in (0 .. g.w - 1) \X (0 .. g.h - 1) : FitsAt(g, p[1], p[2], <<1, 1>>, {})}

Spots(g, s) ==
    {p \in (0 .. g.w - 1) \X (0 .. g.h - 1) : FitsAt(g, p[1], p[2], s, {})}

(* Row by row from the top left. *)
First(spots) ==
    CHOOSE p \in spots : \A q \in spots : p[2] < q[2] \/ (p[2] = q[2] /\ p[1] <= q[1])

HasRoom(g, id) ==
    \E rot \in {0} \cup {r \in {90} : Def[id].rotatable} : Spots(g, Size(id, rot)) # {}

(* First fit, upright before rotated.  The caller has checked HasRoom. *)
Rotation(g, id) == IF Spots(g, Size(id, 0)) # {} THEN 0 ELSE 90
PlaceAt(g, stack, inner, rot, p) ==
    [g EXCEPT !.items =
        Append(@, [stack |-> stack, x |-> p[1], y |-> p[2], rot |-> rot, inner |-> inner])]
PlaceTurned(g, stack, inner, rot) ==
    PlaceAt(g, stack, inner, rot, First(Spots(g, Size(stack.id, rot))))
Place(g, stack, inner) == PlaceTurned(g, stack, inner, Rotation(g, stack.id))

(* A container placed as a new item starts with an empty inner grid. *)
FreshInner(id) ==
    IF Def[id].inner = <<>> THEN <<>>
    ELSE <<EmptyGrid(Def[id].inner[1], Def[id].inner[2])>>

RemoveItem(g, i) == [g EXCEPT !.items = RemoveAt(@, i)]

(* grant_or_merge: pour into the stacks that may take the units, in order, *)
(* then open new stacks while there is room.  Result: the grid, the units  *)
(* that did not fit and the index touched last (0: none).                  *)
Mergeable(p, id, tick) ==
    /\ p.stack.id = id
    /\ Def[id].perish = NoPerish \/ p.stack.tick = tick
    /\ p.stack.count < Def[id].stack

Least(m, n) == IF m < n THEN m ELSE n

Pour(id, tick, acc, i) ==
    LET p    == acc.grid.items[i]
        take == Least(acc.left, Def[id].stack - p.stack.count)
    IN  IF ~Mergeable(p, id, tick) \/ acc.left = 0 THEN acc
        ELSE [grid    |-> [acc.grid EXCEPT !.items[i].stack.count = @ + take],
              left    |-> acc.left - take,
              touched |-> i]

OpenStack(id, tick, acc) ==
    LET take  == Least(acc.left, Def[id].stack)
        stack == [id |-> id, count |-> take, tick |-> tick, mag |-> <<>>]
    IN  IF acc.left = 0 \/ ~HasRoom(acc.grid, id) THEN acc
        ELSE [grid    |-> Place(acc.grid, stack, FreshInner(id)),
              left    |-> acc.left - take,
              touched |-> Len(acc.grid.items) + 1]

PourAll(id, tick, acc) ==
    LET n == Len(acc.grid.items)
        poured[i \in 0 .. n] == IF i = 0 THEN acc ELSE Pour(id, tick, poured[i - 1], i)
    IN  poured[n]
OpenStacks(id, tick, acc) ==
    LET opened[i \in 0 .. acc.left] == IF i = 0 THEN acc ELSE OpenStack(id, tick, opened[i - 1])
    IN  opened[acc.left]
GrantOrMerge(g, id, count, tick) ==
    OpenStacks(id, tick, PourAll(id, tick, [grid |-> g, left |-> count, touched |-> 0]))

(* consume_from_grid: first stacks first, emptied stacks leave the grid. *)
Drain(id, acc, p) ==
    LET take == IF p.stack.id # id THEN 0
                ELSE IF acc.left < p.stack.count THEN acc.left ELSE p.stack.count
        rest == [p EXCEPT !.stack.count = @ - take]
    IN  [items |-> IF rest.stack.count = 0 THEN acc.items ELSE Append(acc.items, rest),
         left  |-> acc.left - take]

DrainAll(items, id, need) ==
    LET n == Len(items)
        drained[i \in 0 .. n] ==
            IF i = 0 THEN [items |-> <<>>, left |-> need] ELSE Drain(id, drained[i - 1], items[i])
    IN  drained[n]
ConsumeFromGrid(g, id, need) ==
    LET r == DrainAll(g.items, id, need)
    IN  [grid |-> [g EXCEPT !.items = r.items], taken |-> need - r.left]

CountOf(g, id) ==
    FoldLeft(LAMBDA n, p : IF p.stack.id = id THEN n + p.stack.count ELSE n, 0, g.items)

(* One unit of the i-th item, the slot removed with the last one. *)
TakeOne(g, i) ==
    IF g.items[i].stack.count <= 1 THEN RemoveItem(g, i)
    ELSE [g EXCEPT !.items[i].stack.count = @ - 1]

SwapItems(g, i, j) ==
    [g EXCEPT !.items = [@ EXCEPT ![i] = g.items[j], ![j] = g.items[i]]]

-----------------------------------------------------------------------------

(* What every operation above must preserve: items inside the grid, no two *)
(* on one cell, stacks neither empty nor above the limit of their id.      *)
Tidy(g) ==
    /\ \A i \in DOMAIN g.items :
          LET p == g.items[i]
          IN  /\ FitsAt(g, p.x, p.y, Size(p.stack.id, p.rot), {i})
              /\ p.stack.count \in 1 .. Def[p.stack.id].stack
    /\ \A i \in DOMAIN g.items : Def[g.items[i].stack.id].rotatable \/ g.items[i].rot = 0

WellPlaced(g) ==
    /\ Tidy(g)
    /\ \A i \in DOMAIN g.items : g.items[i].inner = <<>> \/ Tidy(g.items[i].inner[1])

(* Units of an id in a grid and in the containers lying in it. *)
Held(g, id) ==
    CountOf(g, id) +
    FoldLeft(LAMBDA n, p : IF p.inner = <<>> THEN n ELSE n + CountOf(p.inner[1], id), 0, g.items)
=============================================================================
