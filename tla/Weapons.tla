------------------------------- MODULE Weapons -------------------------------
(***************************************************************************)
(* Magazines, rounds and shots (simn-sim/src/world/weapons.rs) of a player *)
(* with one weapon slot.  "live" is the running world, "replica" the last  *)
(* snapshot with the journal records written since applied to it, the arms *)
(* of apply_delta being those of world/persistence.rs.                     *)
(*                                                                         *)
(* A refused call is an action only where it changes something.            *)
(***************************************************************************)
EXTENDS Grid

CONSTANTS
    Gun,          \* the id of the weapon
    Cond,         \* [new, jams]: condition of a new weapon, and below which it may jam
    Starts,       \* where a run may start: [load, gun], the pockets as the records that filled them
    PocketW, PocketH,
    MaxShots,     \* bound: projectiles of a behaviour
    MaxOps        \* bound: calls of a behaviour

VARIABLES
    live, replica,
    gaps,         \* what replay does not reproduce, since the snapshot
    ops

vars == <<live, replica, gaps, ops>>

NoRound == "none"
Empty == [rounds |-> 0, variant |-> NoRound]
Magazines == {id \in ItemIds : Def[id].kind = "magazine"}
Rounds == {id \in ItemIds : Def[id].kind = "ammo"}

(* A stack's magazine_state is an option: <<>> until the first load or reload. *)
State(stack) == IF stack.mag = <<>> THEN Empty ELSE stack.mag[1]
Loaded(stack) == State(stack).rounds

(* No more than its capacity, and no rounds of no known kind. *)
SoundStack(s) ==
    s.mag # <<>> =>
        /\ s.id \in Magazines
        /\ Loaded(s) <= Def[s.id].capacity
        /\ Loaded(s) > 0 => State(s).variant \in Rounds

Option(S) == {o \in Seq(S) : Len(o) <= 1}
MagSet == Option([rounds : Nat, variant : Rounds \cup {NoRound}])
SlotStacks ==
    {s \in [id : ItemIds, count : Nat, tick : Nat, mag : MagSet] : s.count \in 1 .. Def[s.id].stack}
GunSet == Option([mag : Option(SlotStacks), jammed : BOOLEAN, cond : Nat])
GrantRecord == [kind : {"ItemPickedUp"}, id : ItemIds, count : Nat]

(* Worlds are seeded by grants; a weapon that starts loaded holds a sound  *)
(* magazine.                                                               *)
ASSUME WeaponAssumption ==
    /\ Gun \in ItemIds
    /\ Cond.new \in Nat
    /\ PocketW \in Nat /\ PocketH \in Nat
    /\ \A id \in Magazines : Def[id].capacity \in Nat
    /\ \A s \in Starts :
          /\ s.load \in Seq(GrantRecord) /\ s.gun \in GunSet
          /\ s.gun # <<>> /\ s.gun[1].mag # <<>> => SoundStack(s.gun[1].mag[1])

(* "gun" is the slot: <<>>, or <<[mag, jammed, cond]>>, "mag" an option.   *)
Fresh == [mag |-> <<>>, jammed |-> FALSE, cond |-> Cond.new]
World(pockets, gun) == [pockets |-> pockets, gun |-> gun, shots |-> {}, lastShot |-> 0]

Armed(w) == w.gun # <<>>
WithMag(w, m) == [w EXCEPT !.gun[1].mag = m]
HasMag(w) == w.gun \in {g \in {w.gun} : g # <<>> /\ g[1].mag # <<>>}

(* Fault model: a new magazine of the same kind is granted. *)
GrantMag(w, stack) == [w EXCEPT !.pockets = GrantOrMerge(@, stack.id, 1, stack.tick).grid]

PlaceMag(w, stack) == [w EXCEPT !.pockets = Place(@, stack, FreshInner(stack.id))]
Fits(w, id) == HasRoom(w.pockets, id)
InPockets(w, i) == i \in DOMAIN w.pockets.items
At(w, i) == w.pockets.items[i].stack
Unpocket(w, i) == [w EXCEPT !.pockets = RemoveItem(@, i)]

-----------------------------------------------------------------------------
(* The arms of apply_delta.                                                *)

ApplyPickedUp(w, d) == [w EXCEPT !.pockets = GrantOrMerge(@, d.id, d.count, 0).grid]

ApplySwapped(w, d) ==
    IF InPockets(w, d.from) /\ InPockets(w, d.to)
    THEN [w EXCEPT !.pockets = SwapItems(@, d.from, d.to)] ELSE w

ApplyEquipped(w, d) ==
    [(IF InPockets(w, d.idx) THEN Unpocket(w, d.idx) ELSE w) EXCEPT !.gun = <<Fresh>>]

ApplyUnequipped(w, d) ==
    LET v == [w EXCEPT !.gun = <<>>]
    IN  IF Fits(v, d.item.id) THEN PlaceMag(v, d.item) ELSE v

(* Fault model: the first magazine of the kind, full or empty. *)
FirstOfKind(w, mag) ==
    LET like == {i \in DOMAIN w.pockets.items : At(w, i).id = mag.id}
    IN  {i \in like : \A j \in like : i <= j}

(* The first magazine of the pockets with the id and the number of rounds. *)
FirstLike(w, mag) ==
    LET like == {i \in DOMAIN w.pockets.items :
                    At(w, i).id = mag.id /\ Loaded(At(w, i)) = Loaded(mag)}
    IN  {i \in like : \A j \in like : i <= j}

ApplyReloaded(w, d) ==
    LET found == FirstLike(w, d.mag)
        v     == IF found = {} THEN w ELSE Unpocket(w, CHOOSE i \in found : TRUE)
        u     == IF Armed(v) THEN WithMag(v, <<d.mag>>) ELSE v
    IN  IF d.ejected # <<>> /\ Fits(u, d.ejected[1].id) THEN PlaceMag(u, d.ejected[1]) ELSE u

ApplyEjected(w, d) ==
    LET v == IF Armed(w) THEN WithMag(w, <<>>) ELSE w
    IN  IF d.ejected # <<>> /\ Fits(v, d.ejected[1].id) THEN PlaceMag(v, d.ejected[1]) ELSE v

Holding(n, round) == <<[rounds |-> n, variant |-> round]>>
Consume(w, round, n) == [w EXCEPT !.pockets = ConsumeFromGrid(@, round, n).grid]

ApplyMagazineLoaded(w, d) ==
    LET v == Consume(w, d.round, d.added)
    IN  IF HasMag(v) THEN [v EXCEPT !.gun[1].mag[1].mag = Holding(d.total, d.round)] ELSE v

ApplyPocketLoaded(w, d) ==
    LET v == Consume(w, d.round, d.added)
    IN  IF InPockets(v, d.idx)
        THEN [v EXCEPT !.pockets.items[d.idx].stack.mag = Holding(d.total, d.round)] ELSE v

ApplyFired(w, d) ==
    IF HasMag(w)
    THEN [w EXCEPT !.gun[1].mag[1].mag = Holding(d.remaining, State(w.gun[1].mag[1]).variant)]
    ELSE w

(* A shot whose shooter is no player finds no region and is skipped. *)
ApplySpawned(w, d) == IF d.npc THEN w ELSE [w EXCEPT !.shots = @ \cup {d.shot}]
ApplyImpacted(w, d) == [w EXCEPT !.shots = @ \ {d.shot}]

ApplyJammed(w, d) == IF Armed(w) THEN [w EXCEPT !.gun[1].jammed = TRUE] ELSE w
ApplyJamCleared(w, d) == IF Armed(w) THEN [w EXCEPT !.gun[1].jammed = FALSE] ELSE w
ApplyCondition(w, d) == IF Armed(w) THEN [w EXCEPT !.gun[1].cond = d.cond] ELSE w

Apply(w, d) ==
    CASE d.kind = "ItemPickedUp"           -> ApplyPickedUp(w, d)
      [] d.kind = "ItemMoved"              -> ApplySwapped(w, d)
      [] d.kind = "ItemEquipped"           -> ApplyEquipped(w, d)
      [] d.kind = "ItemUnequipped"         -> ApplyUnequipped(w, d)
      [] d.kind = "WeaponReloaded"         -> ApplyReloaded(w, d)
      [] d.kind = "WeaponMagazineEjected"  -> ApplyEjected(w, d)
      [] d.kind = "MagazineLoaded"         -> ApplyMagazineLoaded(w, d)
      [] d.kind = "PocketMagazineLoaded"   -> ApplyPocketLoaded(w, d)
      [] d.kind = "WeaponFired"            -> ApplyFired(w, d)
      [] d.kind = "ProjectileSpawned"      -> ApplySpawned(w, d)
      [] d.kind = "ProjectileImpacted"     -> ApplyImpacted(w, d)
      [] d.kind = "WeaponJammed"           -> ApplyJammed(w, d)
      [] d.kind = "WeaponJamCleared"       -> ApplyJamCleared(w, d)
      [] d.kind = "WeaponConditionChanged" -> ApplyCondition(w, d)

-----------------------------------------------------------------------------

Do(w, log, odd) ==
    /\ ops < MaxOps
    /\ ops' = ops + 1
    /\ live' = w
    /\ replica' = FoldLeft(Apply, replica, log)
    /\ gaps' = gaps \cup odd

Start(s) ==
    FoldLeft(Apply, World(EmptyGrid(PocketW, PocketH), s.gun), s.load)

Init ==
    /\ live \in {Start(s) : s \in Starts}
    /\ replica = live
    /\ gaps = {}
    /\ ops = 0

GrantItem(id) ==
    LET d == [kind |-> "ItemPickedUp", id |-> id, count |-> 1]
    IN  Do(ApplyPickedUp(live, d), <<d>>, {})

MoveBetweenSlots(i, j) ==
    LET d == [kind |-> "ItemMoved", from |-> i, to |-> j]
    IN  /\ InPockets(live, i) /\ InPockets(live, j)
        /\ Do([live EXCEPT !.pockets = SwapItems(@, i, j)], <<d>>, {})

Equip(i) ==
    /\ ~Armed(live) /\ InPockets(live, i)
    /\ At(live, i).id = Gun
    /\ Do([Unpocket(live, i) EXCEPT !.gun = <<Fresh>>],
          <<[kind |-> "ItemEquipped", idx |-> i]>>, {})

(* The weapon goes to the pockets, its magazine, jam and wear nowhere. *)
Unequip ==
    LET item == [id |-> Gun, count |-> 1, tick |-> 0, mag |-> <<>>]
    IN  /\ Armed(live) /\ Fits(live, Gun)
        /\ Do(PlaceMag([live EXCEPT !.gun = <<>>], item),
              <<[kind |-> "ItemUnequipped", item |-> item]>>, {})

(* The fullest magazine of the calibre, the first of them. *)
Usable(w) == {i \in DOMAIN w.pockets.items :
    At(w, i).id \in Magazines /\ Def[At(w, i).id].calibre = Def[Gun].calibre}
Best(w) ==
    CHOOSE i \in Usable(w) : \A j \in Usable(w) :
        \/ Loaded(At(w, j)) < Loaded(At(w, i))
        \/ Loaded(At(w, j)) = Loaded(At(w, i)) /\ i <= j

ReloadWeapon ==
    /\ Armed(live)
    /\ Usable(live) # {}
    /\ LET pulled  == At(live, Best(live))
           new     == [pulled EXCEPT !.mag = <<State(pulled)>>]
           ejected == live.gun[1].mag
           w       == WithMag(Unpocket(live, Best(live)), <<new>>)
           d       == [kind |-> "WeaponReloaded", mag |-> new, ejected |-> ejected]
       IN  IF ejected = <<>> THEN Do(w, <<d>>, {})
           ELSE IF Fits(w, ejected[1].id) THEN Do(PlaceMag(w, ejected[1]), <<d>>, {})
           ELSE Do(w, <<>>, {"evicted"})

EjectMagazine ==
    /\ Armed(live)
    /\ LET ejected == live.gun[1].mag
           w       == WithMag(live, <<>>)
           d       == [kind |-> "WeaponMagazineEjected", ejected |-> ejected]
       IN  IF ejected = <<>> THEN Do(w, <<d>>, {})
           ELSE IF Fits(w, ejected[1].id) THEN Do(PlaceMag(w, ejected[1]), <<d>>, {})
           ELSE Do(w, <<>>, {"evicted"})

(* validate_mag_load, and the room left. *)
MayLoad(stack, round) ==
    /\ stack.id \in Magazines
    /\ Def[stack.id].calibre = Def[round].calibre
    /\ Loaded(stack) > 0 => State(stack).variant \in {round, NoRound}

(* Fault model: the rounds already loaded are not counted. *)
RoomOfEmpty(stack) == Def[stack.id].capacity

Room(stack) ==
    IF Def[stack.id].capacity > Loaded(stack) THEN Def[stack.id].capacity - Loaded(stack) ELSE 0
Available(w, stack, round) == ConsumeFromGrid(w.pockets, round, Room(stack)).taken

LoadRoundsIntoMag(round) ==
    /\ HasMag(live)
    /\ LET stack == live.gun[1].mag[1]
           n     == Available(live, stack, round)
           total == Loaded(stack) + n
           d     == [kind |-> "MagazineLoaded", round |-> round, added |-> n, total |-> total]
       IN  /\ MayLoad(stack, round) /\ n > 0
           /\ Do([Consume(live, round, Room(stack)) EXCEPT !.gun[1].mag[1].mag = Holding(total, round)],
                 <<d>>, {})

(* The index is the one the magazine had before the ammunition was taken:  *)
(* an emptied stack in front of the magazine moves it, and another item is *)
(* given the magazine's new contents.                                      *)
LoadRoundsIntoPocketMag(i, round) ==
    /\ InPockets(live, i)
    /\ MayLoad(At(live, i), round)
    /\ LET n       == Available(live, At(live, i), round)
           total   == Loaded(At(live, i)) + n
           w       == Consume(live, round, Room(At(live, i)))
           d       == [kind |-> "PocketMagazineLoaded", idx |-> i, round |-> round,
                       added |-> n, total |-> total]
           shifted == ~InPockets(w, i) \/ w.pockets.items[i] # live.pockets.items[i]
       IN  /\ n > 0
           /\ IF InPockets(w, i)
              THEN Do([w EXCEPT !.pockets.items[i].stack.mag = Holding(total, round)], <<d>>,
                      IF shifted THEN {"misfilled"} ELSE {})
              ELSE Do(w, <<>>, {"misfilled", "unwritten"})

ClearWeaponJam ==
    /\ Armed(live) /\ live.gun[1].jammed
    /\ Do([live EXCEPT !.gun[1].jammed = FALSE], <<[kind |-> "WeaponJamCleared"]>>, {})

(* jam_chance_at_condition is positive below the threshold only. *)
FireJams ==
    /\ Armed(live) /\ ~live.gun[1].jammed
    /\ live.gun[1].cond < Cond.jams
    /\ Do([live EXCEPT !.gun[1].jammed = TRUE], <<[kind |-> "WeaponJammed"]>>, {})

SpawnLog(shot, npc) == [kind |-> "ProjectileSpawned", shot |-> shot, npc |-> npc]
Launch(w) == [w EXCEPT !.lastShot = @ + 1, !.shots = @ \cup {w.lastShot + 1}]
Reused == IF live.lastShot + 1 \in live.shots THEN {"reused"} ELSE {}

FireWeapon ==
    /\ HasMag(live) /\ ~live.gun[1].jammed
    /\ live.lastShot < MaxShots
    /\ LET stack == live.gun[1].mag[1]
           gun   == live.gun[1]
           left  == Loaded(stack) - 1
           cond  == IF gun.cond > 0 THEN gun.cond - 1 ELSE 0
           w     == [live EXCEPT !.gun = <<[gun EXCEPT !.cond = cond,
                                     !.mag[1].mag = Holding(left, State(stack).variant)]>>]
           worn  == IF cond = gun.cond THEN <<>>
                    ELSE <<[kind |-> "WeaponConditionChanged", cond |-> cond]>>
       IN  /\ Loaded(stack) > 0 /\ State(stack).variant # NoRound
           /\ Do(Launch(w),
                 worn \o <<[kind |-> "WeaponFired", remaining |-> left],
                           SpawnLog(live.lastShot + 1, FALSE)>>, Reused)

NpcFireProjectile ==
    /\ live.lastShot < MaxShots
    /\ Do(Launch(live), <<SpawnLog(live.lastShot + 1, TRUE)>>, {"npc"} \cup Reused)

(* A hit, or the end of its range. *)
ProjectileImpact(shot) ==
    /\ shot \in live.shots
    /\ Do([live EXCEPT !.shots = @ \ {shot}], <<[kind |-> "ProjectileImpacted", shot |-> shot]>>, {})

(* A magazine whose contents are wrong outlives snapshots; a world loaded  *)
(* from a replica that missed a lost magazine may have one too.            *)
RollSnapshot ==
    /\ replica # live
    /\ replica' = live
    /\ gaps' = gaps \cap {"misfilled"}
    /\ UNCHANGED <<live, ops>>

(* The replica's projectile counter is the snapshot's: no arm advances it. *)
Load ==
    /\ live # replica
    /\ live' = replica
    /\ gaps' = {g \in {"misfilled"} : gaps \cap {"misfilled", "evicted"} # {}}
    /\ UNCHANGED <<replica, ops>>

Indexes == 1 .. PocketW * PocketH

Next ==
    \/ \E id \in ItemIds \ {Gun} : GrantItem(id)
    \/ \E i, j \in Indexes : i < j /\ MoveBetweenSlots(i, j)
    \/ \E i \in Indexes : Equip(i)
    \/ Unequip
    \/ ReloadWeapon
    \/ EjectMagazine
    \/ \E r \in Rounds : LoadRoundsIntoMag(r)
    \/ \E i \in Indexes, r \in Rounds : LoadRoundsIntoPocketMag(i, r)
    \/ ClearWeaponJam
    \/ FireJams
    \/ FireWeapon
    \/ NpcFireProjectile
    \/ \E s \in live.shots : ProjectileImpact(s)
    \/ RollSnapshot
    \/ Load

Spec == Init /\ [][Next]_vars

-----------------------------------------------------------------------------
(* Properties.                                                             *)

Stacks(w) == {At(w, i) : i \in DOMAIN w.pockets.items}
             \cup (IF HasMag(w) THEN {w.gun[1].mag[1]} ELSE {})

(* No magazine, in the pockets or in the weapon, in the live world or in a *)
(* replica, ever holds more than its capacity or rounds of no known kind,  *)
(* whatever was loaded, swapped, fired, ejected and replayed; unless a     *)
(* load was written to the wrong item, or a replica missed the magazine    *)
(* lost by a failed reload.                                                *)
Sound(w) == \A s \in Stacks(w) : SoundStack(s)
MagazinesSound ==
    /\ "misfilled" \notin gaps => Sound(live)
    /\ gaps \cap {"misfilled", "evicted"} = {} => Sound(replica)

(* A replay takes from the pockets the very magazine the player took, puts *)
(* the ejected one where the player's went, and spends the same stacks: so *)
(* weapon, pockets and shots in flight agree item for item after any calls *)
(* but those that end in one of the gaps.  The journal names a magazine    *)
(* only by its kind and its number of rounds.                              *)
ReplayKeepsArms ==
    gaps \subseteq {"misfilled"} =>
        /\ replica.pockets = live.pockets
        /\ replica.gun = live.gun
        /\ replica.shots = live.shots

(* Rounds leave a player only through the muzzle, one projectile each: no  *)
(* load, reload, eject, swap or jam makes or loses one, and no shot is     *)
(* free.  Not so when a magazine finds no room, when a load goes astray,   *)
(* when the weapon is put away loaded, or across a load of the world.      *)
RoundsIn(w) ==
    FoldLeft(LAMBDA n, p : n + Loaded(p.stack) + (IF p.stack.id \in Rounds THEN p.stack.count ELSE 0),
             IF HasMag(w) THEN Loaded(w.gun[1].mag[1]) ELSE 0, w.pockets.items)
OwnShot == live'.lastShot = live.lastShot + 1 /\ live'.gun # live.gun
RoundsBecomeProjectiles ==
    [][(/\ gaps' \cap {"evicted", "misfilled"} = {}
        /\ RoundsIn(live') # RoundsIn(live) - (IF OwnShot THEN 1 ELSE 0)) =>
            Unequip \/ Load \/ \E r \in Rounds : GrantItem(r)]_vars
=============================================================================
