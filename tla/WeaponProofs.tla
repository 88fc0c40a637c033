----------------------------- MODULE WeaponProofs -----------------------------
(***************************************************************************)
(* Weapons, for every content, size of pockets and number of calls: the    *)
(* magazines are sound, and a replay of the journal takes the very items   *)
(* the player's calls took.                                                *)
(***************************************************************************)
EXTENDS Weapons, GridProofs

F == INSTANCE SequenceLemmas WITH Op <- Apply

-----------------------------------------------------------------------------
(* Types.  K says which magazine states an id may be with.                 *)

Inners == {FreshInner(id) : id \in ItemIds}
All == ItemIds \X MagSet
Fine == {k \in All : SoundStack([id |-> k[1], mag |-> k[2]])}

StacksOf(K) == {s \in SlotStacks : <<s.id, s.mag>> \in K}
ArmOf(K) == [mag : Option(StacksOf(K)), jammed : BOOLEAN, cond : Nat]
(* Those sorts of items, with whatever is in them. *)
Wide(K) == {t \in ItemIds \X MagSet \X Inners : <<t[1], t[2]>> \in K}
WorldOf(K) == [pockets : Neat(MagSet, Inners, Wide(K)), gun : Option(ArmOf(K)),
               shots : SUBSET Nat, lastShot : Nat]

RecordSet ==
    GrantRecord
    \cup [kind : {"ItemMoved"}, from : Nat, to : Nat]
    \cup [kind : {"ItemEquipped"}, idx : Nat]
    \cup [kind : {"ItemUnequipped"}, item : StacksOf(All)]
    \cup [kind : {"WeaponReloaded"}, mag : StacksOf(All), ejected : Option(StacksOf(All))]
    \cup [kind : {"WeaponMagazineEjected"}, ejected : Option(StacksOf(All))]
    \cup [kind : {"MagazineLoaded"}, round : Rounds, added : Nat, total : Nat]
    \cup [kind : {"PocketMagazineLoaded"}, idx : Nat, round : Rounds, added : Nat, total : Nat]
    \cup [kind : {"WeaponFired"}, remaining : Nat]
    \cup [kind : {"ProjectileSpawned"}, shot : Nat, npc : BOOLEAN]
    \cup [kind : {"ProjectileImpacted"}, shot : Nat]
    \cup [kind : {"WeaponJammed", "WeaponJamCleared"}]
    \cup [kind : {"WeaponConditionChanged"}, cond : Nat]

(* The states a set of pairs may leave out are never those of a new stack. *)
Kept(K) == K \subseteq All /\ \A id \in ItemIds : <<id, <<>>>> \in K

(* The instance's fold is the one of the model. *)
LEMMA ReplayIsFold ==
    ASSUME NEW b, NEW q
    PROVE  FoldLeft(Apply, b, q) = F!Fold(b, q)
  BY DEF F!Fold, F!FoldLeft, F!MapThenFoldSet, F!Max, FoldLeft, MapThenFoldSet, Max

-----------------------------------------------------------------------------
(* Options                                                                 *)

LEMMA OptionIs ==
    ASSUME NEW S, NEW o \in Option(S)
    PROVE  o = <<>> \/ (o # <<>> /\ o[1] \in S /\ o = <<o[1]>>)
<1>1. o \in Seq(S) /\ Len(o) <= 1
  BY DEF Option
<1>2. Len(o) = 0 \/ Len(o) = 1
  BY <1>1, LenProperties
<1>3. CASE Len(o) = 0
  BY <1>1, <1>3
<1>4. CASE Len(o) = 1
  BY <1>1, <1>4
<1> QED BY <1>2, <1>3, <1>4

LEMMA OptionOf ==
    ASSUME NEW S
    PROVE  /\ <<>> \in Option(S)
           /\ \A x \in S : <<x>> \in Option(S) /\ <<x>> # <<>> /\ <<x>>[1] = x
  BY DEF Option

LEMMA OptionSet ==
    ASSUME NEW S, NEW o \in Option(S), o # <<>>, NEW x
    PROVE  [o EXCEPT ![1] = x] = <<x>>
<1>1. PICK y : o = <<y>>
  BY OptionIs
<1> QED BY <1>1

LEMMA KindsKept == Kept(All) /\ Kept(Fine)
<1>1. <<>> \in MagSet
  BY OptionOf DEF MagSet
<1>2. ASSUME NEW id \in ItemIds PROVE SoundStack([id |-> id, mag |-> <<>>])
  BY DEF SoundStack
<1>3. \A id \in ItemIds : <<id, <<>>>> \in All
  BY <1>1 DEF All
<1> QED BY <1>2, <1>3 DEF Kept, Fine

LEMMA MagIs ==
    ASSUME NEW s, s.mag \in MagSet
    PROVE  State(s) \in [rounds : Nat, variant : Rounds \cup {NoRound}] /\ Loaded(s) \in Nat
<1>1. s.mag = <<>> \/ (s.mag # <<>> /\ s.mag[1] \in [rounds : Nat, variant : Rounds \cup {NoRound}])
  BY OptionIs DEF MagSet
<1>2. State(s) \in [rounds : Nat, variant : Rounds \cup {NoRound}]
  BY <1>1 DEF State, Empty
<1> QED BY <1>2 DEF Loaded

LEMMA StackIs ==
    ASSUME NEW K, NEW s \in StacksOf(K)
    PROVE  /\ s \in StackSet(MagSet) /\ s.id \in ItemIds /\ s.mag \in MagSet
           /\ s.count \in 1 .. Def[s.id].stack /\ <<s.id, s.mag>> \in K
  BY DEF StacksOf, SlotStacks, StackSet

LEMMA WideIs ==
    ASSUME NEW K, NEW id \in ItemIds, NEW m \in MagSet, NEW o \in Inners
    PROVE  <<id, m, o>> \in Wide(K) <=> <<id, m>> \in K
<1>1. PICK t : t = <<id, m, o>>
  OBVIOUS
<1>2. t \in ItemIds \X MagSet \X Inners /\ t[1] = id /\ t[2] = m
  BY <1>1
<1> QED BY <1>1, <1>2 DEF Wide

LEMMA AllOfKept ==
    ASSUME NEW K, Kept(K)
    PROVE  WorldOf(K) \subseteq WorldOf(All) /\ StacksOf(K) \subseteq StacksOf(All)
<1>1. K \subseteq All
  BY DEF Kept
<1>2. StacksOf(K) \subseteq StacksOf(All)
  BY <1>1 DEF StacksOf
<1>3. Neat(MagSet, Inners, Wide(K)) \subseteq Neat(MagSet, Inners, Wide(All))
  <2>1. Wide(K) \subseteq Wide(All)
    BY <1>1 DEF Wide
  <2> QED BY <2>1, Zenon DEF Neat, Carries
<1>4. Option(StacksOf(K)) \subseteq Option(StacksOf(All))
  BY <1>2, OptionIs, OptionOf
<1>5. ArmOf(K) \subseteq ArmOf(All)
  BY <1>4 DEF ArmOf
<1>6. Option(ArmOf(K)) \subseteq Option(ArmOf(All))
  BY <1>5, OptionIs, OptionOf
<1> QED BY <1>2, <1>3, <1>6 DEF WorldOf

-----------------------------------------------------------------------------
(* The operations on a world                                               *)

LEMMA UnpocketKeeps ==
    ASSUME NEW K, NEW w \in WorldOf(K), NEW i, InPockets(w, i)
    PROVE  Unpocket(w, i) \in WorldOf(K)
<1>1. w.pockets \in Neat(MagSet, Inners, Wide(K))
  BY DEF WorldOf
<1>2. PICK g : g = w.pockets
  OBVIOUS
<1>3. g \in GridSet(MagSet, Inners) /\ Tidy(g) /\ Carries(g, Wide(K)) /\ i \in DOMAIN g.items
  BY <1>1, <1>2 DEF Neat, InPockets
<1>4. RemoveItem(g, i) \in Neat(MagSet, Inners, Wide(K))
  BY <1>3, RemoveKeepsTidy DEF Neat
<1> QED BY <1>2, <1>4 DEF Unpocket, WorldOf

LEMMA SwapKeeps ==
    ASSUME NEW K, NEW w \in WorldOf(K), NEW i, NEW j, InPockets(w, i), InPockets(w, j)
    PROVE  [w EXCEPT !.pockets = SwapItems(@, i, j)] \in WorldOf(K)
<1>1. w.pockets \in Neat(MagSet, Inners, Wide(K))
  BY DEF WorldOf
<1>2. PICK g : g = w.pockets
  OBVIOUS
<1>3. g \in GridSet(MagSet, Inners) /\ Tidy(g) /\ Carries(g, Wide(K)) /\ i \in DOMAIN g.items /\ j \in DOMAIN g.items
  BY <1>1, <1>2 DEF Neat, InPockets
<1>4. SwapItems(g, i, j) \in Neat(MagSet, Inners, Wide(K))
  BY <1>3, SwapKeepsTidy DEF Neat
<1> QED BY <1>2, <1>4 DEF WorldOf

LEMMA PlaceKeeps ==
    ASSUME NEW K, NEW w \in WorldOf(K), NEW s \in StacksOf(K), Fits(w, s.id)
    PROVE  PlaceMag(w, s) \in WorldOf(K)
<1>1. w.pockets \in Neat(MagSet, Inners, Wide(K))
  BY DEF WorldOf
<1>2. PICK g : g = w.pockets
  OBVIOUS
<1>3. g \in GridSet(MagSet, Inners) /\ Tidy(g) /\ Carries(g, Wide(K)) /\ HasRoom(g, s.id)
  BY <1>1, <1>2 DEF Neat, Fits
<1>4. s \in StackSet(MagSet) /\ s.count \in 1 .. Def[s.id].stack /\ <<s.id, s.mag>> \in K
  BY StackIs
<1>5. FreshInner(s.id) \in Inners
  BY StackIs DEF Inners
<1>6. PICK in \in Inners : in = FreshInner(s.id)
  BY <1>5
<1>a. <<s.id, s.mag, in>> \in Wide(K)
  BY <1>4, StackIs, WideIs
<1>7. Place(g, s, in) \in Neat(MagSet, Inners, Wide(K))
  BY <1>3, <1>4, <1>a, PlaceKeepsTidy DEF Neat
<1> QED BY <1>2, <1>6, <1>7 DEF PlaceMag, WorldOf

LEMMA PickUpKeeps ==
    ASSUME NEW K, Kept(K), NEW w \in WorldOf(K), NEW id \in ItemIds, NEW n \in Nat, NEW tick \in Nat
    PROVE  [w EXCEPT !.pockets = GrantOrMerge(@, id, n, tick).grid] \in WorldOf(K)
<1>1. w.pockets \in Neat(MagSet, Inners, Wide(K))
  BY DEF WorldOf
<1>2. PICK g \in Neat(MagSet, Inners, Wide(K)) : g = w.pockets
  BY <1>1
<1>3. <<>> \in MagSet /\ FreshInner(id) \in Inners /\ <<id, <<>>>> \in K
  BY OptionOf DEF MagSet, Inners, Kept
<1>a. <<id, <<>>, FreshInner(id)>> \in Wide(K)
  BY <1>3, WideIs
<1>4. GrantOrMerge(g, id, n, tick).grid \in Neat(MagSet, Inners, Wide(K))
  BY <1>3, <1>a, GrantKeepsTidy
<1> QED BY <1>2, <1>4 DEF WorldOf

LEMMA ConsumeKeeps ==
    ASSUME NEW K, NEW w \in WorldOf(K), NEW round, NEW n \in Nat
    PROVE  Consume(w, round, n) \in WorldOf(K)
<1>1. PICK g \in Neat(MagSet, Inners, Wide(K)) : g = w.pockets
  BY DEF WorldOf
<1>2. ConsumeFromGrid(g, round, n).grid \in Neat(MagSet, Inners, Wide(K))
  BY ConsumeKeepsTidy
<1> QED BY <1>1, <1>2 DEF Consume, WorldOf

LEMMA RefillKeeps ==
    ASSUME NEW K, NEW w \in WorldOf(K), NEW i, InPockets(w, i),
           NEW m \in MagSet, <<At(w, i).id, m>> \in K
    PROVE  [w EXCEPT !.pockets.items[i].stack.mag = m] \in WorldOf(K)
<1>1. PICK g : g = w.pockets
  OBVIOUS
<1>2. g \in GridSet(MagSet, Inners) /\ Tidy(g) /\ Carries(g, Wide(K)) /\ i \in DOMAIN g.items
      /\ <<g.items[i].stack.id, m>> \in K
  BY <1>1 DEF WorldOf, Neat, InPockets, At
<1> DEFINE h == [g EXCEPT !.items[i].stack.mag = m]
<1>3. /\ Tidy(h) /\ h \in GridSet(MagSet, Inners)
      /\ \A L : Carries(g, L) /\ <<g.items[i].stack.id, m, g.items[i].inner>> \in L => Carries(h, L)
  BY <1>2, RefillKeepsTidy
<1>a. <<g.items[i].stack.id, m, g.items[i].inner>> \in Wide(K)
  BY <1>2, ItemType, WideIs
<1>4. [w EXCEPT !.pockets.items[i].stack.mag = m] = [w EXCEPT !.pockets = h]
  BY <1>1
<1> HIDE DEF h
<1>5. h \in Neat(MagSet, Inners, Wide(K))
  BY <1>2, <1>3, <1>a DEF Neat
<1> QED BY <1>4, <1>5 DEF WorldOf

LEMMA ArmIs ==
    ASSUME NEW K, NEW w \in WorldOf(K), Armed(w)
    PROVE  /\ w.gun # <<>> /\ w.gun[1] \in ArmOf(K) /\ w.gun = <<w.gun[1]>>
           /\ w.gun[1].mag \in Option(StacksOf(K)) /\ w.gun[1].jammed \in BOOLEAN /\ w.gun[1].cond \in Nat
           /\ \A a \in ArmOf(K) : /\ [w EXCEPT !.gun[1] = a] \in WorldOf(K)
                                  /\ [w EXCEPT !.gun[1] = a] = [w EXCEPT !.gun = <<a>>]
<1>1. w.gun \in Option(ArmOf(K)) /\ w.gun # <<>>
  BY DEF WorldOf, Armed
<1>2. w.gun[1] \in ArmOf(K) /\ w.gun = <<w.gun[1]>>
  BY <1>1, OptionIs
<1>3. ASSUME NEW a \in ArmOf(K)
      PROVE  [w EXCEPT !.gun[1] = a] \in WorldOf(K) /\ [w EXCEPT !.gun[1] = a] = [w EXCEPT !.gun = <<a>>]
  <2>1. [w.gun EXCEPT ![1] = a] = <<a>> /\ <<a>> \in Option(ArmOf(K))
    BY <1>1, OptionSet, OptionOf
  <2> QED BY <2>1 DEF WorldOf
<1> QED BY <1>1, <1>2, <1>3 DEF ArmOf

LEMMA WithMagKeeps ==
    ASSUME NEW K, NEW w \in WorldOf(K), Armed(w), NEW m \in Option(StacksOf(K))
    PROVE  WithMag(w, m) \in WorldOf(K) /\ WithMag(w, m) = [w EXCEPT !.gun = <<[w.gun[1] EXCEPT !.mag = m]>>]
<1>0. \A a \in ArmOf(K) : /\ [w EXCEPT !.gun[1] = a] \in WorldOf(K)
                          /\ [w EXCEPT !.gun[1] = a] = [w EXCEPT !.gun = <<a>>]
  BY ArmIs
<1>1. PICK a \in ArmOf(K) : a = [w.gun[1] EXCEPT !.mag = m]
  BY ArmIs DEF ArmOf
<1>2. WithMag(w, m) = [w EXCEPT !.gun[1] = a]
  BY <1>1 DEF WithMag
<1>3. [w EXCEPT !.gun[1] = a] \in WorldOf(K) /\ [w EXCEPT !.gun[1] = a] = [w EXCEPT !.gun = <<a>>]
  BY <1>0, Zenon
<1> QED BY <1>1, <1>2, <1>3

LEMMA HasMagIs ==
    ASSUME NEW K, NEW w \in WorldOf(K)
    PROVE  /\ HasMag(w) <=> Armed(w) /\ w.gun[1].mag # <<>>
           /\ HasMag(w) => w.gun[1].mag[1] \in StacksOf(K) /\ w.gun[1].mag = <<w.gun[1].mag[1]>>
<1>1. HasMag(w) <=> Armed(w) /\ w.gun[1].mag # <<>>
  BY DEF HasMag, Armed
<1>2. HasMag(w) => w.gun[1].mag \in Option(StacksOf(K))
  BY <1>1, ArmIs
<1> QED BY <1>1, <1>2, OptionIs

LEMMA HoldKeeps ==
    ASSUME NEW K, NEW w \in WorldOf(K), HasMag(w), NEW m \in MagSet, <<w.gun[1].mag[1].id, m>> \in K
    PROVE  /\ [w EXCEPT !.gun[1].mag[1].mag = m] \in WorldOf(K)
           /\ [w EXCEPT !.gun[1].mag[1].mag = m] =
                 [w EXCEPT !.gun = <<[w.gun[1] EXCEPT !.mag = <<[w.gun[1].mag[1] EXCEPT !.mag = m]>>]>>]
<1>1. /\ Armed(w) /\ w.gun[1].mag \in Option(StacksOf(K)) /\ w.gun[1].mag # <<>>
      /\ w.gun[1].mag[1] \in StacksOf(K)
  BY HasMagIs, ArmIs
<1>2. PICK s : s = [w.gun[1].mag[1] EXCEPT !.mag = m]
  OBVIOUS
<1>3. s \in StacksOf(K)
  BY <1>1, <1>2 DEF StacksOf, SlotStacks
<1>4. [w.gun[1].mag EXCEPT ![1] = s] = <<s>> /\ <<s>> \in Option(StacksOf(K))
  BY <1>1, <1>3, OptionSet, OptionOf
<1>5. [w EXCEPT !.gun[1].mag[1].mag = m] = WithMag(w, <<s>>)
  BY <1>2, <1>4 DEF WithMag
<1> QED BY <1>1, <1>2, <1>4, <1>5, WithMagKeeps

-----------------------------------------------------------------------------
(* The arms of apply_delta keep the types.                                 *)

LEMMA ApplyIs ==
    ASSUME NEW w, NEW d \in RecordSet
    PROVE  /\ d.kind = "ItemPickedUp" => Apply(w, d) = ApplyPickedUp(w, d)
           /\ d.kind = "ItemMoved" => Apply(w, d) = ApplySwapped(w, d)
           /\ d.kind = "ItemEquipped" => Apply(w, d) = ApplyEquipped(w, d)
           /\ d.kind = "ItemUnequipped" => Apply(w, d) = ApplyUnequipped(w, d)
           /\ d.kind = "WeaponReloaded" => Apply(w, d) = ApplyReloaded(w, d)
           /\ d.kind = "WeaponMagazineEjected" => Apply(w, d) = ApplyEjected(w, d)
           /\ d.kind = "MagazineLoaded" => Apply(w, d) = ApplyMagazineLoaded(w, d)
           /\ d.kind = "PocketMagazineLoaded" => Apply(w, d) = ApplyPocketLoaded(w, d)
           /\ d.kind = "WeaponFired" => Apply(w, d) = ApplyFired(w, d)
           /\ d.kind = "ProjectileSpawned" => Apply(w, d) = ApplySpawned(w, d)
           /\ d.kind = "ProjectileImpacted" => Apply(w, d) = ApplyImpacted(w, d)
           /\ d.kind = "WeaponJammed" => Apply(w, d) = ApplyJammed(w, d)
           /\ d.kind = "WeaponJamCleared" => Apply(w, d) = ApplyJamCleared(w, d)
           /\ d.kind = "WeaponConditionChanged" => Apply(w, d) = ApplyCondition(w, d)
  BY DEF Apply

LEMMA HoldingIs ==
    ASSUME NEW n \in Nat, NEW v \in Rounds \cup {NoRound}
    PROVE  /\ Holding(n, v) \in MagSet /\ Holding(n, v) # <<>>
           /\ Holding(n, v)[1] = [rounds |-> n, variant |-> v]
  BY OptionOf DEF Holding, MagSet

LEMMA AppliedPickedUp ==
    ASSUME NEW K, Kept(K), NEW w \in WorldOf(K), NEW d \in GrantRecord
    PROVE  ApplyPickedUp(w, d) \in WorldOf(K)
<1>1. d.id \in ItemIds /\ d.count \in Nat
  BY DEF GrantRecord
<1> QED BY <1>1, PickUpKeeps DEF ApplyPickedUp

LEMMA AppliedEquipped ==
    ASSUME NEW K, Kept(K), NEW w \in WorldOf(K), NEW d
    PROVE  ApplyEquipped(w, d) \in WorldOf(K)
<1>1. PICK v \in WorldOf(K) : v = IF InPockets(w, d.idx) THEN Unpocket(w, d.idx) ELSE w
  BY UnpocketKeeps
<1>2. Fresh \in ArmOf(K)
  BY WeaponAssumption, OptionOf DEF Fresh, ArmOf
<1>3. <<Fresh>> \in Option(ArmOf(K))
  BY <1>2, OptionOf
<1>4. [v EXCEPT !.gun = <<Fresh>>] \in WorldOf(K)
  BY <1>3 DEF WorldOf
<1> QED BY <1>1, <1>4 DEF ApplyEquipped

LEMMA AppliedUnequipped ==
    ASSUME NEW K, Kept(K), NEW w \in WorldOf(K), NEW d, d.item \in StacksOf(K)
    PROVE  ApplyUnequipped(w, d) \in WorldOf(K)
<1>1. PICK v : v = [w EXCEPT !.gun = <<>>]
  OBVIOUS
<1>2. v \in WorldOf(K)
  BY <1>1, OptionOf DEF WorldOf
<1>3. PICK s \in StacksOf(K) : s = d.item
  OBVIOUS
<1>4. Fits(v, s.id) => PlaceMag(v, s) \in WorldOf(K)
  BY <1>2, PlaceKeeps
<1> QED BY <1>1, <1>2, <1>3, <1>4 DEF ApplyUnequipped

(* A world with room for what was ejected takes it. *)
LEMMA TakesBack ==
    ASSUME NEW K, NEW u \in WorldOf(K), NEW o \in Option(StacksOf(K))
    PROVE  (IF o # <<>> /\ Fits(u, o[1].id) THEN PlaceMag(u, o[1]) ELSE u) \in WorldOf(K)
<1>1. CASE o # <<>> /\ Fits(u, o[1].id)
  <2>1. PICK s \in StacksOf(K) : s = o[1]
    BY <1>1, OptionIs
  <2>2. PlaceMag(u, s) \in WorldOf(K)
    BY <1>1, <2>1, PlaceKeeps
  <2> QED BY <1>1, <2>1, <2>2
<1>2. CASE ~(o # <<>> /\ Fits(u, o[1].id))
  BY <1>2
<1> QED BY <1>1, <1>2

LEMMA FirstLikeIs ==
    ASSUME NEW w, NEW mag, FirstLike(w, mag) # {}
    PROVE  InPockets(w, CHOOSE i \in FirstLike(w, mag) : TRUE)
<1>1. (CHOOSE i \in FirstLike(w, mag) : TRUE) \in FirstLike(w, mag)
  BY Zenon
<1>2. \A i \in FirstLike(w, mag) : InPockets(w, i)
  BY DEF FirstLike, InPockets
<1> QED BY <1>1, <1>2, Zenon

LEMMA AppliedReloaded ==
    ASSUME NEW K, NEW w \in WorldOf(K), NEW d, d.mag \in StacksOf(K), d.ejected \in Option(StacksOf(K))
    PROVE  ApplyReloaded(w, d) \in WorldOf(K)
<1>1. PICK found, c : found = FirstLike(w, d.mag) /\ c = CHOOSE i \in found : TRUE
  OBVIOUS
<1>2. found # {} => InPockets(w, c)
  BY <1>1, FirstLikeIs
<1>3. PICK v \in WorldOf(K) : v = IF found = {} THEN w ELSE Unpocket(w, c)
  BY <1>2, UnpocketKeeps
<1>4. <<d.mag>> \in Option(StacksOf(K))
  BY OptionOf
<1>5. PICK u \in WorldOf(K) : u = IF Armed(v) THEN WithMag(v, <<d.mag>>) ELSE v
  BY <1>4, WithMagKeeps
<1>6. (IF d.ejected # <<>> /\ Fits(u, d.ejected[1].id) THEN PlaceMag(u, d.ejected[1]) ELSE u) \in WorldOf(K)
  BY TakesBack
<1> QED BY <1>1, <1>3, <1>5, <1>6 DEF ApplyReloaded

LEMMA AppliedEjected ==
    ASSUME NEW K, NEW w \in WorldOf(K), NEW d, d.ejected \in Option(StacksOf(K))
    PROVE  ApplyEjected(w, d) \in WorldOf(K)
<1>1. <<>> \in Option(StacksOf(K))
  BY OptionOf
<1>2. PICK v \in WorldOf(K) : v = IF Armed(w) THEN WithMag(w, <<>>) ELSE w
  BY <1>1, WithMagKeeps
<1>3. (IF d.ejected # <<>> /\ Fits(v, d.ejected[1].id) THEN PlaceMag(v, d.ejected[1]) ELSE v) \in WorldOf(K)
  BY TakesBack
<1> QED BY <1>2, <1>3 DEF ApplyEjected

(* Only the types of what a record puts into a magazine are certain. *)
LEMMA AppliedLoaded ==
    ASSUME NEW w \in WorldOf(All), NEW d, d.round \in Rounds, d.added \in Nat, d.total \in Nat
    PROVE  ApplyMagazineLoaded(w, d) \in WorldOf(All) /\ ApplyPocketLoaded(w, d) \in WorldOf(All)
<1>1. PICK v \in WorldOf(All) : v = Consume(w, d.round, d.added)
  BY ConsumeKeeps
<1>2. PICK m \in MagSet : m = Holding(d.total, d.round)
  BY HoldingIs
<1>3. HasMag(v) => [v EXCEPT !.gun[1].mag[1].mag = m] \in WorldOf(All)
  <2> SUFFICES ASSUME HasMag(v) PROVE [v EXCEPT !.gun[1].mag[1].mag = m] \in WorldOf(All)
    OBVIOUS
  <2>1. v.gun[1].mag[1].id \in ItemIds
    BY HasMagIs, StackIs
  <2> QED BY <2>1, HoldKeeps DEF All
<1>4. InPockets(v, d.idx) => [v EXCEPT !.pockets.items[d.idx].stack.mag = m] \in WorldOf(All)
  <2> SUFFICES ASSUME InPockets(v, d.idx) PROVE [v EXCEPT !.pockets.items[d.idx].stack.mag = m] \in WorldOf(All)
    OBVIOUS
  <2>1. At(v, d.idx).id \in ItemIds
    BY ItemType DEF WorldOf, Neat, InPockets, At
  <2> QED BY <2>1, RefillKeeps DEF All
<1> QED BY <1>1, <1>2, <1>3, <1>4 DEF ApplyMagazineLoaded, ApplyPocketLoaded

LEMMA AppliedFired ==
    ASSUME NEW w \in WorldOf(All), NEW d, d.remaining \in Nat
    PROVE  ApplyFired(w, d) \in WorldOf(All)
<1>1. CASE HasMag(w)
  <2>1. PICK s : s = w.gun[1].mag[1]
    OBVIOUS
  <2>2. s.id \in ItemIds /\ s.mag \in MagSet
    BY <1>1, <2>1, HasMagIs, StackIs
  <2>3. PICK m \in MagSet : m = Holding(d.remaining, State(s).variant)
    BY <2>2, MagIs, HoldingIs
  <2>4. [w EXCEPT !.gun[1].mag[1].mag = m] \in WorldOf(All)
    BY <1>1, <2>1, <2>2, HoldKeeps DEF All
  <2> QED BY <1>1, <2>1, <2>3, <2>4 DEF ApplyFired
<1>2. CASE ~HasMag(w)
  BY <1>2 DEF ApplyFired
<1> QED BY <1>1, <1>2

LEMMA AppliedToGun ==
    ASSUME NEW K, NEW w \in WorldOf(K), NEW d
    PROVE  /\ ApplyJammed(w, d) \in WorldOf(K) /\ ApplyJamCleared(w, d) \in WorldOf(K)
           /\ d.cond \in Nat => ApplyCondition(w, d) \in WorldOf(K)
<1>1. ASSUME Armed(w), NEW b \in BOOLEAN PROVE [w EXCEPT !.gun[1].jammed = b] \in WorldOf(K)
  <2>1. PICK a \in ArmOf(K) : a = [w.gun[1] EXCEPT !.jammed = b]
    BY <1>1, ArmIs DEF ArmOf
  <2>2. [w EXCEPT !.gun[1] = a] \in WorldOf(K)
    BY <1>1, ArmIs
  <2> QED BY <2>1, <2>2
<1>2. ASSUME Armed(w), NEW c \in Nat PROVE [w EXCEPT !.gun[1].cond = c] \in WorldOf(K)
  <2>1. PICK a \in ArmOf(K) : a = [w.gun[1] EXCEPT !.cond = c]
    BY <1>2, ArmIs DEF ArmOf
  <2>2. [w EXCEPT !.gun[1] = a] \in WorldOf(K)
    BY <1>2, ArmIs
  <2> QED BY <2>1, <2>2
<1> QED BY <1>1, <1>2 DEF ApplyJammed, ApplyJamCleared, ApplyCondition

LEMMA AppliedShots ==
    ASSUME NEW K, NEW w \in WorldOf(K), NEW d, d.shot \in Nat
    PROVE  ApplySpawned(w, d) \in WorldOf(K) /\ ApplyImpacted(w, d) \in WorldOf(K)
  BY DEF ApplySpawned, ApplyImpacted, WorldOf

LEMMA Applied ==
    ASSUME NEW w \in WorldOf(All), NEW d \in RecordSet
    PROVE  Apply(w, d) \in WorldOf(All)
<1>1. CASE d \in GrantRecord
  BY <1>1, ApplyIs, AppliedPickedUp, KindsKept DEF GrantRecord
<1>2. CASE d \in [kind : {"ItemMoved"}, from : Nat, to : Nat]
  BY <1>2, ApplyIs, SwapKeeps DEF ApplySwapped
<1>3. CASE d \in [kind : {"ItemEquipped"}, idx : Nat]
  BY <1>3, ApplyIs, AppliedEquipped, KindsKept
<1>4. CASE d \in [kind : {"ItemUnequipped"}, item : StacksOf(All)]
  BY <1>4, ApplyIs, AppliedUnequipped, KindsKept
<1>5. CASE d \in [kind : {"WeaponReloaded"}, mag : StacksOf(All), ejected : Option(StacksOf(All))]
  BY <1>5, ApplyIs, AppliedReloaded
<1>6. CASE d \in [kind : {"WeaponMagazineEjected"}, ejected : Option(StacksOf(All))]
  BY <1>6, ApplyIs, AppliedEjected
<1>7. CASE d \in [kind : {"MagazineLoaded"}, round : Rounds, added : Nat, total : Nat]
  BY <1>7, ApplyIs, AppliedLoaded
<1>8. CASE d \in [kind : {"PocketMagazineLoaded"}, idx : Nat, round : Rounds, added : Nat, total : Nat]
  BY <1>8, ApplyIs, AppliedLoaded
<1>9. CASE d \in [kind : {"WeaponFired"}, remaining : Nat]
  BY <1>9, ApplyIs, AppliedFired
<1>10. CASE d \in [kind : {"ProjectileSpawned"}, shot : Nat, npc : BOOLEAN]
  BY <1>10, ApplyIs, AppliedShots
<1>11. CASE d \in [kind : {"ProjectileImpacted"}, shot : Nat]
  BY <1>11, ApplyIs, AppliedShots
<1>12. CASE d \in [kind : {"WeaponJammed", "WeaponJamCleared"}]
  BY <1>12, ApplyIs, AppliedToGun
<1>13. CASE d \in [kind : {"WeaponConditionChanged"}, cond : Nat]
  BY <1>13, ApplyIs, AppliedToGun
<1> QED BY <1>1, <1>2, <1>3, <1>4, <1>5, <1>6, <1>7, <1>8, <1>9, <1>10, <1>11, <1>12, <1>13 DEF RecordSet

-----------------------------------------------------------------------------
(* The invariant.                                                          *)

Kind(g) == IF "misfilled" \in g THEN All ELSE Fine

Typed == live \in WorldOf(Kind(gaps)) /\ replica \in WorldOf(All)

(* Every load of which nothing was written was a load to the wrong item. *)
Gapped == "unwritten" \in gaps => "misfilled" \in gaps

Same(v, w) == v.pockets = w.pockets /\ v.gun = w.gun
Spoils == {"evicted", "unwritten"}

(* The replica is the live world, but for what the gaps say. *)
Followed ==
    /\ gaps \cap Spoils = {} => Same(replica, live)
    /\ gaps \subseteq {"misfilled"} => replica.shots = live.shots

IInv == Typed /\ Gapped /\ Followed

(* Applying the log to a replica of a world gives a replica of w. *)
Replays(world, log, w, odd) ==
    \A v \in WorldOf(All) :
        Same(v, world) =>
            /\ odd \cap Spoils = {} => Same(F!Fold(v, log), w)
            /\ odd \subseteq {"misfilled"} /\ v.shots = world.shots => F!Fold(v, log).shots = w.shots

LEMMA KindIs == ASSUME NEW g PROVE Kept(Kind(g))
  BY KindsKept DEF Kind

LEMMA WorldsWiden ==
    ASSUME NEW g, NEW h, NEW w \in WorldOf(Kind(g)), g \subseteq h
    PROVE  w \in WorldOf(Kind(h))
<1>1. WorldOf(Fine) \subseteq WorldOf(All)
  BY KindsKept, AllOfKept
<1> QED BY <1>1 DEF Kind

LEMMA DoKeeps ==
    ASSUME IInv, NEW w, NEW log \in Seq(RecordSet), NEW odd, Do(w, log, odd),
           w \in WorldOf(Kind(gaps \cup odd)), "unwritten" \in odd => "misfilled" \in odd,
           Replays(live, log, w, odd)
    PROVE  IInv'
<1>1. live' = w /\ gaps' = gaps \cup odd /\ replica' = F!Fold(replica, log)
  BY ReplayIsFold DEF Do
<1>2. replica' \in WorldOf(All)
  <2>1. \A t \in WorldOf(All), e \in RecordSet : Apply(t, e) \in WorldOf(All)
    BY Applied
  <2>2. replica \in WorldOf(All)
    BY DEF IInv, Typed
  <2> QED BY <1>1, <2>1, <2>2, F!FoldType
<1>3. Typed' /\ Gapped'
  BY <1>1, <1>2 DEF IInv, Typed, Gapped, Kind
<1>4. replica \in WorldOf(All) /\ Followed
  BY DEF IInv, Typed
<1>5. Followed'
  <2>1. gaps' \cap Spoils = {} => Same(replica', live')
    <3> SUFFICES ASSUME gaps' \cap Spoils = {} PROVE Same(replica', live')
      OBVIOUS
    <3>1. gaps \cap Spoils = {} /\ odd \cap Spoils = {}
      BY <1>1
    <3> QED BY <1>1, <1>4, <3>1 DEF Followed, Replays
  <2>2. gaps' \subseteq {"misfilled"} => replica'.shots = live'.shots
    <3> SUFFICES ASSUME gaps' \subseteq {"misfilled"} PROVE replica'.shots = live'.shots
      OBVIOUS
    <3>1. gaps \subseteq {"misfilled"} /\ odd \subseteq {"misfilled"} /\ gaps \cap Spoils = {}
      BY <1>1 DEF Spoils
    <3> QED BY <1>1, <1>4, <3>1 DEF Followed, Replays
  <2> QED BY <2>1, <2>2 DEF Followed, Same
<1> QED BY <1>3, <1>5 DEF IInv

(* One record that does to any replica what the call did to the world. *)
LEMMA OneRecord ==
    ASSUME NEW world, NEW d \in RecordSet, NEW w, NEW odd,
           \A v \in WorldOf(All) :
              Same(v, world) =>
                  /\ Same(Apply(v, d), w)
                  /\ v.shots = world.shots => Apply(v, d).shots = w.shots
    PROVE  <<d>> \in Seq(RecordSet) /\ Replays(world, <<d>>, w, odd)
<1>1. <<d>> \in Seq(RecordSet)
  OBVIOUS
<1>2. \A v : F!Fold(v, <<d>>) = Apply(v, d)
  BY F!FoldOne
<1> QED BY <1>1, <1>2 DEF Replays

LEMMA NoRecord ==
    ASSUME NEW world, NEW w, NEW odd, odd \cap Spoils # {}
    PROVE  <<>> \in Seq(RecordSet) /\ Replays(world, <<>>, w, odd)
  BY DEF Replays, Spoils

LEMMA LiveIs == ASSUME IInv PROVE live \in WorldOf(Kind(gaps)) /\ Kept(Kind(gaps))
  BY KindIs DEF IInv, Typed

LEMMA SameKind == ASSUME NEW g, NEW odd, "misfilled" \notin odd PROVE Kind(g \cup odd) = Kind(g)
  BY DEF Kind

-----------------------------------------------------------------------------
(* The steps keep it.                                                      *)

LEMMA GrantItemKeeps == ASSUME IInv, NEW id \in ItemIds, GrantItem(id) PROVE IInv'
<1>1. PICK d : d = [kind |-> "ItemPickedUp", id |-> id, count |-> 1]
  OBVIOUS
<1>2. d \in GrantRecord /\ d \in RecordSet
  BY <1>1 DEF GrantRecord, RecordSet
<1>3. PICK w : w = ApplyPickedUp(live, d)
  OBVIOUS
<1>4. Do(w, <<d>>, {})
  BY <1>1, <1>3 DEF GrantItem
<1>5. w \in WorldOf(Kind(gaps \cup {}))
  BY <1>2, <1>3, LiveIs, SameKind, AppliedPickedUp
<1>6. ASSUME NEW v \in WorldOf(All), Same(v, live)
      PROVE  Same(Apply(v, d), w) /\ (v.shots = live.shots => Apply(v, d).shots = w.shots)
  <2>1. Apply(v, d) = ApplyPickedUp(v, d)
    BY <1>1, <1>2, ApplyIs
  <2>2. live \in WorldOf(Kind(gaps))
    BY LiveIs
  <2> QED BY <1>3, <1>6, <2>1, <2>2 DEF ApplyPickedUp, Same, WorldOf
<1>7. <<d>> \in Seq(RecordSet) /\ Replays(live, <<d>>, w, {})
  BY <1>2, <1>6, OneRecord
<1> QED BY <1>4, <1>5, <1>7, DoKeeps

LEMMA MoveKeeps ==
    ASSUME IInv, NEW i \in Nat, NEW j \in Nat, MoveBetweenSlots(i, j) PROVE IInv'
<1>1. PICK d : d = [kind |-> "ItemMoved", from |-> i, to |-> j]
  OBVIOUS
<1>2. d \in RecordSet
  BY <1>1 DEF RecordSet
<1>3. PICK w : w = [live EXCEPT !.pockets = SwapItems(@, i, j)]
  OBVIOUS
<1>4. Do(w, <<d>>, {}) /\ InPockets(live, i) /\ InPockets(live, j)
  BY <1>1, <1>3 DEF MoveBetweenSlots
<1>5. w \in WorldOf(Kind(gaps \cup {}))
  BY <1>3, <1>4, LiveIs, SameKind, SwapKeeps
<1>6. ASSUME NEW v \in WorldOf(All), Same(v, live)
      PROVE  Same(Apply(v, d), w) /\ (v.shots = live.shots => Apply(v, d).shots = w.shots)
  <2>1. Apply(v, d) = ApplySwapped(v, d)
    BY <1>1, <1>2, ApplyIs
  <2>2. live \in WorldOf(Kind(gaps)) /\ InPockets(v, i) /\ InPockets(v, j)
    BY <1>4, <1>6, LiveIs DEF InPockets, Same
  <2> QED BY <1>1, <1>3, <1>6, <2>1, <2>2 DEF ApplySwapped, Same, WorldOf
<1>7. <<d>> \in Seq(RecordSet) /\ Replays(live, <<d>>, w, {})
  BY <1>2, <1>6, OneRecord
<1> QED BY <1>4, <1>5, <1>7, DoKeeps

LEMMA EquipKeeps == ASSUME IInv, NEW i \in Nat, Equip(i) PROVE IInv'
<1>1. PICK d : d = [kind |-> "ItemEquipped", idx |-> i]
  OBVIOUS
<1>2. d \in RecordSet
  BY <1>1 DEF RecordSet
<1>3. PICK w : w = [Unpocket(live, i) EXCEPT !.gun = <<Fresh>>]
  OBVIOUS
<1>4. Do(w, <<d>>, {}) /\ InPockets(live, i)
  BY <1>1, <1>3 DEF Equip
<1>a. w = ApplyEquipped(live, d)
  BY <1>1, <1>3, <1>4 DEF ApplyEquipped
<1>5. w \in WorldOf(Kind(gaps \cup {}))
  BY <1>a, LiveIs, SameKind, AppliedEquipped
<1>6. ASSUME NEW v \in WorldOf(All), Same(v, live)
      PROVE  Same(Apply(v, d), w) /\ (v.shots = live.shots => Apply(v, d).shots = w.shots)
  <2>1. Apply(v, d) = ApplyEquipped(v, d)
    BY <1>1, <1>2, ApplyIs
  <2>2. live \in WorldOf(Kind(gaps)) /\ InPockets(v, i)
    BY <1>4, <1>6, LiveIs DEF InPockets, Same
  <2> QED BY <1>1, <1>3, <1>6, <2>1, <2>2 DEF ApplyEquipped, Unpocket, Same, WorldOf
<1>7. <<d>> \in Seq(RecordSet) /\ Replays(live, <<d>>, w, {})
  BY <1>2, <1>6, OneRecord
<1> QED BY <1>4, <1>5, <1>7, DoKeeps

LEMMA NewStack ==
    ASSUME NEW K, Kept(K), NEW id \in ItemIds
    PROVE  [id |-> id, count |-> 1, tick |-> 0, mag |-> <<>>] \in StacksOf(K)
<1>1. 1 \in 1 .. Def[id].stack
  BY GridAssumption
<1> QED BY <1>1, OptionOf DEF StacksOf, SlotStacks, MagSet, Kept

LEMMA UnequipKeeps == ASSUME IInv, Unequip PROVE IInv'
<1>1. PICK item : item = [id |-> Gun, count |-> 1, tick |-> 0, mag |-> <<>>]
  OBVIOUS
<1>2. item \in StacksOf(Kind(gaps)) /\ item \in StacksOf(All) /\ item.id = Gun
  BY <1>1, NewStack, LiveIs, KindsKept, WeaponAssumption
<1>3. PICK d : d = [kind |-> "ItemUnequipped", item |-> item]
  OBVIOUS
<1>4. d \in RecordSet
  BY <1>2, <1>3 DEF RecordSet
<1>5. PICK w : w = PlaceMag([live EXCEPT !.gun = <<>>], item)
  OBVIOUS
<1>6. Do(w, <<d>>, {}) /\ Fits(live, Gun)
  BY <1>1, <1>3, <1>5 DEF Unequip
<1>a. w = ApplyUnequipped(live, d)
  BY <1>2, <1>3, <1>5, <1>6 DEF ApplyUnequipped, Fits
<1>7. w \in WorldOf(Kind(gaps \cup {}))
  BY <1>2, <1>3, <1>a, LiveIs, SameKind, AppliedUnequipped
<1>8. ASSUME NEW v \in WorldOf(All), Same(v, live)
      PROVE  Same(Apply(v, d), w) /\ (v.shots = live.shots => Apply(v, d).shots = w.shots)
  <2>1. Apply(v, d) = ApplyUnequipped(v, d)
    BY <1>3, <1>4, ApplyIs
  <2>2. live \in WorldOf(Kind(gaps)) /\ Fits(v, Gun)
    BY <1>6, <1>8, LiveIs DEF Fits, Same
  <2> QED BY <1>2, <1>3, <1>5, <1>8, <2>1, <2>2 DEF ApplyUnequipped, PlaceMag, Fits, Same, WorldOf
<1>9. <<d>> \in Seq(RecordSet) /\ Replays(live, <<d>>, w, {})
  BY <1>4, <1>8, OneRecord
<1> QED BY <1>6, <1>7, <1>9, DoKeeps

LEMMA PocketStack ==
    ASSUME NEW K, NEW w \in WorldOf(K), NEW i, InPockets(w, i)
    PROVE  At(w, i) \in StacksOf(K)
<1>1. PICK g : g = w.pockets /\ g \in GridSet(MagSet, Inners) /\ Tidy(g) /\ Carries(g, Wide(K)) /\ i \in DOMAIN g.items
  BY DEF WorldOf, Neat, InPockets
<1>2. g.items[i].stack \in StackSet(MagSet)
  BY <1>1, ItemType
<1>3. g.items[i].stack.count \in 1 .. Def[g.items[i].stack.id].stack
  BY <1>1, TidyMeans, Zenon DEF Lawful
<1>4. <<g.items[i].stack.id, g.items[i].stack.mag>> \in K
  <2>1. <<g.items[i].stack.id, g.items[i].stack.mag, g.items[i].inner>> \in Wide(K)
    BY <1>1, Zenon DEF Carries, Sort
  <2> QED BY <1>1, <2>1, ItemType, WideIs
<1> QED BY <1>1, <1>2, <1>3, <1>4 DEF At, StacksOf, SlotStacks, StackSet

(* The fullest, and of those the first. *)
LEMMA BestOf ==
    ASSUME NEW n \in Nat, NEW U, U \subseteq 1 .. n, U # {}, NEW f, \A i \in U : f[i] \in Nat
    PROVE  \E i \in U : \A j \in U : f[j] < f[i] \/ (f[j] = f[i] /\ i <= j)
<1> DEFINE Has(V) == \E i \in V : \A j \in V : f[j] < f[i] \/ (f[j] = f[i] /\ i <= j)
           P == {m \in Nat : \A V : V \subseteq U /\ V \subseteq 1 .. m /\ V # {} => Has(V)}
<1>1. 0 \in P
  OBVIOUS
<1>2. ASSUME NEW m \in P PROVE m + 1 \in P
  <2> SUFFICES ASSUME NEW V, V \subseteq U, V \subseteq 1 .. m + 1, V # {} PROVE Has(V)
    OBVIOUS
  <2>1. CASE m + 1 \notin V
    <3>1. V \subseteq 1 .. m
      BY <2>1
    <3> QED BY <3>1
  <2>2. CASE V \ {m + 1} = {}
    <3>1. V = {m + 1} /\ f[m + 1] \in Nat
      BY <2>2
    <3> QED BY <3>1
  <2>3. CASE m + 1 \in V /\ V \ {m + 1} # {}
    <3>1. V \ {m + 1} \subseteq 1 .. m /\ V \ {m + 1} \subseteq U
      OBVIOUS
    <3>2. PICK i \in V \ {m + 1} : \A j \in V \ {m + 1} : f[j] < f[i] \/ (f[j] = f[i] /\ i <= j)
      BY <2>3, <3>1
    <3>3. f[m + 1] \in Nat /\ f[i] \in Nat /\ i \in 1 .. m /\ \A j \in V : f[j] \in Nat
      BY <2>3, <3>1
    <3>4. CASE f[m + 1] > f[i]
      <4>1. \A j \in V : f[j] < f[m + 1] \/ (f[j] = f[m + 1] /\ m + 1 <= j)
        BY <3>2, <3>3, <3>4
      <4> QED BY <2>3, <4>1
    <3>5. CASE ~(f[m + 1] > f[i])
      <4>1. \A j \in V : f[j] < f[i] \/ (f[j] = f[i] /\ i <= j)
        BY <3>2, <3>3, <3>5
      <4> QED BY <4>1
    <3> QED BY <3>4, <3>5
  <2> QED BY <2>1, <2>2, <2>3
<1>3. P = Nat
  <2> HIDE DEF P
  <2> QED BY <1>1, <1>2, SetInduction, P \in SUBSET Nat DEF P
<1> QED BY <1>3

LEMMA BestIs ==
    ASSUME NEW K, NEW w \in WorldOf(K), Usable(w) # {}
    PROVE  /\ Best(w) \in Usable(w) /\ InPockets(w, Best(w)) /\ At(w, Best(w)) \in StacksOf(K)
           /\ \A j \in Usable(w) : \/ Loaded(At(w, j)) < Loaded(At(w, Best(w)))
                                   \/ Loaded(At(w, j)) = Loaded(At(w, Best(w))) /\ Best(w) <= j
<1>1. PICK g \in GridSet(MagSet, Inners) : g = w.pockets
  BY DEF WorldOf, Neat
<1>2. PICK n \in Nat : DOMAIN g.items = 1 .. n
  BY <1>1, LenProperties DEF GridSet
<1>3. \A i \in DOMAIN w.pockets.items : At(w, i) \in StacksOf(K)
  BY PocketStack DEF InPockets
<1>4. PICK f : f = [i \in DOMAIN w.pockets.items |-> Loaded(At(w, i))]
  OBVIOUS
<1>5. Usable(w) \subseteq 1 .. n /\ Usable(w) \subseteq DOMAIN w.pockets.items
  BY <1>1, <1>2 DEF Usable
<1>6. \A i \in Usable(w) : f[i] \in Nat /\ f[i] = Loaded(At(w, i))
  BY <1>3, <1>4, <1>5, StackIs, MagIs
<1>7. \E i \in Usable(w) : \A j \in Usable(w) : f[j] < f[i] \/ (f[j] = f[i] /\ i <= j)
  BY <1>5, <1>6, BestOf
<1>8. \E i \in Usable(w) : \A j \in Usable(w) :
        Loaded(At(w, j)) < Loaded(At(w, i)) \/ (Loaded(At(w, j)) = Loaded(At(w, i)) /\ i <= j)
  BY <1>6, <1>7, Zenon
<1>9. /\ Best(w) \in Usable(w)
      /\ \A j \in Usable(w) : \/ Loaded(At(w, j)) < Loaded(At(w, Best(w)))
                              \/ Loaded(At(w, j)) = Loaded(At(w, Best(w))) /\ Best(w) <= j
  BY <1>8, Zenon DEF Best
<1>10. Best(w) \in DOMAIN w.pockets.items
  BY <1>5, <1>9
<1> QED BY <1>3, <1>9, <1>10 DEF InPockets

(* A magazine with its state written out is as sound as it was. *)
LEMMA WrittenOut ==
    ASSUME NEW g, NEW s \in StacksOf(Kind(g)), s.id \in Magazines, NEW new, new = [s EXCEPT !.mag = <<State(s)>>]
    PROVE  /\ new \in StacksOf(Kind(g)) /\ new \in StacksOf(All)
           /\ new.id = s.id /\ Loaded(new) = Loaded(s)
<1>1. s \in SlotStacks /\ s.mag \in MagSet /\ <<s.id, s.mag>> \in Kind(g)
  BY StackIs DEF StacksOf
<1>2. State(s) \in [rounds : Nat, variant : Rounds \cup {NoRound}]
  BY <1>1, MagIs
<1>3. <<State(s)>> \in MagSet /\ <<State(s)>> # <<>> /\ <<State(s)>>[1] = State(s)
  BY <1>2, OptionOf DEF MagSet
<1>4. new \in SlotStacks /\ new.id = s.id /\ new.mag = <<State(s)>>
  BY <1>1, <1>3 DEF SlotStacks
<1>5. State(new) = State(s)
  BY <1>3, <1>4 DEF State
<1>6. Loaded(new) = Loaded(s)
  BY <1>5 DEF Loaded
<1>7. <<s.id, <<State(s)>>>> \in All
  BY <1>1, <1>3 DEF All, SlotStacks
<1>8. <<s.id, s.mag>> \in Fine => <<s.id, <<State(s)>>>> \in Fine
  <2> SUFFICES ASSUME <<s.id, s.mag>> \in Fine PROVE <<s.id, <<State(s)>>>> \in Fine
    OBVIOUS
  <2>1. PICK o, m : o = [id |-> s.id, mag |-> s.mag] /\ m = [id |-> s.id, mag |-> <<State(s)>>]
    OBVIOUS
  <2>2. SoundStack(o)
    BY <2>1 DEF Fine
  <2>3. State(o) = State(s) /\ State(m) = State(s)
    BY <1>3, <2>1 DEF State
  <2>4. SoundStack(m)
    <3>1. CASE s.mag = <<>>
      <4>1. State(s) = Empty
        BY <3>1 DEF State
      <4> QED BY <2>1, <2>3, <4>1, WeaponAssumption DEF SoundStack, Loaded, Empty
    <3>2. CASE s.mag # <<>>
      BY <2>1, <2>2, <2>3, <3>2 DEF SoundStack, Loaded
    <3> QED BY <3>1, <3>2
  <2> QED BY <1>7, <2>1, <2>4 DEF Fine
<1>9. <<new.id, new.mag>> \in Kind(g)
  <2>1. Kind(g) = All \/ Kind(g) = Fine
    BY DEF Kind
  <2> QED BY <1>1, <1>4, <1>7, <1>8, <2>1
<1>10. new \in StacksOf(Kind(g)) /\ new \in StacksOf(All)
  BY <1>4, <1>7, <1>9 DEF StacksOf
<1> QED BY <1>4, <1>6, <1>10

(* The magazine taken is the first like it, and so the one a replay takes. *)
LEMMA BestIsFirstLike ==
    ASSUME NEW K, NEW w \in WorldOf(K), Usable(w) # {}, NEW new,
           new.id = At(w, Best(w)).id, Loaded(new) = Loaded(At(w, Best(w)))
    PROVE  FirstLike(w, new) # {} /\ (CHOOSE i \in FirstLike(w, new) : TRUE) = Best(w)
<1> DEFINE like == {i \in DOMAIN w.pockets.items : At(w, i).id = new.id /\ Loaded(At(w, i)) = Loaded(new)}
<1>1. /\ Best(w) \in Usable(w) /\ InPockets(w, Best(w)) /\ At(w, Best(w)) \in StacksOf(K)
      /\ \A j \in Usable(w) : \/ Loaded(At(w, j)) < Loaded(At(w, Best(w)))
                              \/ Loaded(At(w, j)) = Loaded(At(w, Best(w))) /\ Best(w) <= j
  BY BestIs
<1>2. Best(w) \in like
  BY <1>1 DEF InPockets
<1>3. like \subseteq Usable(w)
  BY <1>1 DEF Usable
<1>4. Loaded(At(w, Best(w))) \in Nat
  BY <1>1, StackIs, MagIs
<1>5. \A j \in like : Best(w) <= j
  BY <1>1, <1>3, <1>4
<1>6. DOMAIN w.pockets.items \subseteq Nat
  BY LenProperties DEF WorldOf, Neat, GridSet
<1>7. FirstLike(w, new) = {i \in like : \A j \in like : i <= j}
  BY DEF FirstLike
<1>8. like \subseteq Nat
  BY <1>6
<1> HIDE DEF like
<1>9. FirstLike(w, new) = {Best(w)}
  <2>1. ASSUME NEW i \in like, \A j \in like : i <= j PROVE i = Best(w)
    <3>1. PICK b \in Nat : b = Best(w)
      BY <1>2, <1>8
    <3>2. i \in Nat /\ i <= b /\ b <= i
      BY <1>2, <1>5, <1>8, <2>1, <3>1
    <3> QED BY <3>1, <3>2
  <2>2. Best(w) \in FirstLike(w, new)
    BY <1>2, <1>5, <1>7
  <2>3. \A i \in FirstLike(w, new) : i = Best(w)
    BY <1>7, <2>1
  <2> QED BY <2>2, <2>3
<1> QED BY <1>9

LEMMA ReloadKeeps == ASSUME IInv, ReloadWeapon PROVE IInv'
<1>1. Armed(live) /\ Usable(live) # {}
  BY DEF ReloadWeapon
<1>2. PICK k : k = Best(live)
  OBVIOUS
<1>3. PICK pulled : pulled = At(live, k)
  OBVIOUS
<1>4. PICK new : new = [pulled EXCEPT !.mag = <<State(pulled)>>]
  OBVIOUS
<1>5. live \in WorldOf(Kind(gaps)) /\ live \in WorldOf(All)
  BY LiveIs, AllOfKept
<1>6. InPockets(live, k) /\ pulled \in StacksOf(Kind(gaps)) /\ pulled.id \in Magazines
  <2>1. Best(live) \in Usable(live) /\ InPockets(live, Best(live)) /\ At(live, Best(live)) \in StacksOf(Kind(gaps))
    BY <1>1, <1>5, BestIs
  <2> QED BY <1>2, <1>3, <2>1 DEF Usable
<1>7. new \in StacksOf(Kind(gaps)) /\ new \in StacksOf(All) /\ new.id = pulled.id /\ Loaded(new) = Loaded(pulled)
  BY <1>4, <1>6, WrittenOut
<1>8. PICK u : u = Unpocket(live, k)
  OBVIOUS
<1>9. u \in WorldOf(Kind(gaps)) /\ u.gun = live.gun /\ u.shots = live.shots /\ Armed(u)
  BY <1>1, <1>5, <1>6, <1>8, UnpocketKeeps DEF Unpocket, WorldOf, Armed
<1>10. PICK w : w = WithMag(u, <<new>>)
  OBVIOUS
<1>11. w \in WorldOf(Kind(gaps))
  <2>1. <<new>> \in Option(StacksOf(Kind(gaps)))
    BY <1>7, OptionOf
  <2> QED BY <1>9, <1>10, <2>1, WithMagKeeps
<1>12. PICK ejected : ejected = live.gun[1].mag
  OBVIOUS
<1>13. ejected \in Option(StacksOf(Kind(gaps))) /\ ejected \in Option(StacksOf(All))
  BY <1>1, <1>5, <1>12, ArmIs
<1>14. PICK d : d = [kind |-> "WeaponReloaded", mag |-> new, ejected |-> ejected]
  OBVIOUS
<1>15. d \in RecordSet
  BY <1>7, <1>13, <1>14 DEF RecordSet
<1>16. IF ejected = <<>> THEN Do(w, <<d>>, {})
       ELSE IF Fits(w, ejected[1].id) THEN Do(PlaceMag(w, ejected[1]), <<d>>, {})
       ELSE Do(w, <<>>, {"evicted"})
  BY <1>2, <1>3, <1>4, <1>8, <1>10, <1>12, <1>14 DEF ReloadWeapon
<1>17. PICK z : z = IF ejected # <<>> /\ Fits(w, ejected[1].id) THEN PlaceMag(w, ejected[1]) ELSE w
  OBVIOUS
<1>18. z \in WorldOf(Kind(gaps))
  BY <1>11, <1>13, <1>17, TakesBack
<1>19. ASSUME NEW v \in WorldOf(All), Same(v, live)
       PROVE  Same(Apply(v, d), z) /\ (v.shots = live.shots => Apply(v, d).shots = z.shots)
  <2>1. Apply(v, d) = ApplyReloaded(v, d)
    BY <1>14, <1>15, ApplyIs
  <2>2. FirstLike(v, new) # {} /\ (CHOOSE i \in FirstLike(v, new) : TRUE) = k
    <3>1. FirstLike(live, new) # {} /\ (CHOOSE i \in FirstLike(live, new) : TRUE) = k
      BY <1>1, <1>2, <1>3, <1>5, <1>7, BestIsFirstLike
    <3>2. FirstLike(v, new) = FirstLike(live, new)
      BY <1>19 DEF FirstLike, At, Same
    <3> QED BY <3>1, <3>2
  <2>3. PICK vu : vu = Unpocket(v, k)
    OBVIOUS
  <2>4. Same(vu, u) /\ vu.shots = v.shots /\ Armed(vu)
    BY <1>5, <1>8, <1>9, <1>19, <2>3 DEF Same, Unpocket, WorldOf, Armed
  <2>5. PICK vw : vw = WithMag(vu, <<new>>)
    OBVIOUS
  <2>6. Same(vw, w) /\ vw.shots = v.shots /\ w.shots = live.shots
    <3>1. vu \in WorldOf(All)
      BY <1>6, <1>19, <2>3, UnpocketKeeps DEF InPockets, Same
    <3> QED BY <1>9, <1>10, <2>4, <2>5, <3>1 DEF WithMag, Same, WorldOf
  <2>7. Apply(v, d) = IF ejected # <<>> /\ Fits(vw, ejected[1].id) THEN PlaceMag(vw, ejected[1]) ELSE vw
    BY <1>14, <2>1, <2>2, <2>3, <2>4, <2>5 DEF ApplyReloaded
  <2>8. vw \in WorldOf(All)
    <3>1. vu \in WorldOf(All)
      BY <1>6, <1>19, <2>3, UnpocketKeeps DEF InPockets, Same
    <3>2. <<new>> \in Option(StacksOf(All))
      BY <1>7, OptionOf
    <3> QED BY <2>4, <2>5, <3>1, <3>2, WithMagKeeps
  <2> QED BY <1>11, <1>17, <2>6, <2>7, <2>8 DEF Same, PlaceMag, Fits, WorldOf
<1>20. CASE ejected = <<>> \/ Fits(w, ejected[1].id)
  <2>1. Do(z, <<d>>, {})
    BY <1>16, <1>17, <1>20
  <2>2. <<d>> \in Seq(RecordSet) /\ Replays(live, <<d>>, z, {})
    BY <1>15, <1>19, OneRecord
  <2> QED BY <1>18, <2>1, <2>2, SameKind, DoKeeps
<1>21. CASE ~(ejected = <<>> \/ Fits(w, ejected[1].id))
  <2>1. Do(w, <<>>, {"evicted"})
    BY <1>16, <1>21
  <2>2. <<>> \in Seq(RecordSet) /\ Replays(live, <<>>, w, {"evicted"})
    BY NoRecord DEF Spoils
  <2>3. w \in WorldOf(Kind(gaps \cup {"evicted"}))
    BY <1>11, SameKind
  <2> QED BY <2>1, <2>2, <2>3, DoKeeps
<1> QED BY <1>20, <1>21

LEMMA EjectKeeps == ASSUME IInv, EjectMagazine PROVE IInv'
<1>1. Armed(live)
  BY DEF EjectMagazine
<1>2. live \in WorldOf(Kind(gaps)) /\ live \in WorldOf(All)
  BY LiveIs, AllOfKept
<1>3. PICK w : w = WithMag(live, <<>>)
  OBVIOUS
<1>4. w \in WorldOf(Kind(gaps))
  BY <1>1, <1>2, <1>3, OptionOf, WithMagKeeps
<1>5. PICK ejected : ejected = live.gun[1].mag
  OBVIOUS
<1>6. ejected \in Option(StacksOf(Kind(gaps))) /\ ejected \in Option(StacksOf(All))
  BY <1>1, <1>2, <1>5, ArmIs
<1>7. PICK d : d = [kind |-> "WeaponMagazineEjected", ejected |-> ejected]
  OBVIOUS
<1>8. d \in RecordSet
  BY <1>6, <1>7 DEF RecordSet
<1>9. IF ejected = <<>> THEN Do(w, <<d>>, {})
      ELSE IF Fits(w, ejected[1].id) THEN Do(PlaceMag(w, ejected[1]), <<d>>, {})
      ELSE Do(w, <<>>, {"evicted"})
  BY <1>3, <1>5, <1>7 DEF EjectMagazine
<1>10. PICK z : z = IF ejected # <<>> /\ Fits(w, ejected[1].id) THEN PlaceMag(w, ejected[1]) ELSE w
  OBVIOUS
<1>11. z \in WorldOf(Kind(gaps))
  BY <1>4, <1>6, <1>10, TakesBack
<1>12. ASSUME NEW v \in WorldOf(All), Same(v, live)
       PROVE  Same(Apply(v, d), z) /\ (v.shots = live.shots => Apply(v, d).shots = z.shots)
  <2>1. Apply(v, d) = ApplyEjected(v, d) /\ Armed(v)
    BY <1>1, <1>7, <1>8, <1>12, ApplyIs DEF Armed, Same
  <2>2. PICK vw : vw = WithMag(v, <<>>)
    OBVIOUS
  <2>3. vw \in WorldOf(All)
    BY <2>1, <2>2, OptionOf, WithMagKeeps
  <2>4. Same(vw, w) /\ vw.shots = v.shots /\ w.shots = live.shots
    BY <1>2, <1>3, <1>12, <2>2 DEF WithMag, Same, WorldOf
  <2>5. Apply(v, d) = IF ejected # <<>> /\ Fits(vw, ejected[1].id) THEN PlaceMag(vw, ejected[1]) ELSE vw
    BY <1>7, <2>1, <2>2 DEF ApplyEjected
  <2> QED BY <1>4, <1>10, <2>3, <2>4, <2>5 DEF Same, PlaceMag, Fits, WorldOf
<1>13. CASE ejected = <<>> \/ Fits(w, ejected[1].id)
  <2>1. Do(z, <<d>>, {})
    BY <1>9, <1>10, <1>13
  <2>2. <<d>> \in Seq(RecordSet) /\ Replays(live, <<d>>, z, {})
    BY <1>8, <1>12, OneRecord
  <2> QED BY <1>11, <2>1, <2>2, SameKind, DoKeeps
<1>14. CASE ~(ejected = <<>> \/ Fits(w, ejected[1].id))
  <2>1. Do(w, <<>>, {"evicted"})
    BY <1>9, <1>14
  <2>2. <<>> \in Seq(RecordSet) /\ Replays(live, <<>>, w, {"evicted"})
    BY NoRecord DEF Spoils
  <2>3. w \in WorldOf(Kind(gaps \cup {"evicted"}))
    BY <1>4, SameKind
  <2> QED BY <2>1, <2>2, <2>3, DoKeeps
<1> QED BY <1>13, <1>14

(* What a load puts into a magazine fits. *)
LEMMA LoadFits ==
    ASSUME NEW g, NEW s \in StacksOf(Kind(g)), NEW round \in Rounds, MayLoad(s, round),
           NEW n \in Nat, n <= Room(s), n > 0, NEW total, total = Loaded(s) + n
    PROVE  /\ total \in Nat /\ Holding(total, round) \in MagSet
           /\ <<s.id, Holding(total, round)>> \in Kind(g)
<1>1. Loaded(s) \in Nat /\ s.id \in ItemIds
  BY StackIs, MagIs
<1>2. total \in Nat
  BY <1>1
<1>3. PICK m \in MagSet : m = Holding(total, round) /\ m # <<>> /\ m[1] = [rounds |-> total, variant |-> round]
  BY <1>2, HoldingIs
<1>4. s.id \in Magazines /\ Def[s.id].capacity \in Nat
  BY WeaponAssumption DEF MayLoad
<1>5. total <= Def[s.id].capacity
  BY <1>1, <1>4 DEF Room
<1>6. PICK o : o = [id |-> s.id, mag |-> m]
  OBVIOUS
<1>7. State(o) = [rounds |-> total, variant |-> round]
  BY <1>3, <1>6 DEF State
<1>8. SoundStack(o)
  BY <1>4, <1>5, <1>6, <1>7 DEF SoundStack, Loaded
<1>9. <<s.id, m>> \in All
  BY <1>1 DEF All
<1>10. <<s.id, m>> \in Fine
  BY <1>6, <1>8, <1>9 DEF Fine
<1> QED BY <1>2, <1>3, <1>9, <1>10 DEF Kind

LEMMA AvailableIs ==
    ASSUME NEW K, NEW w \in WorldOf(K), NEW s \in StacksOf(K), s.id \in Magazines, NEW round
    PROVE  /\ Room(s) \in Nat /\ Available(w, s, round) \in Nat /\ Available(w, s, round) <= Room(s)
           /\ \A v : v.pockets = w.pockets =>
                 Consume(v, round, Available(w, s, round)) = Consume(v, round, Room(s))
<1>1. PICK need \in Nat : need = Room(s)
  <2>1. Loaded(s) \in Nat /\ Def[s.id].capacity \in Nat
    BY WeaponAssumption, StackIs, MagIs
  <2> QED BY <2>1 DEF Room
<1>2. PICK g \in Neat(MagSet, Inners, Wide(K)) : g = w.pockets
  BY DEF WorldOf
<1>3. PICK taken : taken = ConsumeFromGrid(g, round, need).taken
  OBVIOUS
<1>4. taken \in Nat /\ taken <= need
  BY <1>3, ConsumeKeepsTidy
<1>5. ConsumeFromGrid(g, round, taken).grid = ConsumeFromGrid(g, round, need).grid
  BY <1>3, ConsumeAgain
<1>6. Available(w, s, round) = taken
  BY <1>1, <1>2, <1>3 DEF Available
<1>7. ASSUME NEW v, v.pockets = w.pockets PROVE Consume(v, round, taken) = Consume(v, round, need)
  BY <1>2, <1>5, <1>7 DEF Consume
<1> QED BY <1>1, <1>4, <1>6, <1>7

LEMMA LoadRoundsKeeps == ASSUME IInv, NEW round \in Rounds, LoadRoundsIntoMag(round) PROVE IInv'
<1>1. live \in WorldOf(Kind(gaps)) /\ live \in WorldOf(All)
  BY LiveIs, AllOfKept
<1>2. HasMag(live)
  BY DEF LoadRoundsIntoMag
<1>3. PICK stack : stack = live.gun[1].mag[1]
  OBVIOUS
<1>4. stack \in StacksOf(Kind(gaps))
  BY <1>1, <1>2, <1>3, HasMagIs
<1>5. PICK n, need : n = Available(live, stack, round) /\ need = Room(stack)
  OBVIOUS
<1>6. PICK total : total = Loaded(stack) + n
  OBVIOUS
<1>7. PICK d : d = [kind |-> "MagazineLoaded", round |-> round, added |-> n, total |-> total]
  OBVIOUS
<1>8. PICK u : u = Consume(live, round, need)
  OBVIOUS
<1>9. PICK m : m = Holding(total, round)
  OBVIOUS
<1>10. PICK w : w = [u EXCEPT !.gun[1].mag[1].mag = m]
  OBVIOUS
<1>11. MayLoad(stack, round) /\ n > 0 /\ Do(w, <<d>>, {})
  BY <1>3, <1>5, <1>6, <1>7, <1>8, <1>9, <1>10 DEF LoadRoundsIntoMag
<1>12. /\ need \in Nat /\ n \in Nat /\ n <= need
       /\ \A v : v.pockets = live.pockets => Consume(v, round, n) = Consume(v, round, need)
  BY <1>1, <1>4, <1>5, <1>11, AvailableIs DEF MayLoad
<1>13. total \in Nat /\ m \in MagSet /\ <<stack.id, m>> \in Kind(gaps)
  BY <1>4, <1>5, <1>6, <1>9, <1>11, <1>12, LoadFits
<1>14. d \in RecordSet
  BY <1>7, <1>12, <1>13 DEF RecordSet
<1>15. u \in WorldOf(Kind(gaps)) /\ u.gun = live.gun /\ u.shots = live.shots /\ HasMag(u)
  BY <1>1, <1>2, <1>8, <1>12, ConsumeKeeps DEF Consume, WorldOf, HasMag
<1>16. w \in WorldOf(Kind(gaps))
  BY <1>3, <1>10, <1>13, <1>15, HoldKeeps
<1>17. ASSUME NEW v \in WorldOf(All), Same(v, live)
       PROVE  Same(Apply(v, d), w) /\ (v.shots = live.shots => Apply(v, d).shots = w.shots)
  <2>1. Apply(v, d) = ApplyMagazineLoaded(v, d)
    BY <1>7, <1>14, ApplyIs
  <2>2. PICK vu : vu = Consume(v, round, need)
    OBVIOUS
  <2>3. vu = Consume(v, round, n)
    BY <1>12, <1>17, <2>2 DEF Same
  <2>4. Same(vu, u) /\ vu.shots = v.shots /\ HasMag(vu) /\ vu \in WorldOf(All)
    <3>1. Same(vu, u) /\ vu.shots = v.shots
      BY <1>1, <1>8, <1>17, <2>2 DEF Consume, Same, WorldOf
    <3>2. vu \in WorldOf(All)
      BY <1>12, <2>2, ConsumeKeeps
    <3> QED BY <1>15, <3>1, <3>2 DEF HasMag, Same
  <2>5. Apply(v, d) = [vu EXCEPT !.gun[1].mag[1].mag = m]
    BY <1>7, <1>9, <2>1, <2>3, <2>4 DEF ApplyMagazineLoaded
  <2> QED BY <1>10, <1>15, <2>4, <2>5 DEF Same, WorldOf
<1>18. <<d>> \in Seq(RecordSet) /\ Replays(live, <<d>>, w, {})
  BY <1>14, <1>17, OneRecord
<1> QED BY <1>11, <1>16, <1>18, SameKind, DoKeeps

LEMMA LoadPocketKeeps ==
    ASSUME IInv, NEW i \in Nat, NEW round \in Rounds, LoadRoundsIntoPocketMag(i, round)
    PROVE  IInv'
<1>1. live \in WorldOf(Kind(gaps)) /\ live \in WorldOf(All)
  BY LiveIs, AllOfKept
<1>2. InPockets(live, i) /\ MayLoad(At(live, i), round)
  BY DEF LoadRoundsIntoPocketMag
<1>3. PICK stack : stack = At(live, i)
  OBVIOUS
<1>4. stack \in StacksOf(Kind(gaps))
  BY <1>1, <1>2, <1>3, PocketStack
<1>5. PICK n, need : n = Available(live, stack, round) /\ need = Room(stack)
  OBVIOUS
<1>6. PICK total : total = Loaded(stack) + n
  OBVIOUS
<1>7. PICK d : d = [kind |-> "PocketMagazineLoaded", idx |-> i, round |-> round, added |-> n, total |-> total]
  OBVIOUS
<1>8. PICK u : u = Consume(live, round, need)
  OBVIOUS
<1>9. PICK m : m = Holding(total, round)
  OBVIOUS
<1>10. PICK w : w = [u EXCEPT !.pockets.items[i].stack.mag = m]
  OBVIOUS
<1>11. PICK odd : odd = IF u.pockets.items[i] # live.pockets.items[i] THEN {"misfilled"} ELSE {}
  OBVIOUS
<1>12. n > 0 /\ IF InPockets(u, i) THEN Do(w, <<d>>, odd) ELSE Do(u, <<>>, {"misfilled", "unwritten"})
  BY <1>3, <1>5, <1>6, <1>7, <1>8, <1>9, <1>10, <1>11 DEF LoadRoundsIntoPocketMag
<1>13. /\ need \in Nat /\ n \in Nat /\ n <= need
       /\ \A v : v.pockets = live.pockets => Consume(v, round, n) = Consume(v, round, need)
  BY <1>1, <1>2, <1>3, <1>4, <1>5, AvailableIs DEF MayLoad
<1>14. total \in Nat /\ m \in MagSet /\ <<stack.id, m>> \in Kind(gaps)
  BY <1>2, <1>3, <1>4, <1>5, <1>6, <1>9, <1>12, <1>13, LoadFits
<1>15. d \in RecordSet
  BY <1>7, <1>13, <1>14 DEF RecordSet
<1>16. u \in WorldOf(Kind(gaps)) /\ u \in WorldOf(All) /\ u.gun = live.gun /\ u.shots = live.shots
  BY <1>1, <1>8, <1>13, ConsumeKeeps DEF Consume, WorldOf
<1>17. CASE ~InPockets(u, i)
  <2>1. Do(u, <<>>, {"misfilled", "unwritten"})
    BY <1>12, <1>17
  <2>2. <<>> \in Seq(RecordSet) /\ Replays(live, <<>>, u, {"misfilled", "unwritten"})
    BY NoRecord DEF Spoils
  <2>3. u \in WorldOf(Kind(gaps \cup {"misfilled", "unwritten"}))
    BY <1>16 DEF Kind
  <2> QED BY <2>1, <2>2, <2>3, DoKeeps
<1>18. CASE InPockets(u, i)
  <2>1. Do(w, <<d>>, odd)
    BY <1>12, <1>18
  <2>2. w \in WorldOf(Kind(gaps \cup odd))
    <3>1. CASE u.pockets.items[i] # live.pockets.items[i]
      <4>1. Kind(gaps \cup odd) = All
        BY <1>11, <3>1 DEF Kind
      <4>2. At(u, i).id \in ItemIds
        BY <1>16, <1>18, PocketStack, StackIs
      <4>3. <<At(u, i).id, m>> \in All
        BY <1>14, <4>2 DEF All
      <4> QED BY <1>10, <1>14, <1>16, <1>18, <4>1, <4>3, RefillKeeps
    <3>2. CASE u.pockets.items[i] = live.pockets.items[i]
      <4>1. Kind(gaps \cup odd) = Kind(gaps)
        BY <1>11, <3>2
      <4>2. <<At(u, i).id, m>> \in Kind(gaps)
        BY <1>3, <1>14, <3>2 DEF At
      <4> QED BY <1>10, <1>14, <1>16, <1>18, <4>1, <4>2, RefillKeeps
    <3> QED BY <3>1, <3>2
  <2>3. ASSUME NEW v \in WorldOf(All), Same(v, live)
        PROVE  Same(Apply(v, d), w) /\ (v.shots = live.shots => Apply(v, d).shots = w.shots)
    <3>1. Apply(v, d) = ApplyPocketLoaded(v, d)
      BY <1>7, <1>15, ApplyIs
    <3>2. PICK vu : vu = Consume(v, round, need)
      OBVIOUS
    <3>3. vu = Consume(v, round, n)
      BY <1>13, <2>3, <3>2 DEF Same
    <3>4. Same(vu, u) /\ vu.shots = v.shots
      BY <1>1, <1>8, <2>3, <3>2 DEF Consume, Same, WorldOf
    <3>5. vu \in WorldOf(All) /\ InPockets(vu, i)
      BY <1>13, <1>18, <3>2, <3>4, ConsumeKeeps DEF InPockets, Same
    <3>6. Apply(v, d) = [vu EXCEPT !.pockets.items[i].stack.mag = m]
      BY <1>7, <1>9, <3>1, <3>3, <3>5 DEF ApplyPocketLoaded
    <3> QED BY <1>10, <1>16, <3>4, <3>5, <3>6 DEF Same, WorldOf
  <2>4. <<d>> \in Seq(RecordSet) /\ Replays(live, <<d>>, w, odd)
    BY <1>15, <2>3, OneRecord
  <2>5. "unwritten" \notin odd
    BY <1>11
  <2> QED BY <2>1, <2>2, <2>4, <2>5, DoKeeps
<1> QED BY <1>17, <1>18

LEMMA JamKeeps ==
    ASSUME IInv, ClearWeaponJam \/ FireJams
    PROVE  IInv'
<1>a. PICK b \in BOOLEAN :
        /\ Armed(live)
        /\ Do([live EXCEPT !.gun[1].jammed = b],
              <<[kind |-> IF b THEN "WeaponJammed" ELSE "WeaponJamCleared"]>>, {})
  BY DEF ClearWeaponJam, FireJams
<1>1. PICK d : /\ d = [kind |-> IF b THEN "WeaponJammed" ELSE "WeaponJamCleared"]
               /\ Armed(live) /\ Do([live EXCEPT !.gun[1].jammed = b], <<d>>, {})
  BY <1>a
<1>2. PICK w : w = [live EXCEPT !.gun[1].jammed = b]
  OBVIOUS
<1>3. live \in WorldOf(Kind(gaps))
  BY LiveIs
<1>4. \A v \in WorldOf(All) : Apply(v, d) = IF Armed(v) THEN [v EXCEPT !.gun[1].jammed = b] ELSE v
  <2>1. d \in RecordSet
    BY <1>1 DEF RecordSet
  <2>2. \A v : b => Apply(v, d) = ApplyJammed(v, d)
    BY <1>1, <2>1, ApplyIs
  <2>3. \A v : ~b => Apply(v, d) = ApplyJamCleared(v, d)
    BY <1>1, <2>1, ApplyIs
  <2>4. b = TRUE \/ b = FALSE
    OBVIOUS
  <2> QED BY <2>2, <2>3, <2>4 DEF ApplyJammed, ApplyJamCleared
<1>5. d \in RecordSet
  BY <1>1 DEF RecordSet
<1>6. w \in WorldOf(Kind(gaps))
  <2>1. PICK e : e = [kind |-> "WeaponJammed"]
    OBVIOUS
  <2>2. ApplyJammed(live, e) \in WorldOf(Kind(gaps)) /\ ApplyJamCleared(live, e) \in WorldOf(Kind(gaps))
    BY <1>3, AppliedToGun
  <2>3. b = TRUE \/ b = FALSE
    OBVIOUS
  <2> QED BY <1>1, <1>2, <2>2, <2>3 DEF ApplyJammed, ApplyJamCleared
<1>7. ASSUME NEW v \in WorldOf(All), Same(v, live)
      PROVE  Same(Apply(v, d), w) /\ (v.shots = live.shots => Apply(v, d).shots = w.shots)
  <2>1. Apply(v, d) = [v EXCEPT !.gun[1].jammed = b]
    BY <1>1, <1>4, <1>7 DEF Armed, Same
  <2> QED BY <1>2, <1>3, <1>7, <2>1 DEF Same, WorldOf
<1>8. <<d>> \in Seq(RecordSet) /\ Replays(live, <<d>>, w, {})
  BY <1>5, <1>7, OneRecord
<1>9. Do(w, <<d>>, {}) /\ w \in WorldOf(Kind(gaps \cup {}))
  BY <1>1, <1>2, <1>6, SameKind
<1> QED BY <1>8, <1>9, DoKeeps

LEMMA ImpactKeeps == ASSUME IInv, NEW shot \in live.shots, ProjectileImpact(shot) PROVE IInv'
<1>1. live \in WorldOf(Kind(gaps))
  BY LiveIs
<1>2. PICK d : d = [kind |-> "ProjectileImpacted", shot |-> shot]
  OBVIOUS
<1>3. d.shot \in Nat /\ d \in RecordSet
  BY <1>1, <1>2 DEF WorldOf, RecordSet
<1>4. PICK w : w = ApplyImpacted(live, d)
  OBVIOUS
<1>5. Do(w, <<d>>, {})
  BY <1>2, <1>4 DEF ProjectileImpact, ApplyImpacted
<1>6. w \in WorldOf(Kind(gaps \cup {}))
  BY <1>1, <1>3, <1>4, SameKind, AppliedShots
<1>7. ASSUME NEW v \in WorldOf(All), Same(v, live)
      PROVE  Same(Apply(v, d), w) /\ (v.shots = live.shots => Apply(v, d).shots = w.shots)
  <2>1. Apply(v, d) = ApplyImpacted(v, d)
    BY <1>2, <1>3, ApplyIs
  <2> QED BY <1>1, <1>4, <1>7, <2>1 DEF ApplyImpacted, Same, WorldOf
<1>8. <<d>> \in Seq(RecordSet) /\ Replays(live, <<d>>, w, {})
  BY <1>3, <1>7, OneRecord
<1> QED BY <1>5, <1>6, <1>8, DoKeeps

LEMMA LaunchIs ==
    ASSUME NEW K, NEW w \in WorldOf(K)
    PROVE  /\ Launch(w) \in WorldOf(K) /\ Same(Launch(w), w)
           /\ Launch(w).shots = w.shots \cup {w.lastShot + 1}
           /\ w.lastShot + 1 \in Nat
<1>1. PICK n \in Nat : n = w.lastShot + 1
  BY DEF WorldOf
<1>2. PICK z : z = [w EXCEPT !.lastShot = n, !.shots = w.shots \cup {n}]
  OBVIOUS
<1>3. z \in WorldOf(K) /\ Same(z, w) /\ z.shots = w.shots \cup {n}
  BY <1>2 DEF WorldOf, Same
<1>4. Launch(w) = z
  BY <1>1, <1>2 DEF Launch
<1> QED BY <1>1, <1>3, <1>4

LEMMA NpcFireKeeps == ASSUME IInv, NpcFireProjectile PROVE IInv'
<1>1. live \in WorldOf(Kind(gaps))
  BY LiveIs
<1>2. PICK d : d = SpawnLog(live.lastShot + 1, TRUE)
  OBVIOUS
<1>3. d.kind = "ProjectileSpawned" /\ d.npc /\ d \in RecordSet
  BY <1>1, <1>2, LaunchIs DEF SpawnLog, RecordSet
<1>4. PICK odd : odd = {"npc"} \cup Reused
  OBVIOUS
<1>5. Do(Launch(live), <<d>>, odd)
  BY <1>2, <1>4 DEF NpcFireProjectile
<1>6. odd \subseteq {"npc", "reused"} /\ "npc" \in odd
  BY <1>4 DEF Reused
<1>7. Launch(live) \in WorldOf(Kind(gaps \cup odd))
  BY <1>1, <1>6, LaunchIs, SameKind
<1>8. \A v : F!Fold(v, <<d>>) = v
  <2>1. \A v : Apply(v, d) = v
    BY <1>3, ApplyIs DEF ApplySpawned
  <2> QED BY <2>1, F!FoldOne
<1>9. <<d>> \in Seq(RecordSet) /\ Replays(live, <<d>>, Launch(live), odd)
  BY <1>1, <1>3, <1>6, <1>8, LaunchIs DEF Replays, Same
<1> QED BY <1>5, <1>6, <1>7, <1>9, DoKeeps

LEMMA TwoRecords ==
    ASSUME NEW v, NEW d \in RecordSet, NEW e \in RecordSet
    PROVE  <<d, e>> \in Seq(RecordSet) /\ F!Fold(v, <<d, e>>) = Apply(Apply(v, d), e)
<1>1. PICK q : q = <<d>>
  OBVIOUS
<1>2. q \in Seq(RecordSet) /\ <<d, e>> = Append(q, e)
  BY <1>1
<1>3. F!Fold(v, q) = Apply(v, d)
  BY <1>1, F!FoldOne
<1>4. F!Fold(v, Append(q, e)) = Apply(F!Fold(v, q), e)
  BY <1>2, F!FoldAppend
<1>5. <<d, e>> \in Seq(RecordSet)
  OBVIOUS
<1> QED BY <1>2, <1>3, <1>4, <1>5

LEMMA TwoLogs ==
    ASSUME NEW v, NEW p \in Seq(RecordSet), NEW q \in Seq(RecordSet)
    PROVE  F!Fold(v, p \o q) = F!Fold(F!Fold(v, p), q)
  BY F!FoldConcat

(* A shot is up to three records, one after the other. *)
LEMMA FireKeeps == ASSUME IInv, FireWeapon PROVE IInv'
<1>1. live \in WorldOf(Kind(gaps)) /\ HasMag(live) /\ Armed(live)
  BY LiveIs, HasMagIs DEF FireWeapon
<1>2. PICK gun : gun = live.gun[1]
  OBVIOUS
<1>3. PICK stack : stack = gun.mag[1]
  OBVIOUS
<1>4. gun \in ArmOf(Kind(gaps)) /\ stack \in StacksOf(Kind(gaps)) /\ gun.mag = <<stack>> /\ live.gun = <<gun>>
  <2>1. live.gun = <<live.gun[1]>> /\ live.gun[1] \in ArmOf(Kind(gaps))
    BY <1>1, ArmIs
  <2>2. live.gun[1].mag[1] \in StacksOf(Kind(gaps)) /\ live.gun[1].mag = <<live.gun[1].mag[1]>>
    BY <1>1, HasMagIs
  <2> QED BY <1>2, <1>3, <2>1, <2>2
<1>5. PICK left, cond : left = Loaded(stack) - 1 /\ cond = IF gun.cond > 0 THEN gun.cond - 1 ELSE 0
  OBVIOUS
<1>6. PICK m : m = Holding(left, State(stack).variant)
  OBVIOUS
<1>7. PICK worn : worn = IF cond = gun.cond THEN <<>>
                         ELSE <<[kind |-> "WeaponConditionChanged", cond |-> cond]>>
  OBVIOUS
<1>8. PICK f : f = [kind |-> "WeaponFired", remaining |-> left]
  OBVIOUS
<1>9. PICK p : p = SpawnLog(live.lastShot + 1, FALSE)
  OBVIOUS
<1>10. PICK s : s = [stack EXCEPT !.mag = m]
  OBVIOUS
<1>11. PICK a : a = [gun EXCEPT !.cond = cond, !.mag = <<s>>]
  OBVIOUS
<1>12. PICK w : w = [live EXCEPT !.gun = <<a>>]
  OBVIOUS
<1>13. [gun EXCEPT !.cond = cond, !.mag[1].mag = m] = a
  <2>1. [gun.mag EXCEPT ![1] = s] = <<s>>
    BY <1>4
  <2>2. [gun EXCEPT !.cond = cond, !.mag[1].mag = m] = [gun EXCEPT !.cond = cond, !.mag = [gun.mag EXCEPT ![1] = s]]
    BY <1>3, <1>4, <1>10 DEF ArmOf
  <2> QED BY <1>11, <2>1, <2>2
<1>14. /\ Loaded(stack) > 0 /\ State(stack).variant # NoRound
       /\ Do(Launch(w), worn \o <<f, p>>, Reused)
  BY <1>2, <1>3, <1>5, <1>6, <1>7, <1>8, <1>9, <1>12, <1>13 DEF FireWeapon
<1>15. /\ Loaded(stack) \in Nat /\ left \in Nat /\ cond \in Nat
       /\ State(stack).variant \in Rounds \cup {NoRound}
  <2>1. Loaded(stack) \in Nat /\ State(stack) \in [rounds : Nat, variant : Rounds \cup {NoRound}]
    BY <1>4, StackIs, MagIs
  <2>2. gun.cond \in Nat
    BY <1>4 DEF ArmOf
  <2> QED BY <1>5, <1>14, <2>1, <2>2
<1>16. m \in MagSet /\ m # <<>> /\ m[1] = [rounds |-> left, variant |-> State(stack).variant]
  BY <1>6, <1>15, HoldingIs
<1>17. s \in StacksOf(Kind(gaps))
  <2>1. s \in SlotStacks /\ s.id = stack.id /\ s.mag = m /\ stack.id \in ItemIds /\ <<stack.id, stack.mag>> \in Kind(gaps)
    BY <1>4, <1>10, <1>16 DEF StacksOf, SlotStacks
  <2>2. <<stack.id, m>> \in All
    BY <1>16, <2>1 DEF All
  <2>3. <<stack.id, stack.mag>> \in Fine => <<stack.id, m>> \in Fine
    <3> SUFFICES ASSUME <<stack.id, stack.mag>> \in Fine PROVE <<stack.id, m>> \in Fine
      OBVIOUS
    <3>1. PICK o, q : o = [id |-> stack.id, mag |-> stack.mag] /\ q = [id |-> stack.id, mag |-> m]
      OBVIOUS
    <3>2. SoundStack(o)
      BY <3>1 DEF Fine
    <3>3. State(o) = State(stack) /\ State(q) = [rounds |-> left, variant |-> State(stack).variant]
      BY <1>16, <3>1 DEF State
    <3>4. stack.mag # <<>>
      BY <1>14 DEF Loaded, State, Empty
    <3>5. Loaded(o) = Loaded(stack) /\ Loaded(q) = left
      BY <3>3 DEF Loaded
    <3>6. stack.id \in Magazines /\ Def[stack.id].capacity \in Nat /\ Loaded(stack) <= Def[stack.id].capacity
          /\ State(stack).variant \in Rounds
      BY <1>14, <3>1, <3>2, <3>3, <3>4, <3>5, WeaponAssumption DEF SoundStack
    <3>7. SoundStack(q)
      BY <1>5, <1>15, <3>1, <3>3, <3>5, <3>6 DEF SoundStack
    <3> QED BY <2>2, <3>1, <3>7 DEF Fine
  <2>4. Kind(gaps) = All \/ Kind(gaps) = Fine
    BY DEF Kind
  <2> QED BY <2>1, <2>2, <2>3, <2>4 DEF StacksOf
<1>18. a \in ArmOf(Kind(gaps)) /\ w \in WorldOf(Kind(gaps))
  <2>1. <<s>> \in Option(StacksOf(Kind(gaps)))
    BY <1>17, OptionOf
  <2>2. a \in ArmOf(Kind(gaps))
    BY <1>4, <1>11, <1>15, <2>1 DEF ArmOf
  <2>3. <<a>> \in Option(ArmOf(Kind(gaps)))
    BY <2>2, OptionOf
  <2> QED BY <1>1, <1>12, <2>2, <2>3 DEF WorldOf
<1>19. f \in RecordSet /\ p \in RecordSet /\ worn \in Seq(RecordSet) /\ <<f, p>> \in Seq(RecordSet)
  <2>1. f \in RecordSet /\ p \in RecordSet
    BY <1>1, <1>8, <1>9, <1>15, LaunchIs DEF RecordSet, SpawnLog
  <2>2. [kind |-> "WeaponConditionChanged", cond |-> cond] \in RecordSet
    BY <1>15 DEF RecordSet
  <2>3. worn \in Seq(RecordSet)
    BY <1>7, <2>2
  <2> QED BY <2>1, <2>3
<1>20. Reused \subseteq {"reused"}
  BY DEF Reused
<1>21. Launch(w) \in WorldOf(Kind(gaps \cup Reused))
  BY <1>18, <1>20, LaunchIs, SameKind
<1>22. ASSUME NEW v \in WorldOf(All), Same(v, live)
       PROVE  LET r == F!Fold(v, worn \o <<f, p>>)
              IN  Same(r, Launch(w)) /\ (v.shots = live.shots => r.shots = Launch(w).shots)
  <2>1. PICK va : va = [v EXCEPT !.gun = <<[gun EXCEPT !.cond = cond]>>]
    OBVIOUS
  <2>2. F!Fold(v, worn) = va
    <3>1. CASE cond = gun.cond
      <4>1. [gun EXCEPT !.cond = cond] = gun
        BY <1>4, <3>1 DEF ArmOf
      <4>2. va = v
        BY <1>4, <1>22, <2>1, <4>1 DEF Same, WorldOf
      <4>3. worn = <<>>
        BY <1>7, <3>1
      <4> QED BY <4>2, <4>3, F!FoldEmpty, Zenon
    <3>2. CASE cond # gun.cond
      <4>1. PICK c : c = [kind |-> "WeaponConditionChanged", cond |-> cond]
        OBVIOUS
      <4>2. c \in RecordSet
        BY <1>15, <4>1 DEF RecordSet
      <4>3. F!Fold(v, worn) = Apply(v, c)
        BY <1>7, <3>2, <4>1, F!FoldOne
      <4>4. Apply(v, c) = ApplyCondition(v, c)
        BY <4>1, <4>2, ApplyIs
      <4>5. Armed(v) /\ v.gun = <<gun>>
        BY <1>4, <1>22 DEF Same, Armed
      <4>6. [v EXCEPT !.gun[1].cond = cond] = va
        BY <2>1, <4>5 DEF WorldOf
      <4> QED BY <4>1, <4>3, <4>4, <4>5, <4>6 DEF ApplyCondition
    <3> QED BY <3>1, <3>2
  <2>3. va.gun = <<[gun EXCEPT !.cond = cond]>> /\ va.pockets = v.pockets /\ va.shots = v.shots
    BY <2>1 DEF WorldOf
  <2>4. PICK vb : vb = [va EXCEPT !.gun = <<a>>]
    OBVIOUS
  <2>5. Apply(va, f) = vb
    <3>1. Apply(va, f) = ApplyFired(va, f)
      BY <1>8, <1>19, ApplyIs
    <3>2. va.gun[1] = [gun EXCEPT !.cond = cond] /\ va.gun[1].mag = <<stack>> /\ va.gun[1].mag[1] = stack
      BY <1>4, <2>3 DEF ArmOf
    <3>3. HasMag(va)
      BY <2>3, <3>2 DEF HasMag
    <3>4. ApplyFired(va, f) = [va EXCEPT !.gun[1].mag[1].mag = m]
      BY <1>6, <1>8, <3>2, <3>3 DEF ApplyFired
    <3>5. [va.gun[1] EXCEPT !.mag[1].mag = m] = a
      <4>1. [va.gun[1] EXCEPT !.mag[1].mag = m] = [va.gun[1] EXCEPT !.mag = <<s>>]
        <5>1. PICK g : g = va.gun[1]
          OBVIOUS
        <5>2. g.mag = <<stack>>
          BY <3>2, <5>1
        <5>3. [<<stack>> EXCEPT ![1] = s] = <<s>> /\ <<stack>>[1] = stack
          OBVIOUS
        <5>4. [g EXCEPT !.mag[1].mag = m] = [g EXCEPT !.mag = [g.mag EXCEPT ![1] = [g.mag[1] EXCEPT !.mag = m]]]
          OBVIOUS
        <5>5. [g.mag EXCEPT ![1] = [g.mag[1] EXCEPT !.mag = m]] = <<s>>
          BY <1>10, <5>2, <5>3
        <5> QED BY <5>1, <5>4, <5>5
      <4>2. [[gun EXCEPT !.cond = cond] EXCEPT !.mag = <<s>>] = a
        BY <1>4, <1>11 DEF ArmOf
      <4> QED BY <3>2, <4>1, <4>2
    <3>6. [va EXCEPT !.gun[1].mag[1].mag = m] = [va EXCEPT !.gun = <<a>>]
      <4>1. [va.gun EXCEPT ![1] = a] = <<a>>
        BY <2>3
      <4>2. [va EXCEPT !.gun[1].mag[1].mag = m] = [va EXCEPT !.gun = [va.gun EXCEPT ![1] = [va.gun[1] EXCEPT !.mag[1].mag = m]]]
        OBVIOUS
      <4> QED BY <3>5, <4>1, <4>2
    <3> QED BY <2>4, <3>1, <3>4, <3>6
  <2>6. vb.gun = <<a>> /\ vb.pockets = v.pockets /\ vb.shots = v.shots
    BY <2>1, <2>3, <2>4 DEF WorldOf
  <2>7. Apply(vb, p) = [vb EXCEPT !.shots = @ \cup {live.lastShot + 1}]
    <3>1. p.kind = "ProjectileSpawned" /\ p.npc = FALSE /\ p.shot = live.lastShot + 1
      BY <1>9 DEF SpawnLog
    <3> QED BY <1>19, <3>1, ApplyIs DEF ApplySpawned
  <2>8. F!Fold(v, worn \o <<f, p>>) = Apply(vb, p)
    <3>1. F!Fold(v, worn \o <<f, p>>) = F!Fold(F!Fold(v, worn), <<f, p>>)
      BY <1>19, TwoLogs
    <3>2. F!Fold(va, <<f, p>>) = Apply(Apply(va, f), p)
      BY <1>19, TwoRecords
    <3> QED BY <2>2, <2>5, <3>1, <3>2, Zenon
  <2>9. /\ Launch(w).gun = <<a>> /\ Launch(w).pockets = live.pockets
        /\ Launch(w).shots = live.shots \cup {live.lastShot + 1}
    BY <1>1, <1>12 DEF Launch, WorldOf
  <2>10. vb \in [pockets : {v.pockets}, gun : {<<a>>}, shots : {v.shots}, lastShot : {v.lastShot}]
    BY <2>1, <2>4 DEF WorldOf
  <2> QED BY <1>22, <2>6, <2>7, <2>8, <2>9, <2>10 DEF Same
<1>23. worn \o <<f, p>> \in Seq(RecordSet)
  BY <1>19, ConcatProperties
<1>24. Replays(live, worn \o <<f, p>>, Launch(w), Reused)
  BY <1>22 DEF Replays
<1> QED BY <1>14, <1>20, <1>21, <1>23, <1>24, DoKeeps

(* A roll of the snapshot forgets the differences, and a load makes the    *)
(* replica the world. *)
LEMMA RollKeeps == ASSUME IInv, RollSnapshot PROVE IInv'
<1>1. replica' = live /\ live' = live /\ gaps' = gaps \cap {"misfilled"}
  BY DEF RollSnapshot
<1>2. live \in WorldOf(Kind(gaps)) /\ live \in WorldOf(All) /\ Kind(gaps') = Kind(gaps)
  BY <1>1, LiveIs, AllOfKept DEF Kind
<1>3. Typed'
  BY <1>1, <1>2 DEF Typed
<1> QED BY <1>1, <1>3 DEF IInv, Gapped, Followed, Same

LEMMA LoadKeeps == ASSUME IInv, Load PROVE IInv'
<1>1. /\ live' = replica /\ replica' = replica
      /\ gaps' = {g \in {"misfilled"} : gaps \cap {"misfilled", "evicted"} # {}}
  BY DEF Load
<1>2. replica \in WorldOf(Kind(gaps'))
  <2>1. CASE gaps \cap {"misfilled", "evicted"} # {}
    BY <1>1, <2>1 DEF Kind, IInv, Typed
  <2>2. CASE gaps \cap {"misfilled", "evicted"} = {}
    <3>1. gaps \cap Spoils = {} /\ Kind(gaps) = Fine /\ Kind(gaps') = Fine
      BY <1>1, <2>2 DEF IInv, Gapped, Spoils, Kind
    <3>2. Same(replica, live) /\ live \in WorldOf(Fine) /\ replica \in WorldOf(All)
      BY <3>1 DEF IInv, Typed, Followed
    <3> QED BY <3>1, <3>2 DEF Same, WorldOf
  <2> QED BY <2>1, <2>2
<1>3. Typed'
  BY <1>1, <1>2 DEF Typed, IInv
<1> QED BY <1>1, <1>3 DEF IInv, Gapped, Followed, Same

-----------------------------------------------------------------------------
(* The theorems                                                            *)

(* The worlds a run may start from. *)
LEMMA StartIs == ASSUME NEW s \in Starts PROVE Start(s) \in WorldOf(Fine)
<1>1. /\ s.load \in Seq(GrantRecord) /\ s.gun \in GunSet
      /\ s.gun # <<>> /\ s.gun[1].mag # <<>> => SoundStack(s.gun[1].mag[1])
      /\ PocketW \in Nat /\ PocketH \in Nat
  BY WeaponAssumption
<1>2. s.gun \in Option(ArmOf(Fine))
  <2>1. CASE s.gun = <<>>
    BY <2>1, OptionOf
  <2>2. CASE s.gun # <<>>
    <3>1. PICK a \in [mag : Option(SlotStacks), jammed : BOOLEAN, cond : Nat] : s.gun = <<a>> /\ a = s.gun[1]
      BY <1>1, <2>2, OptionIs DEF GunSet
    <3>2. a.mag \in Option(StacksOf(Fine))
      <4>1. CASE a.mag = <<>>
        BY <4>1, OptionOf
      <4>2. CASE a.mag # <<>>
        <5>1. PICK t \in SlotStacks : a.mag = <<t>> /\ t = a.mag[1]
          BY <3>1, <4>2, OptionIs
        <5>2. SoundStack(t)
          BY <1>1, <2>2, <3>1, <4>2, <5>1
        <5>3. PICK o : o = [id |-> t.id, mag |-> t.mag]
          OBVIOUS
        <5>4. SoundStack(o)
          BY <5>2, <5>3 DEF SoundStack, Loaded, State
        <5>5. <<t.id, t.mag>> \in Fine
          BY <5>3, <5>4 DEF Fine, All, SlotStacks
        <5>6. t \in StacksOf(Fine)
          BY <5>5 DEF StacksOf
        <5> QED BY <5>1, <5>6, OptionOf
      <4> QED BY <4>1, <4>2
    <3>3. a \in ArmOf(Fine)
      BY <3>1, <3>2 DEF ArmOf
    <3> QED BY <3>1, <3>3, OptionOf
  <2> QED BY <2>1, <2>2
<1>3. PICK g : g = EmptyGrid(PocketW, PocketH)
  OBVIOUS
<1>4. g \in Neat(MagSet, Inners, Wide(Fine))
  <2>1. g.items = <<>> /\ g \in GridSet(MagSet, Inners)
    BY <1>1, <1>3 DEF EmptyGrid, GridSet
  <2>2. DOMAIN g.items = {}
    BY <2>1
  <2>3. Tidy(g) /\ Carries(g, Wide(Fine))
    BY <2>2 DEF Tidy, Carries
  <2> QED BY <2>1, <2>3 DEF Neat
<1>5. PICK b : b = World(EmptyGrid(PocketW, PocketH), s.gun)
  OBVIOUS
<1>6. b \in WorldOf(Fine)
  BY <1>2, <1>3, <1>4, <1>5 DEF World, WorldOf
<1>7. \A t \in WorldOf(Fine), e \in GrantRecord : Apply(t, e) \in WorldOf(Fine)
  <2> SUFFICES ASSUME NEW t \in WorldOf(Fine), NEW e \in GrantRecord PROVE Apply(t, e) \in WorldOf(Fine)
    OBVIOUS
  <2>1. e \in RecordSet /\ e.kind = "ItemPickedUp"
    BY DEF GrantRecord, RecordSet
  <2> QED BY <2>1, ApplyIs, AppliedPickedUp, KindsKept
<1>8. F!Fold(b, s.load) \in WorldOf(Fine)
  BY <1>1, <1>6, <1>7, F!FoldType
<1> QED BY <1>5, <1>8, ReplayIsFold DEF Start

LEMMA InitIInv == Init => IInv
<1> SUFFICES ASSUME Init PROVE IInv
  OBVIOUS
<1>1. live \in WorldOf(Fine) /\ replica = live /\ gaps = {}
  BY StartIs DEF Init
<1>2. Typed
  BY <1>1, KindsKept, AllOfKept DEF Typed, Kind
<1> QED BY <1>1, <1>2 DEF IInv, Gapped, Followed, Same

LEMMA NextIInv == IInv /\ [Next]_vars => IInv'
<1> SUFFICES ASSUME IInv, [Next]_vars PROVE IInv'
  OBVIOUS
<1>0. Indexes \subseteq Nat
  BY WeaponAssumption DEF Indexes
<1>1. ASSUME NEW id \in ItemIds \ {Gun}, GrantItem(id) PROVE IInv'
  BY <1>1, GrantItemKeeps
<1>2. ASSUME NEW i \in Indexes, NEW j \in Indexes, MoveBetweenSlots(i, j) PROVE IInv'
  BY <1>0, <1>2, MoveKeeps
<1>3. ASSUME NEW i \in Indexes, Equip(i) PROVE IInv'
  BY <1>0, <1>3, EquipKeeps
<1>4. CASE Unequip
  BY <1>4, UnequipKeeps
<1>5. CASE ReloadWeapon
  BY <1>5, ReloadKeeps
<1>6. CASE EjectMagazine
  BY <1>6, EjectKeeps
<1>7. ASSUME NEW r \in Rounds, LoadRoundsIntoMag(r) PROVE IInv'
  BY <1>7, LoadRoundsKeeps
<1>8. ASSUME NEW i \in Indexes, NEW r \in Rounds, LoadRoundsIntoPocketMag(i, r) PROVE IInv'
  BY <1>0, <1>8, LoadPocketKeeps
<1>9. CASE ClearWeaponJam \/ FireJams
  BY <1>9, JamKeeps
<1>10. CASE FireWeapon
  BY <1>10, FireKeeps
<1>11. CASE NpcFireProjectile
  BY <1>11, NpcFireKeeps
<1>12. ASSUME NEW s \in live.shots, ProjectileImpact(s) PROVE IInv'
  BY <1>12, ImpactKeeps
<1>13. CASE RollSnapshot
  BY <1>13, RollKeeps
<1>14. CASE Load
  BY <1>14, LoadKeeps
<1>15. CASE UNCHANGED vars
  BY <1>15 DEF IInv, Typed, Gapped, Followed, Kind, Same, vars
<1> QED BY <1>1, <1>2, <1>3, <1>4, <1>5, <1>6, <1>7, <1>8, <1>9, <1>10, <1>11, <1>12, <1>13, <1>14, <1>15
        DEF Next

LEMMA SpecIInv == Spec => []IInv
  BY InitIInv, NextIInv, PTL DEF Spec

LEMMA FineIsSound == ASSUME NEW w \in WorldOf(Fine) PROVE Sound(w)
<1>1. ASSUME NEW s \in StacksOf(Fine) PROVE SoundStack(s)
  <2>1. PICK o : o = [id |-> s.id, mag |-> s.mag]
    OBVIOUS
  <2>2. SoundStack(o)
    <3>1. <<s.id, s.mag>> \in Fine
      BY StackIs
    <3> QED BY <2>1, <3>1 DEF Fine
  <2> QED BY <2>1, <2>2 DEF SoundStack, Loaded, State
<1>2. \A i \in DOMAIN w.pockets.items : At(w, i) \in StacksOf(Fine)
  BY PocketStack DEF InPockets
<1>3. HasMag(w) => w.gun[1].mag[1] \in StacksOf(Fine)
  BY HasMagIs
<1> QED BY <1>1, <1>2, <1>3 DEF Sound, Stacks

(* No magazine ever holds more than its capacity or rounds of no known     *)
(* kind, but for the loads to the wrong item (weapons.rs).                 *)
THEOREM AlwaysMagazinesSound == Spec => []MagazinesSound
<1>1. IInv => MagazinesSound
  <2> SUFFICES ASSUME IInv PROVE MagazinesSound
    OBVIOUS
  <2>1. ASSUME "misfilled" \notin gaps PROVE Sound(live)
    BY <2>1, FineIsSound DEF IInv, Typed, Kind
  <2>2. ASSUME gaps \cap {"misfilled", "evicted"} = {} PROVE Sound(replica)
    <3>1. Same(replica, live) /\ Sound(live)
      BY <2>1, <2>2 DEF IInv, Gapped, Followed, Spoils
    <3> QED BY <3>1 DEF Same, Sound, Stacks, At, HasMag
  <2> QED BY <2>1, <2>2 DEF MagazinesSound
<1> QED BY <1>1, SpecIInv, PTL

(* Weapon, pockets and shots of a replay agree with the world's, item for  *)
(* item, but for the gaps (apply_delta, world/persistence.rs).             *)
THEOREM AlwaysReplayKeepsArms == Spec => []ReplayKeepsArms
<1>1. IInv => ReplayKeepsArms
  BY DEF IInv, Followed, ReplayKeepsArms, Same, Spoils
<1> QED BY <1>1, SpecIInv, PTL

=============================================================================
