---------------------------- MODULE InventoryProofs ----------------------------
(***************************************************************************)
(* Belongings, for every content, size of grid and number of calls:        *)
(* everything stays well placed, in the live world and in every replica of *)
(* it, a replica is the live world but for the gaps named in Inventory,    *)
(* and no id is handed out twice.                                          *)
(***************************************************************************)
EXTENDS Inventory, GridProofs

A == INSTANCE SequenceLemmas WITH Op <- Apply
M == INSTANCE SequenceLemmas WITH Op <- ApplyPickedUp
C == INSTANCE SequenceLemmas WITH Op <- Spend

-----------------------------------------------------------------------------
(* What may be in an item.  Containers lie in containers to any depth, so  *)
(* the contents are built level by level: nothing, and over a set of       *)
(* contents every tidy grid whose items have contents of that set.         *)

Fits(id, o) ==
    IF Def[id].inner = <<>> THEN o = <<>>
    ELSE o # <<>> /\ o[1].w = Def[id].inner[1] /\ o[1].h = Def[id].inner[2]
Sorts(S) == {t \in ItemIds \X {<<>>} \X S : Fits(t[1], t[3])}
GridsOver(S) == Neat({<<>>}, S, Sorts(S))
Over(S) == {<<>>} \cup {<<g>> : g \in GridsOver(S)}

Levels(f, n) ==
    /\ f[0] = {<<>>}
    /\ \A i \in 1 .. n : f[i] = Over(f[i - 1])
Level(n) == (CHOOSE f : Levels(f, n))[n]
Contents == UNION {Level(n) : n \in Nat}
Stores == GridsOver(Contents)

LEMMA LevelsExist ==
    ASSUME NEW n \in Nat
    PROVE  Levels(CHOOSE f : Levels(f, n), n)
<1> DEFINE P == {m \in Nat : \E f : Levels(f, m)}
<1>1. 0 \in P
  <2>1. Levels([i \in {0} |-> {<<>>}], 0)
    BY DEF Levels
  <2> QED BY <2>1
<1>2. ASSUME NEW m \in P PROVE m + 1 \in P
  <2>1. PICK f : Levels(f, m)
    OBVIOUS
  <2> DEFINE g == [i \in 0 .. m + 1 |-> IF i = m + 1 THEN Over(f[m]) ELSE f[i]]
  <2>2. g[0] = {<<>>}
    BY <2>1 DEF Levels
  <2>3. ASSUME NEW i \in 1 .. m + 1 PROVE g[i] = Over(g[i - 1])
    <3>1. CASE i = m + 1
      <4>1. i - 1 = m /\ m \in 0 .. m + 1 /\ m # m + 1 /\ i \in 0 .. m + 1
        BY <3>1
      <4>2. g[i - 1] = f[m] /\ g[i] = Over(f[m])
        BY <3>1, <4>1
      <4> QED BY <4>2
    <3>2. CASE i # m + 1
      <4>1. i \in 1 .. m /\ i \in 0 .. m + 1 /\ i - 1 \in 0 .. m + 1 /\ i - 1 # m + 1
        BY <3>2
      <4>2. g[i] = f[i] /\ g[i - 1] = f[i - 1]
        BY <3>2, <4>1
      <4>3. f[i] = Over(f[i - 1])
        BY <2>1, <4>1, Zenon DEF Levels
      <4> QED BY <4>2, <4>3
    <3> QED BY <3>1, <3>2
  <2> HIDE DEF g
  <2>4. Levels(g, m + 1)
    BY <2>2, <2>3 DEF Levels
  <2> QED BY <2>4
<1>3. P = Nat
  <2> HIDE DEF P
  <2> QED BY <1>1, <1>2, SetInduction, P \in SUBSET Nat DEF P
<1>4. \E f : Levels(f, n)
  BY <1>3
<1> QED BY <1>4, Zenon

LEMMA LevelsAgree ==
    ASSUME NEW n \in Nat, NEW m \in Nat, NEW f, NEW g, Levels(f, n), Levels(g, m)
    PROVE  \A k \in Nat : k <= n /\ k <= m => f[k] = g[k]
<1> DEFINE P == {k \in Nat : k <= n /\ k <= m => f[k] = g[k]}
<1>1. 0 \in P
  BY DEF Levels
<1>2. ASSUME NEW k \in P PROVE k + 1 \in P
  <2> SUFFICES ASSUME k + 1 <= n, k + 1 <= m PROVE f[k + 1] = g[k + 1]
    OBVIOUS
  <2>1. k + 1 \in 1 .. n /\ k + 1 \in 1 .. m /\ (k + 1) - 1 = k /\ f[k] = g[k]
    OBVIOUS
  <2>2. f[k + 1] = Over(f[(k + 1) - 1]) /\ g[k + 1] = Over(g[(k + 1) - 1])
    BY <2>1, Zenon DEF Levels
  <2> QED BY <2>1, <2>2
<1>3. P = Nat
  <2> HIDE DEF P
  <2> QED BY <1>1, <1>2, SetInduction, P \in SUBSET Nat DEF P
<1> QED BY <1>3

LEMMA LevelIs ==
    /\ Level(0) = {<<>>}
    /\ \A n \in Nat : Level(n + 1) = Over(Level(n))
<1>1. Level(0) = {<<>>}
  BY LevelsExist, 0 \in Nat, Zenon DEF Level, Levels
<1>2. ASSUME NEW n \in Nat PROVE Level(n + 1) = Over(Level(n))
  <2>1. PICK f : f = CHOOSE h : Levels(h, n)
    OBVIOUS
  <2>2. PICK g : g = CHOOSE h : Levels(h, n + 1)
    OBVIOUS
  <2>3. Levels(f, n) /\ Levels(g, n + 1)
    BY <2>1, <2>2, LevelsExist
  <2>4. f[n] = g[n]
    BY <2>3, LevelsAgree
  <2>5. g[n + 1] = Over(g[n])
    <3>1. n + 1 \in 1 .. n + 1 /\ (n + 1) - 1 = n
      OBVIOUS
    <3>2. g[n + 1] = Over(g[(n + 1) - 1])
      BY <2>3, <3>1, Zenon DEF Levels
    <3> QED BY <3>1, <3>2
  <2> QED BY <2>1, <2>2, <2>4, <2>5, Zenon DEF Level
<1> QED BY <1>1, <1>2

(* More contents, more grids. *)
LEMMA MoreGrids ==
    ASSUME NEW S, NEW T, S \subseteq T
    PROVE  GridsOver(S) \subseteq GridsOver(T) /\ Over(S) \subseteq Over(T)
<1>1. PlacedSet({<<>>}, S) \subseteq PlacedSet({<<>>}, T)
  BY DEF PlacedSet
<1>2. Seq(PlacedSet({<<>>}, S)) \subseteq Seq(PlacedSet({<<>>}, T))
  BY <1>1
<1>3. GridSet({<<>>}, S) \subseteq GridSet({<<>>}, T)
  BY <1>2 DEF GridSet
<1>4. Sorts(S) \subseteq Sorts(T)
  BY DEF Sorts
<1>5. GridsOver(S) \subseteq GridsOver(T)
  BY <1>3, <1>4, Zenon DEF GridsOver, Neat, Carries
<1> QED BY <1>5, Zenon DEF Over

LEMMA LevelsGrow ==
    ASSUME NEW n \in Nat
    PROVE  \A m \in Nat : n <= m => Level(n) \subseteq Level(m)
<1>1. \A k \in Nat : Level(k) \subseteq Level(k + 1)
  <2> DEFINE P == {k \in Nat : Level(k) \subseteq Level(k + 1)}
  <2>1. 0 \in P
    <3>1. Level(0 + 1) = Over(Level(0)) /\ Level(0) = {<<>>}
      BY LevelIs
    <3> QED BY <3>1 DEF Over
  <2>2. ASSUME NEW k \in P PROVE k + 1 \in P
    <3>1. Level(k + 1) = Over(Level(k)) /\ Level((k + 1) + 1) = Over(Level(k + 1))
      BY LevelIs
    <3>2. Over(Level(k)) \subseteq Over(Level(k + 1))
      BY MoreGrids
    <3> QED BY <3>1, <3>2
  <2>3. P = Nat
    <3> HIDE DEF P
    <3> QED BY <2>1, <2>2, SetInduction, P \in SUBSET Nat DEF P
  <2> QED BY <2>3
<1> DEFINE Q == {m \in Nat : n <= m => Level(n) \subseteq Level(m)}
<1>2. 0 \in Q
  OBVIOUS
<1>3. ASSUME NEW m \in Q PROVE m + 1 \in Q
  <2> SUFFICES ASSUME n <= m + 1 PROVE Level(n) \subseteq Level(m + 1)
    OBVIOUS
  <2>1. CASE n = m + 1
    BY <2>1
  <2>2. CASE n # m + 1
    <3>1. Level(n) \subseteq Level(m)
      BY <2>2
    <3>2. Level(m) \subseteq Level(m + 1)
      BY <1>1
    <3> QED BY <3>1, <3>2
  <2> QED BY <2>1, <2>2
<1>4. Q = Nat
  <2> HIDE DEF Q
  <2> QED BY <1>2, <1>3, SetInduction, Q \in SUBSET Nat DEF Q
<1> QED BY <1>4

LEMMA LevelInContents ==
    ASSUME NEW n \in Nat
    PROVE  Level(n) \subseteq Contents
  BY DEF Contents

(* The items of a grid are finitely many, so their contents are all of one *)
(* level, and the grid is contents of the next.                            *)
LEMMA StoreOfLevel ==
    ASSUME NEW g \in Stores
    PROVE  \E n \in Nat : g \in GridsOver(Level(n))
<1>1. g \in GridSet({<<>>}, Contents) /\ Tidy(g) /\ Carries(g, Sorts(Contents))
  BY DEF Stores, GridsOver, Neat
<1>2. PICK s \in Seq(PlacedSet({<<>>}, Contents)) : s = g.items
  BY <1>1 DEF GridSet
<1>3. PICK l \in Nat : l = Len(s) /\ DOMAIN s = 1 .. l
  BY LenProperties
<1> DEFINE Within(k, n) == \A i \in 1 .. l : i <= k => s[i].inner \in Level(n)
           P == {k \in Nat : \E n \in Nat : Within(k, n)}
<1>4. 0 \in P
  OBVIOUS
<1>5. ASSUME NEW k \in P PROVE k + 1 \in P
  <2>1. PICK n \in Nat : Within(k, n)
    OBVIOUS
  <2>2. CASE k + 1 \in 1 .. l
    <3>1. s[k + 1] \in PlacedSet({<<>>}, Contents)
      BY <1>3, <2>2
    <3>2. PICK m \in Nat : s[k + 1].inner \in Level(m)
      BY <3>1 DEF PlacedSet, Contents
    <3>3. PICK b \in Nat : n <= b /\ m <= b
      <4>1. CASE n <= m
        BY <4>1
      <4>2. CASE ~(n <= m)
        BY <4>2
      <4> QED BY <4>1, <4>2
    <3>4. Level(n) \subseteq Level(b) /\ Level(m) \subseteq Level(b)
      BY <3>3, LevelsGrow
    <3>5. ASSUME NEW i \in 1 .. l, i <= k + 1 PROVE s[i].inner \in Level(b)
      <4>1. CASE i = k + 1
        BY <3>2, <3>4, <4>1
      <4>2. CASE i # k + 1
        <5>1. i <= k
          BY <3>5, <4>2
        <5> QED BY <2>1, <3>4, <5>1
      <4> QED BY <4>1, <4>2
    <3>6. Within(k + 1, b)
      BY <3>5
    <3> HIDE DEF Within
    <3> QED BY <3>6
  <2>3. CASE k + 1 \notin 1 .. l
    <3>1. Within(k + 1, n)
      BY <2>1, <2>3
    <3> HIDE DEF Within
    <3> QED BY <3>1
  <2> QED BY <2>2, <2>3
<1>6. P = Nat
  <2> HIDE DEF P
  <2> QED BY <1>4, <1>5, SetInduction, P \in SUBSET Nat DEF P
<1>7. PICK n \in Nat : Within(l, n)
  BY <1>6
<1>8. \A i \in 1 .. l : s[i].inner \in Level(n)
  BY <1>7
<1> HIDE DEF P, Within
<1>9. PICK S : S = Level(n) /\ S \subseteq Contents
  BY LevelInContents
<1>10. ASSUME NEW i \in 1 .. l PROVE s[i] \in PlacedSet({<<>>}, S) /\ Sort(s[i]) \in Sorts(S)
  <2>1. s[i] \in PlacedSet({<<>>}, Contents) /\ s[i].inner \in S
    BY <1>3, <1>8, <1>9
  <2>2. Sort(s[i]) \in Sorts(Contents)
    BY <1>1, <1>2, <1>3 DEF Carries
  <2>3. s[i] \in PlacedSet({<<>>}, S)
    BY <2>1 DEF PlacedSet
  <2>4. Sort(s[i]) \in Sorts(S)
    <3>1. PICK t : t = Sort(s[i])
      OBVIOUS
    <3>2. t \in ItemIds \X {<<>>} \X Contents /\ Fits(t[1], t[3]) /\ t[3] = s[i].inner
      BY <2>2, <3>1 DEF Sorts, Sort
    <3>3. t \in ItemIds \X {<<>>} \X S
      BY <2>1, <3>2
    <3> QED BY <3>1, <3>2, <3>3 DEF Sorts
  <2> QED BY <2>3, <2>4
<1>11. s \in Seq(PlacedSet({<<>>}, S))
  BY <1>3, <1>10
<1>12. g \in GridSet({<<>>}, S)
  BY <1>1, <1>2, <1>11 DEF GridSet
<1>13. Carries(g, Sorts(S))
  BY <1>2, <1>3, <1>10 DEF Carries
<1> QED BY <1>1, <1>9, <1>12, <1>13 DEF GridsOver, Neat

(* Contents are nothing or a grid of things with contents. *)
LEMMA ContentsAre == Contents = Over(Contents)
<1>1. ASSUME NEW o \in Contents PROVE o \in Over(Contents)
  <2>1. PICK n \in Nat : o \in Level(n)
    BY DEF Contents
  <2>2. n \in Nat /\ n + 1 \in Nat /\ n <= n + 1
    OBVIOUS
  <2>3. o \in Level(n + 1)
    BY <2>1, <2>2, LevelsGrow
  <2>4. o \in Over(Level(n))
    BY <2>3, LevelIs
  <2> QED BY <2>4, LevelInContents, MoreGrids
<1>2. ASSUME NEW o \in Over(Contents) PROVE o \in Contents
  <2>1. CASE o = <<>>
    <3>1. o \in Level(0) /\ 0 \in Nat
      BY <2>1, LevelIs
    <3> QED BY <3>1, LevelInContents
  <2>2. ASSUME NEW g \in Stores, o = <<g>> PROVE o \in Contents
    <3>1. PICK n \in Nat : g \in GridsOver(Level(n))
      BY StoreOfLevel
    <3>2. o \in Level(n + 1) /\ n + 1 \in Nat
      BY <2>2, <3>1, LevelIs DEF Over
    <3> QED BY <3>2, LevelInContents
  <2> QED BY <2>1, <2>2 DEF Over, Stores
<1> QED BY <1>1, <1>2

-----------------------------------------------------------------------------
(* Grids of these.                                                         *)

Carried(p) ==
    /\ p.stack \in StackSet({<<>>}) /\ p.stack.count \in 1 .. Def[p.stack.id].stack
    /\ p.inner \in Contents /\ Fits(p.stack.id, p.inner)

LEMMA StoreIs ==
    ASSUME NEW g
    PROVE  g \in Stores <=> /\ g \in GridSet({<<>>}, Contents) /\ Tidy(g)
                            /\ Carries(g, Sorts(Contents))
  BY DEF Stores, GridsOver, Neat

LEMMA SortIs ==
    ASSUME NEW id \in ItemIds, NEW o \in Contents
    PROVE  <<id, <<>>, o>> \in Sorts(Contents) <=> Fits(id, o)
<1>1. PICK t : t = <<id, <<>>, o>>
  OBVIOUS
<1>2. t \in ItemIds \X {<<>>} \X Contents /\ t[1] = id /\ t[3] = o
  BY <1>1
<1> QED BY <1>1, <1>2 DEF Sorts

LEMMA StoreItem ==
    ASSUME NEW g \in Stores, NEW i \in DOMAIN g.items
    PROVE  Carried(g.items[i])
<1>1. g \in GridSet({<<>>}, Contents) /\ Tidy(g) /\ Carries(g, Sorts(Contents))
  BY StoreIs
<1>2. /\ g.items[i].stack.id \in ItemIds /\ g.items[i].stack.mag \in {<<>>}
      /\ g.items[i].stack \in StackSet({<<>>}) /\ g.items[i].inner \in Contents
  BY <1>1, ItemType
<1>3. Lawful(g.items[i])
  BY <1>1, TidyMeans, Zenon
<1>4. Sort(g.items[i]) \in Sorts(Contents)
  BY <1>1 DEF Carries
<1>5. <<g.items[i].stack.id, <<>>, g.items[i].inner>> \in Sorts(Contents)
  BY <1>2, <1>4 DEF Sort
<1>6. Fits(g.items[i].stack.id, g.items[i].inner)
  BY <1>2, <1>5, SortIs
<1> QED BY <1>2, <1>3, <1>6 DEF Carried, Lawful

LEMMA EmptyStore ==
    ASSUME NEW w \in Nat, NEW h \in Nat
    PROVE  EmptyGrid(w, h) \in Stores
<1>1. PICK g : g = EmptyGrid(w, h)
  OBVIOUS
<1>2. g.items = <<>> /\ g \in GridSet({<<>>}, Contents)
  BY <1>1 DEF EmptyGrid, GridSet
<1>3. DOMAIN g.items = {}
  BY <1>2
<1>4. Tidy(g) /\ Carries(g, Sorts(Contents))
  BY <1>3 DEF Tidy, Carries
<1> QED BY <1>1, <1>2, <1>4, StoreIs

LEMMA StoreInside ==
    ASSUME NEW g \in Stores
    PROVE  <<g>> \in Contents
  BY ContentsAre, Zenon DEF Over, Stores

LEMMA ContentIs ==
    ASSUME NEW o \in Contents, o # <<>>
    PROVE  o[1] \in Stores /\ o = <<o[1]>>
<1>1. PICK g \in Stores : o = <<g>>
  BY ContentsAre, Zenon DEF Over, Stores
<1> QED BY <1>1

LEMMA FreshFits ==
    ASSUME NEW id \in ItemIds
    PROVE  FreshInner(id) \in Contents /\ Fits(id, FreshInner(id))
<1>1. CASE Def[id].inner = <<>>
  <2>1. <<>> \in Contents
    BY ContentsAre DEF Over
  <2> QED BY <1>1, <2>1 DEF FreshInner, Fits
<1>2. CASE Def[id].inner # <<>>
  <2>1. PICK g : g = EmptyGrid(Def[id].inner[1], Def[id].inner[2])
    OBVIOUS
  <2>2. g \in Stores /\ g.w = Def[id].inner[1] /\ g.h = Def[id].inner[2]
    BY <1>2, <2>1, EmptyStore, InventoryAssumption DEF EmptyGrid
  <2>3. FreshInner(id) = <<g>> /\ <<g>> # <<>> /\ <<g>>[1] = g
    BY <1>2, <2>1 DEF FreshInner
  <2> QED BY <1>2, <2>2, <2>3, StoreInside DEF Fits
<1> QED BY <1>1, <1>2

LEMMA StoreRemove ==
    ASSUME NEW g \in Stores, NEW i \in DOMAIN g.items
    PROVE  RemoveItem(g, i) \in Stores /\ RemoveItem(g, i).w = g.w /\ RemoveItem(g, i).h = g.h
<1>1. g \in GridSet({<<>>}, Contents) /\ Tidy(g) /\ Carries(g, Sorts(Contents))
  BY StoreIs
<1>2. RemoveItem(g, i) \in Stores
  BY <1>1, RemoveKeepsTidy, StoreIs
<1> QED BY <1>1, <1>2 DEF RemoveItem, GridSet

LEMMA StoreSwap ==
    ASSUME NEW g \in Stores, NEW i \in DOMAIN g.items, NEW j \in DOMAIN g.items
    PROVE  SwapItems(g, i, j) \in Stores
  BY StoreIs, SwapKeepsTidy

LEMMA StoreTakeOne ==
    ASSUME NEW g \in Stores, NEW i \in DOMAIN g.items
    PROVE  TakeOne(g, i) \in Stores
  BY StoreIs, TakeOneKeepsTidy

LEMMA StorePlace ==
    ASSUME NEW g \in Stores, NEW p, Carried(p), HasRoom(g, p.stack.id)
    PROVE  /\ Place(g, p.stack, p.inner) \in Stores
           /\ Place(g, p.stack, p.inner).w = g.w /\ Place(g, p.stack, p.inner).h = g.h
<1>1. g \in GridSet({<<>>}, Contents) /\ Tidy(g) /\ Carries(g, Sorts(Contents))
  BY StoreIs
<1>2. PICK st, o : st = p.stack /\ o = p.inner
  OBVIOUS
<1>3. /\ st \in StackSet({<<>>}) /\ st.count \in 1 .. Def[st.id].stack /\ o \in Contents
      /\ Fits(st.id, o) /\ HasRoom(g, st.id)
  BY <1>2 DEF Carried
<1>4. st.id \in ItemIds /\ st.mag = <<>>
  BY <1>3 DEF StackSet
<1>5. <<st.id, st.mag, o>> \in Sorts(Contents)
  BY <1>3, <1>4, SortIs
<1>6. PICK h : h = Place(g, st, o)
  OBVIOUS
<1>7. Tidy(h) /\ h \in GridSet({<<>>}, Contents) /\ Carries(h, Sorts(Contents))
  BY <1>1, <1>3, <1>5, <1>6, PlaceKeepsTidy
<1>8. h \in Stores
  BY <1>7, StoreIs
<1>9. h.w = g.w /\ h.h = g.h
  BY <1>1, <1>6 DEF Place, PlaceTurned, PlaceAt, GridSet
<1> QED BY <1>2, <1>6, <1>8, <1>9

LEMMA StoreGrant ==
    ASSUME NEW g \in Stores, NEW id \in ItemIds, NEW count \in Nat, NEW tick \in Nat
    PROVE  LET r == GrantOrMerge(g, id, count, tick)
           IN  r.grid \in Stores /\ r.left \in Nat /\ Touched(r, id)
<1>1. PICK K : K = Sorts(Contents)
  OBVIOUS
<1>2. g \in Neat({<<>>}, Contents, K)
  BY <1>1 DEF Stores, GridsOver
<1>3. <<id, <<>>, FreshInner(id)>> \in K /\ FreshInner(id) \in Contents
  BY <1>1, FreshFits, SortIs
<1>4. LET r == GrantOrMerge(g, id, count, tick)
      IN  r.grid \in Neat({<<>>}, Contents, K) /\ r.left \in Nat /\ Touched(r, id)
  <2>1. <<>> \in {<<>>}
    OBVIOUS
  <2> QED BY <1>2, <1>3, <2>1, GrantKeepsTidy
<1> QED BY <1>1, <1>4 DEF Stores, GridsOver

LEMMA StoreConsume ==
    ASSUME NEW g \in Stores, NEW id, NEW need \in Nat
    PROVE  ConsumeFromGrid(g, id, need).grid \in Stores
<1>1. PICK K : K = Sorts(Contents)
  OBVIOUS
<1>2. g \in Neat({<<>>}, Contents, K)
  BY <1>1 DEF Stores, GridsOver
<1>3. ConsumeFromGrid(g, id, need).grid \in Neat({<<>>}, Contents, K)
  BY <1>2, ConsumeKeepsTidy
<1> QED BY <1>1, <1>3 DEF Stores, GridsOver

(* What is added to a container is well placed there with what is in it;   *)
(* and an item with nothing in it is there as it was.                      *)
LEMMA StoreAttach ==
    ASSUME NEW g \in Stores, NEW p, Carried(p)
    PROVE  /\ Into(g, p).grid \in Stores /\ Into(g, p).left \in Nat
           /\ Attach(Into(g, p), p.inner) \in Stores
           /\ ~Loaded(p) => Attach(Into(g, p), p.inner) = Into(g, p).grid
<1>1. PICK r : r = Into(g, p)
  OBVIOUS
<1>2. PICK id, o : id = p.stack.id /\ o = p.inner
  OBVIOUS
<1>3. id \in ItemIds /\ p.stack.count \in Nat /\ p.stack.tick \in Nat /\ o \in Contents /\ Fits(id, o)
  BY <1>2 DEF Carried, StackSet
<1>4. r.grid \in Stores /\ r.left \in Nat /\ Touched(r, id)
  BY <1>1, <1>2, <1>3, StoreGrant DEF Into
<1>5. CASE o = <<>> \/ r.touched = 0
  BY <1>1, <1>2, <1>4, <1>5 DEF Attach
<1>6. CASE o # <<>> /\ r.touched # 0
  <2>1. PICK h, k : h = r.grid /\ k = r.touched
    OBVIOUS
  <2>2. /\ k \in DOMAIN h.items /\ h.items[k].stack.id = id
        /\ Def[id].stack = 1 => h.items[k].inner = FreshInner(id)
    BY <1>4, <1>6, <2>1 DEF Touched
  <2>3. Attach(r, o) = [h EXCEPT !.items[k].inner = o]
    BY <1>6, <2>1 DEF Attach
  <2>4. h \in GridSet({<<>>}, Contents) /\ Tidy(h) /\ Carries(h, Sorts(Contents))
    BY <1>4, <2>1, StoreIs
  <2>5. h.items[k].stack.mag = <<>>
    BY <2>2, <2>4, ItemType
  <2>6. <<h.items[k].stack.id, h.items[k].stack.mag, o>> \in Sorts(Contents)
    BY <1>3, <2>2, <2>5, SortIs
  <2> DEFINE u == [h EXCEPT !.items[k].inner = o]
  <2>7. /\ Tidy(u) /\ u \in GridSet({<<>>}, Contents)
        /\ \A K : /\ Carries(h, K)
                  /\ <<h.items[k].stack.id, h.items[k].stack.mag, o>> \in K
                  => Carries(u, K)
    BY <1>3, <2>2, <2>4, FillKeepsTidy
  <2> HIDE DEF u
  <2>8. u \in Stores
    BY <2>4, <2>6, <2>7, StoreIs
  <2>9. ASSUME ~Loaded(p) PROVE u = h
    <3>1. o[1].items = <<>>
      BY <1>2, <1>6, <2>9 DEF Loaded
    <3>2. o[1] \in Stores /\ o = <<o[1]>>
      BY <1>3, <1>6, ContentIs
    <3>3. Def[id].inner # <<>> /\ o[1].w = Def[id].inner[1] /\ o[1].h = Def[id].inner[2]
      BY <1>3, <1>6 DEF Fits
    <3>4. o[1] = EmptyGrid(o[1].w, o[1].h)
      <4>1. o[1] \in GridSet({<<>>}, Contents)
        BY <3>2, StoreIs
      <4> QED BY <3>1, <4>1 DEF GridSet, EmptyGrid
    <3>5. o = FreshInner(id)
      BY <3>2, <3>3, <3>4 DEF FreshInner
    <3>6. h.items[k].inner = o
      BY <1>3, <2>2, <3>3, <3>5, InventoryAssumption
    <3>7. h.items[k] \in PlacedSet({<<>>}, Contents) /\ h.items \in Seq(PlacedSet({<<>>}, Contents))
      BY <2>2, <2>4 DEF GridSet
    <3>8. [h.items[k] EXCEPT !.inner = o] = h.items[k]
      BY <3>6, <3>7 DEF PlacedSet
    <3>9. [h.items EXCEPT ![k] = h.items[k]] = h.items
      BY <3>7
    <3>10. [h EXCEPT !.items = h.items] = h
      BY <2>4 DEF GridSet
    <3>11. u = [h EXCEPT !.items = [h.items EXCEPT ![k] = [h.items[k] EXCEPT !.inner = o]]]
      BY DEF u
    <3> QED BY <3>8, <3>9, <3>10, <3>11
  <2> QED BY <1>1, <1>2, <1>4, <2>1, <2>3, <2>8, <2>9 DEF u
<1> QED BY <1>1, <1>2, <1>5, <1>6

-----------------------------------------------------------------------------
(* Sequences some elements are taken out of.                               *)

(* t is made of elements of s[1 .. k], none of them twice. *)
Picked(t, s, k, f) ==
    /\ \A j \in DOMAIN t : f[j] \in 1 .. k /\ t[j] = s[f[j]]
    /\ \A i, j \in DOMAIN t : i # j => f[i] # f[j]

LEMMA PickMore ==
    ASSUME NEW T, NEW t \in Seq(T), NEW s, NEW k \in Nat, NEW f, Picked(t, s, k, f),
           NEW q \in T, q = s[k + 1]
    PROVE  \E h : Picked(Append(t, q), s, k + 1, h)
<1> DEFINE n == Len(t) + 1
           u == Append(t, q)
           h == [j \in 1 .. n |-> IF j = n THEN k + 1 ELSE f[j]]
<1>1. Len(t) \in Nat /\ DOMAIN t = 1 .. Len(t)
  BY LenProperties
<1>2. DOMAIN u = 1 .. n /\ u[n] = q /\ \A j \in 1 .. Len(t) : u[j] = t[j]
  BY <1>1, AppendProperties
<1> HIDE DEF u
<1>3. ASSUME NEW j \in DOMAIN u PROVE h[j] \in 1 .. k + 1 /\ u[j] = s[h[j]]
  <2>1. CASE j = n
    <3>1. h[j] = k + 1 /\ u[j] = q /\ k + 1 \in 1 .. k + 1
      BY <1>1, <1>2, <2>1
    <3> QED BY <3>1
  <2>2. CASE j # n
    <3>1. j \in DOMAIN t /\ h[j] = f[j] /\ u[j] = t[j]
      BY <1>1, <1>2, <2>2
    <3>2. f[j] \in 1 .. k /\ t[j] = s[f[j]]
      BY <3>1 DEF Picked
    <3> HIDE DEF h
    <3> QED BY <3>1, <3>2
  <2> QED BY <2>1, <2>2
<1>4. ASSUME NEW i \in DOMAIN u, NEW j \in DOMAIN u, i # j
      PROVE  h[i] # h[j]
  <2>1. \A l \in 1 .. Len(t) : f[l] \in 1 .. k
    BY <1>1 DEF Picked
  <2>2. \A l, m \in 1 .. Len(t) : l # m => f[l] # f[m]
    BY <1>1 DEF Picked
  <2>3. \A l \in 1 .. n : h[l] = IF l = n THEN k + 1 ELSE f[l]
    OBVIOUS
  <2> HIDE DEF h
  <2> QED BY <1>1, <1>2, <1>4, <2>1, <2>2, <2>3
<1> HIDE DEF h
<1>5. Picked(u, s, k + 1, h)
  BY <1>3, <1>4 DEF Picked
<1> QED BY <1>5 DEF u

(* The values of the function Without defines. *)
Keep(q, out, t, i) == IF i \in out THEN t ELSE Append(t, q[i])
Keeps(v, q, out, n) ==
    /\ v[0] = <<>>
    /\ \A i \in 1 .. n : v[i] = Keep(q, out, v[i - 1], i)

LEMMA WithoutIs ==
    ASSUME NEW q, NEW out, NEW n \in Nat, Len(q) = n
    PROVE  \E v : Keeps(v, q, out, n) /\ Without(q, out) = v[n]
<1> DEFINE P == {m \in Nat : \E f : f = [i \in 0 .. m |-> IF i = 0 THEN <<>> ELSE Keep(q, out, f[i - 1], i)]}
<1>1. 0 \in P
  <2> DEFINE g == [i \in 0 .. 0 |-> <<>>]
  <2>1. g = [i \in 0 .. 0 |-> IF i = 0 THEN <<>> ELSE Keep(q, out, g[i - 1], i)]
    OBVIOUS
  <2> QED BY <2>1
<1>2. ASSUME NEW m \in P PROVE m + 1 \in P
  <2>1. PICK f : f = [i \in 0 .. m |-> IF i = 0 THEN <<>> ELSE Keep(q, out, f[i - 1], i)]
    OBVIOUS
  <2> DEFINE g == [i \in 0 .. m + 1 |-> IF i = m + 1 THEN Keep(q, out, f[m], m + 1) ELSE f[i]]
  <2>2. ASSUME NEW i \in 0 .. m + 1 PROVE g[i] = IF i = 0 THEN <<>> ELSE Keep(q, out, g[i - 1], i)
    <3>1. CASE i = m + 1
      <4>1. i - 1 = m /\ m \in 0 .. m + 1 /\ m # m + 1 /\ i # 0
        BY <3>1
      <4> QED BY <3>1, <4>1
    <3>2. CASE i # m + 1
      <4>1. i \in 0 .. m /\ g[i] = f[i]
        BY <3>2
      <4>2. i # 0 => i - 1 \in 0 .. m + 1 /\ i - 1 # m + 1
        BY <4>1
      <4> QED BY <2>1, <4>1, <4>2
    <3> QED BY <3>1, <3>2
  <2>3. g = [i \in 0 .. m + 1 |-> IF i = 0 THEN <<>> ELSE Keep(q, out, g[i - 1], i)]
    BY <2>2
  <2> HIDE DEF g
  <2> QED BY <2>3
<1>3. P = Nat
  <2> HIDE DEF P
  <2> QED BY <1>1, <1>2, SetInduction, P \in SUBSET Nat DEF P
<1> DEFINE f == CHOOSE f : f = [i \in 0 .. n |-> IF i = 0 THEN <<>> ELSE Keep(q, out, f[i - 1], i)]
<1>4. Without(q, out) = f[n]
  BY DEF Without, Keep
<1>5. f = [i \in 0 .. n |-> IF i = 0 THEN <<>> ELSE Keep(q, out, f[i - 1], i)]
  <2>1. \E g : g = [i \in 0 .. n |-> IF i = 0 THEN <<>> ELSE Keep(q, out, g[i - 1], i)]
    BY <1>3
  <2> QED BY <2>1, Zenon
<1> HIDE DEF f
<1>6. Keeps(f, q, out, n)
  BY <1>5 DEF Keeps
<1> QED BY <1>4, <1>6

(* What is kept was there, and nothing is kept twice. *)
LEMMA WithoutPicks ==
    ASSUME NEW T, NEW q \in Seq(T), NEW out
    PROVE  Without(q, out) \in Seq(T) /\ \E f : Picked(Without(q, out), q, Len(q), f)
<1>1. PICK n \in Nat : n = Len(q)
  BY LenProperties
<1>2. DOMAIN q = 1 .. n
  BY <1>1, LenProperties
<1>3. PICK v : Keeps(v, q, out, n) /\ Without(q, out) = v[n]
  BY <1>1, WithoutIs
<1> DEFINE P == {k \in Nat : k <= n => v[k] \in Seq(T) /\ \E f : Picked(v[k], q, k, f)}
<1>4. 0 \in P
  <2>1. v[0] = <<>> /\ <<>> \in Seq(T) /\ DOMAIN <<>> = {}
    BY <1>3 DEF Keeps
  <2>2. PICK t : t = v[0]
    OBVIOUS
  <2>3. \A f : Picked(t, q, 0, f)
    BY <2>1, <2>2 DEF Picked
  <2> QED BY <2>1, <2>2, <2>3
<1>5. ASSUME NEW k \in P PROVE k + 1 \in P
  <2> SUFFICES ASSUME k + 1 <= n
               PROVE  v[k + 1] \in Seq(T) /\ \E f : Picked(v[k + 1], q, k + 1, f)
    OBVIOUS
  <2>1. k + 1 \in 1 .. n /\ (k + 1) - 1 = k /\ k \in Nat
    OBVIOUS
  <2>2. PICK t \in Seq(T) : t = v[k]
    OBVIOUS
  <2>3. PICK f : Picked(t, q, k, f)
    BY <2>2
  <2>4. v[k + 1] = IF k + 1 \in out THEN t ELSE Append(t, q[k + 1])
    <3>1. v[k + 1] = Keep(q, out, v[(k + 1) - 1], k + 1)
      BY <1>3, <2>1, Zenon DEF Keeps
    <3> QED BY <2>1, <2>2, <3>1 DEF Keep
  <2> HIDE DEF P
  <2>5. CASE k + 1 \in out
    <3>1. Picked(t, q, k + 1, f)
      <4>1. \A x \in 1 .. k : x \in 1 .. k + 1
        BY <2>1
      <4> QED BY <2>3, <4>1, Zenon DEF Picked
    <3> QED BY <2>4, <2>5, <3>1
  <2>6. CASE k + 1 \notin out
    <3>1. PICK e \in T : e = q[k + 1]
      BY <1>2, <2>1
    <3>2. \E h : Picked(Append(t, e), q, k + 1, h)
      BY <2>1, <2>3, <3>1, PickMore
    <3>3. Append(t, e) \in Seq(T)
      BY AppendProperties
    <3> QED BY <2>4, <2>6, <3>1, <3>2, <3>3
  <2> QED BY <2>5, <2>6
<1>6. P = Nat
  <2> HIDE DEF P
  <2> QED BY <1>4, <1>5, SetInduction, P \in SUBSET Nat DEF P
<1> QED BY <1>1, <1>3, <1>6

(* A grid of items of another, each where it was and none twice. *)
LEMMA StorePicked ==
    ASSUME NEW g \in Stores, NEW t \in Seq(PlacedSet({<<>>}, Contents)), NEW f, NEW k \in Nat,
           Picked(t, g.items, k, f), k = Len(g.items)
    PROVE  LET h == [g EXCEPT !.items = t] IN h \in Stores /\ h.w = g.w /\ h.h = g.h
<1>1. PICK h : h = [g EXCEPT !.items = t]
  OBVIOUS
<1>2. g \in GridSet({<<>>}, Contents) /\ Tidy(g) /\ Carries(g, Sorts(Contents))
  BY StoreIs
<1>3. h.items = t /\ h.w = g.w /\ h.h = g.h /\ h \in GridSet({<<>>}, Contents)
  BY <1>1, <1>2 DEF GridSet
<1>4. DOMAIN g.items = 1 .. k
  <2>1. g.items \in Seq(PlacedSet({<<>>}, Contents))
    BY <1>2 DEF GridSet
  <2> QED BY <2>1, LenProperties
<1>5. \A i \in DOMAIN g.items : Lawful(g.items[i])
  BY <1>2, TidyMeans, Zenon
<1>6. \A i \in DOMAIN h.items : f[i] \in DOMAIN g.items /\ h.items[i] = g.items[f[i]]
  BY <1>3, <1>4, Zenon DEF Picked
<1>7. \A i \in DOMAIN h.items :
         /\ f[i] \in DOMAIN g.items
         /\ SameSpot(h.items[i], g.items[f[i]])
         /\ Lawful(h.items[i])
  BY <1>5, <1>6, Zenon DEF SameSpot
<1>8. \A i, j \in DOMAIN h.items : i # j => f[i] # f[j]
  BY <1>3, Zenon DEF Picked
<1>9. Tidy(h)
  <2>1. h.w = g.w /\ h.h = g.h
    BY <1>3
  <2> QED BY <1>2, <1>7, <1>8, <2>1, Rearrange, Zenon
<1>10. Carries(h, Sorts(Contents))
  BY <1>2, <1>6, Zenon DEF Carries
<1> QED BY <1>1, <1>3, <1>9, <1>10, StoreIs

LEMMA StoreWithout ==
    ASSUME NEW g \in Stores, NEW out
    PROVE  [g EXCEPT !.items = Without(g.items, out)] \in Stores
<1>1. PICK U : U = PlacedSet({<<>>}, Contents)
  OBVIOUS
<1>2. PICK s \in Seq(U) : s = g.items
  BY <1>1, StoreIs DEF GridSet
<1>3. PICK t : t = Without(s, out)
  OBVIOUS
<1>4. t \in Seq(U) /\ \E f : Picked(t, s, Len(s), f)
  BY <1>3, WithoutPicks
<1>5. PICK k \in Nat : k = Len(s)
  BY LenProperties
<1>6. PICK f : Picked(t, s, k, f)
  BY <1>4, <1>5
<1>7. [g EXCEPT !.items = t] \in Stores
  BY <1>1, <1>2, <1>4, <1>5, <1>6, StorePicked
<1> QED BY <1>2, <1>3, <1>7

(* An item put back, at the end, where there was no check for room.  The   *)
(* last one put back leaves the grid as it was.                            *)
Returned(g, i) == [RemoveItem(g, i) EXCEPT !.items = Append(@, g.items[i])]

LEMMA StoreReturned ==
    ASSUME NEW g \in Stores, NEW i \in DOMAIN g.items
    PROVE  /\ Returned(g, i) \in Stores /\ Returned(g, i).w = g.w /\ Returned(g, i).h = g.h
           /\ i = Len(g.items) => Returned(g, i) = g
<1>1. PICK U : U = PlacedSet({<<>>}, Contents)
  OBVIOUS
<1>2. g \in GridSet({<<>>}, Contents)
  BY StoreIs
<1>3. PICK s \in Seq(U) : s = g.items
  BY <1>1, <1>2 DEF GridSet
<1>4. PICK n \in Nat : n = Len(s)
  BY LenProperties
<1>5. DOMAIN s = 1 .. n /\ i \in 1 .. n
  BY <1>3, <1>4, LenProperties
<1>6. PICK r : r = RemoveAt(s, i)
  OBVIOUS
<1>7. r \in Seq(U) /\ Len(r) = n - 1 /\ \A j \in 1 .. n - 1 : r[j] = IF j < i THEN s[j] ELSE s[j + 1]
  <2>1. \A m \in 1 .. n :
           /\ RemoveAt(s, m) \in Seq(U) /\ Len(RemoveAt(s, m)) = n - 1
           /\ \A j \in 1 .. n - 1 : RemoveAt(s, m)[j] = IF j < m THEN s[j] ELSE s[j + 1]
    BY <1>4, RemoveAtIs, Zenon
  <2> QED BY <1>5, <1>6, <2>1, Zenon
<1>8. PICK t : t = Append(r, s[i])
  OBVIOUS
<1>9. s[i] \in U
  BY <1>5
<1>10. /\ t \in Seq(U) /\ DOMAIN t = 1 .. n /\ t[n] = s[i] /\ Len(t) = n
       /\ \A j \in 1 .. n - 1 : t[j] = IF j < i THEN s[j] ELSE s[j + 1]
  <2>1. t \in Seq(U) /\ Len(t) = Len(r) + 1 /\ t[Len(r) + 1] = s[i] /\ \A j \in 1 .. Len(r) : t[j] = r[j]
    BY <1>7, <1>8, <1>9, AppendProperties
  <2>2. Len(r) + 1 = n /\ Len(t) = n
    BY <1>7, <2>1
  <2>3. DOMAIN t = 1 .. n
    BY <2>1, <2>2, LenProperties
  <2>4. \A j \in 1 .. n - 1 : t[j] = r[j]
    BY <1>7, <2>1
  <2> QED BY <1>7, <2>1, <2>2, <2>3, <2>4
<1>11. PICK f : f = [j \in 1 .. n |-> IF j = n THEN i ELSE IF j < i THEN j ELSE j + 1]
  OBVIOUS
<1>12. Picked(t, s, n, f)
  <2>1. ASSUME NEW j \in 1 .. n PROVE f[j] \in 1 .. n /\ t[j] = s[f[j]]
    <3>1. CASE j = n
      BY <1>5, <1>10, <1>11, <3>1
    <3>2. CASE j # n
      <4>1. j \in 1 .. n - 1 /\ f[j] = IF j < i THEN j ELSE j + 1
        BY <1>11, <3>2
      <4>2. f[j] \in 1 .. n
        BY <1>5, <4>1
      <4> QED BY <1>10, <4>1, <4>2
    <3> QED BY <3>1, <3>2
  <2>2. ASSUME NEW j \in 1 .. n, NEW k \in 1 .. n, j # k PROVE f[j] # f[k]
    <3>1. /\ f[j] = IF j = n THEN i ELSE IF j < i THEN j ELSE j + 1
          /\ f[k] = IF k = n THEN i ELSE IF k < i THEN k ELSE k + 1
      BY <1>11
    <3> QED BY <1>5, <2>2, <3>1
  <2> QED BY <1>10, <2>1, <2>2 DEF Picked
<1>13. PICK h : h = [g EXCEPT !.items = t]
  OBVIOUS
<1>14. h \in Stores /\ h.w = g.w /\ h.h = g.h
  BY <1>1, <1>3, <1>4, <1>10, <1>12, <1>13, StorePicked
<1>15. Returned(g, i) = h
  BY <1>2, <1>3, <1>6, <1>8, <1>13 DEF Returned, RemoveItem, GridSet
<1>16. i = n => h = g
  <2> SUFFICES ASSUME i = n PROVE h = g
    OBVIOUS
  <2>1. \A j \in 1 .. n : t[j] = s[j]
    <3>1. \A j \in 1 .. n - 1 : j < i
      BY <1>5
    <3> QED BY <1>10, <3>1
  <2>2. t = s
    <3>1. Len(t) = Len(s)
      BY <1>4, <1>10
    <3> QED BY <1>4, <1>10, <2>1, <3>1, SeqEqual
  <2> QED BY <1>2, <1>3, <1>13, <2>2 DEF GridSet
<1> QED BY <1>3, <1>4, <1>14, <1>15, <1>16

-----------------------------------------------------------------------------
(* Worlds of these grids.                                                  *)

WornSet == {e \in [stack : StackSet({<<>>}), inner : Contents] : Carried(e)}
Worn == {<<>>} \cup {<<e>> : e \in WornSet}
BoxSet == [grid : Stores, public : BOOLEAN]
BoxMaps == UNION {[B -> BoxSet] : B \in SUBSET Nat}
JobSet == [id : Nat, recipe : DOMAIN Recipe, units : Nat \ {0}, ticks : Nat]
Worlds == [pockets : Stores, worn : [Slots -> Worn], boxes : BoxMaps,
           queue : Seq(JobSet), clock : Nat, nextJob : Nat, nextBox : Nat]

(* Every job has an id of its own, one that was handed out. *)
IdsApart(w) ==
    /\ \A k \in DOMAIN w.queue : w.queue[k].id <= w.nextJob
    /\ \A k, l \in DOMAIN w.queue : k # l => w.queue[k].id # w.queue[l].id
Belongings == {w \in Worlds : IdsApart(w)}

Counts(w) == <<w.nextJob, w.nextBox>>
Alike(v, w) == v \in Belongings /\ Counts(v) = Counts(w)

LEMMA WorldIs ==
    ASSUME NEW w \in Belongings
    PROVE  /\ w.pockets \in Stores /\ w.worn \in [Slots -> Worn] /\ w.boxes \in BoxMaps
           /\ w.queue \in Seq(JobSet) /\ w.clock \in Nat /\ w.nextJob \in Nat /\ w.nextBox \in Nat
           /\ w \in Worlds /\ IdsApart(w)
  BY DEF Belongings, Worlds

LEMMA WornIs ==
    ASSUME NEW e \in Worn, e # <<>>
    PROVE  e[1] \in WornSet /\ e = <<e[1]>> /\ Carried(e[1])
<1>1. PICK x \in WornSet : e = <<x>>
  BY DEF Worn
<1> QED BY <1>1 DEF WornSet

LEMMA WornOf ==
    ASSUME NEW p, Carried(p), NEW e, e = [stack |-> p.stack, inner |-> p.inner]
    PROVE  e \in WornSet /\ <<e>> \in Worn /\ Carried(e) /\ <<e>> # <<>> /\ <<e>>[1] = e
<1>1. e.stack = p.stack /\ e.inner = p.inner
  OBVIOUS
<1>2. Carried(e)
  BY <1>1 DEF Carried
<1>3. e \in [stack : StackSet({<<>>}), inner : Contents]
  BY DEF Carried
<1>4. e \in WornSet
  BY <1>2, <1>3 DEF WornSet
<1> QED BY <1>2, <1>4 DEF Worn

LEMMA PocketsSet ==
    ASSUME NEW w \in Belongings, NEW g \in Stores
    PROVE  Alike([w EXCEPT !.pockets = g], w)
  BY DEF Alike, Counts, Belongings, Worlds, IdsApart

LEMMA WornSetTo ==
    ASSUME NEW w \in Belongings, NEW s \in Slots, NEW e \in Worn
    PROVE  Alike([w EXCEPT !.worn[s] = e], w)
<1>1. PICK f : f = [w.worn EXCEPT ![s] = e]
  OBVIOUS
<1>2. f \in [Slots -> Worn]
  BY <1>1, WorldIs
<1>3. [w EXCEPT !.worn[s] = e] = [w EXCEPT !.worn = f]
  BY <1>1
<1> QED BY <1>2, <1>3 DEF Alike, Counts, Belongings, Worlds, IdsApart

LEMMA AlikeAgain ==
    ASSUME NEW u, NEW v, NEW w, Alike(u, v), Alike(v, w)
    PROVE  Alike(u, w)
  BY DEF Alike

LEMMA AlikeItself ==
    ASSUME NEW w \in Belongings
    PROVE  Alike(w, w)
  BY DEF Alike

(* The grids a command names are of these; putting one back in its place.  *)
LEMMA GridOfIs ==
    ASSUME NEW w \in Belongings, NEW src, HasGrid(w, src)
    PROVE  GridOf(w, src) \in Stores
<1>1. CASE src = POCKETS
  BY <1>1, WorldIs DEF GridOf
<1>2. CASE src # POCKETS
  <2>1. src \in Slots /\ w.worn[src] # <<>> /\ w.worn[src][1].inner # <<>>
    BY <1>2 DEF HasGrid
  <2>2. PICK e : e = w.worn[src]
    OBVIOUS
  <2>3. e \in Worn /\ e # <<>> /\ e[1].inner # <<>>
    BY <2>1, <2>2, WorldIs
  <2>4. Carried(e[1])
    BY <2>3, WornIs
  <2>5. PICK o \in Contents : o = e[1].inner
    BY <2>4 DEF Carried
  <2>6. o[1] \in Stores
    BY <2>3, <2>5, ContentIs
  <2> QED BY <1>2, <2>2, <2>5, <2>6 DEF GridOf
<1> QED BY <1>1, <1>2

LEMMA WithGridIs ==
    ASSUME NEW w \in Belongings, NEW src, HasGrid(w, src), NEW g \in Stores,
           g.w = GridOf(w, src).w, g.h = GridOf(w, src).h
    PROVE  /\ Alike(WithGrid(w, src, g), w)
           /\ HasGrid(WithGrid(w, src, g), src)
           /\ GridOf(WithGrid(w, src, g), src) = g
           /\ \A h : WithGrid(WithGrid(w, src, g), src, h) = WithGrid(w, src, h)
           /\ WithGrid(w, src, GridOf(w, src)) = w
           /\ WithGrid(w, src, g).boxes = w.boxes
<1>0. w \in Worlds
  BY WorldIs
<1>1. CASE src = POCKETS
  <2>1. \A h : WithGrid(w, src, h) = [w EXCEPT !.pockets = h]
    BY <1>1 DEF WithGrid
  <2>2. PICK v : v = [w EXCEPT !.pockets = g]
    OBVIOUS
  <2>3. Alike(v, w) /\ v.pockets = g /\ v.boxes = w.boxes /\ \A h : [v EXCEPT !.pockets = h] = [w EXCEPT !.pockets = h]
    BY <1>0, <2>2, PocketsSet DEF Worlds
  <2>4. [w EXCEPT !.pockets = w.pockets] = w
    BY <1>0 DEF Worlds
  <2>5. GridOf(v, src) = g /\ HasGrid(v, src) /\ GridOf(w, src) = w.pockets
    BY <1>1, <2>3 DEF GridOf, HasGrid
  <2>6. \A h : WithGrid(v, src, h) = [v EXCEPT !.pockets = h]
    BY <1>1 DEF WithGrid
  <2> QED BY <2>1, <2>2, <2>3, <2>4, <2>5, <2>6
<1>2. CASE src # POCKETS
  <2>1. src \in Slots /\ w.worn[src] # <<>> /\ w.worn[src][1].inner # <<>>
    BY <1>2 DEF HasGrid
  <2>2. PICK c \in WornSet : w.worn[src] = <<c>> /\ Carried(c)
    BY <2>1, WorldIs, WornIs
  <2>3. GridOf(w, src) = c.inner[1] /\ c.inner # <<>>
    BY <1>2, <2>1, <2>2 DEF GridOf
  <2>4. c \in [stack : StackSet({<<>>}), inner : Contents]
    BY DEF WornSet
  <2>5. c.inner = <<c.inner[1]>>
    BY <2>3, <2>4, ContentIs
  <2>6. PICK e : e = [c EXCEPT !.inner = <<g>>]
    OBVIOUS
  <2>7. e.stack = c.stack /\ e.inner = <<g>> /\ e = [stack |-> c.stack, inner |-> <<g>>]
    BY <2>4, <2>6
  <2>8. Carried(e)
    <3>1. Fits(c.stack.id, c.inner)
      BY <2>2 DEF Carried
    <3>2. Fits(c.stack.id, <<g>>)
      BY <2>3, <3>1 DEF Fits
    <3> QED BY <2>2, <2>7, <3>2, StoreInside DEF Carried
  <2>9. e \in WornSet /\ <<e>> \in Worn
    <3>1. e = [stack |-> e.stack, inner |-> e.inner]
      BY <2>7
    <3> QED BY <2>8, <3>1, WornOf
  <2>10. \A h : WithGrid(w, src, h) = [w EXCEPT !.worn[src] = <<[c EXCEPT !.inner = <<h>>]>>]
    BY <1>2, <2>2 DEF WithGrid
  <2>11. PICK v : v = [w EXCEPT !.worn[src] = <<e>>]
    OBVIOUS
  <2>12. Alike(v, w)
    BY <2>1, <2>9, <2>11, WornSetTo
  <2>13. v.worn[src] = <<e>> /\ v.boxes = w.boxes
    BY <1>0, <2>1, <2>11 DEF Worlds
  <2>14. HasGrid(v, src) /\ GridOf(v, src) = g
    BY <1>2, <2>1, <2>7, <2>13 DEF HasGrid, GridOf
  <2>15. ASSUME NEW h PROVE WithGrid(v, src, h) = WithGrid(w, src, h)
    <3>1. WithGrid(v, src, h) = [v EXCEPT !.worn[src] = <<[e EXCEPT !.inner = <<h>>]>>]
      BY <1>2, <2>13 DEF WithGrid
    <3>2. [e EXCEPT !.inner = <<h>>] = [c EXCEPT !.inner = <<h>>]
      BY <2>4, <2>6
    <3>3. WithGrid(w, src, h) = [w EXCEPT !.worn[src] = <<[c EXCEPT !.inner = <<h>>]>>]
      BY <2>10
    <3>4. PICK x : x = <<[c EXCEPT !.inner = <<h>>]>>
      OBVIOUS
    <3>5. [v EXCEPT !.worn[src] = x] = [w EXCEPT !.worn[src] = x]
      BY <2>11
    <3> QED BY <3>1, <3>2, <3>3, <3>4, <3>5
  <2>16. WithGrid(w, src, c.inner[1]) = w
    <3>1. [c EXCEPT !.inner = <<c.inner[1]>>] = c
      BY <2>4, <2>5
    <3>2. WithGrid(w, src, c.inner[1]) = [w EXCEPT !.worn[src] = <<c>>]
      BY <2>10, <3>1
    <3>3. [w.worn EXCEPT ![src] = <<c>>] = w.worn
      BY <1>0, <2>1, <2>2 DEF Worlds
    <3>4. [w EXCEPT !.worn[src] = <<c>>] = w
      BY <1>0, <3>3 DEF Worlds
    <3> QED BY <3>2, <3>4
  <2>17. WithGrid(w, src, g) = v
    BY <2>6, <2>10, <2>11
  <2> QED BY <2>3, <2>12, <2>13, <2>14, <2>15, <2>16, <2>17
<1> QED BY <1>1, <1>2

LEMMA WithBoxIs ==
    ASSUME NEW w \in Belongings, NEW b \in Boxes(w)
    PROVE  /\ w.boxes[b].grid \in Stores
           /\ WithBox(w, b, w.boxes[b].grid) = w
           /\ \A g \in Stores : Alike(WithBox(w, b, g), w)
<1>1. w \in Worlds /\ w.boxes \in BoxMaps
  BY WorldIs
<1>2. PICK B \in SUBSET Nat : w.boxes \in [B -> BoxSet]
  BY <1>1 DEF BoxMaps
<1>3. b \in B /\ w.boxes[b] \in BoxSet
  BY <1>2 DEF Boxes
<1>4. WithBox(w, b, w.boxes[b].grid) = w
  <2>1. [w.boxes[b] EXCEPT !.grid = w.boxes[b].grid] = w.boxes[b]
    BY <1>3 DEF BoxSet
  <2>2. [w.boxes EXCEPT ![b] = w.boxes[b]] = w.boxes
    BY <1>2
  <2>3. [w EXCEPT !.boxes = w.boxes] = w
    BY <1>1 DEF Worlds
  <2>4. WithBox(w, b, w.boxes[b].grid) =
           [w EXCEPT !.boxes = [w.boxes EXCEPT ![b] = [w.boxes[b] EXCEPT !.grid = w.boxes[b].grid]]]
    BY DEF WithBox
  <2> QED BY <2>1, <2>2, <2>3, <2>4
<1>5. ASSUME NEW g \in Stores PROVE Alike(WithBox(w, b, g), w)
  <2>1. PICK x : x = [w.boxes[b] EXCEPT !.grid = g]
    OBVIOUS
  <2>2. x \in BoxSet
    BY <1>3, <2>1 DEF BoxSet
  <2>3. PICK f : f = [w.boxes EXCEPT ![b] = x]
    OBVIOUS
  <2>4. f \in [B -> BoxSet]
    BY <1>2, <2>2, <2>3
  <2>5. f \in BoxMaps
    BY <2>4 DEF BoxMaps
  <2>6. WithBox(w, b, g) = [w EXCEPT !.boxes = f]
    BY <2>1, <2>3 DEF WithBox
  <2> QED BY <2>5, <2>6 DEF Alike, Counts, Belongings, Worlds, IdsApart
<1> QED BY <1>3, <1>4, <1>5 DEF BoxSet

-----------------------------------------------------------------------------
(* What the records do to a world, the live one or any replica.            *)

(* The instances' folds are those of the model. *)
LEMMA ReplayIsFold ==
    ASSUME NEW b, NEW q
    PROVE  ApplyAll(b, q) = A!Fold(b, q)
  BY DEF ApplyAll, A!Fold, A!FoldLeft, A!MapThenFoldSet, A!Max, FoldLeft, MapThenFoldSet, Max

LEMMA MergesAreFold ==
    ASSUME NEW b, NEW q, NEW t
    PROVE  MergeAll(b, q, t) = M!Fold(b, Stamped(q, t))
  BY DEF MergeAll, M!Fold, M!FoldLeft, M!MapThenFoldSet, M!Max, FoldLeft, MapThenFoldSet, Max

LEMMA SpendsAreFold ==
    ASSUME NEW b, NEW q
    PROVE  SpendAll(b, q) = C!Fold(b, q)
  BY DEF SpendAll, C!Fold, C!FoldLeft, C!MapThenFoldSet, C!Max, FoldLeft, MapThenFoldSet, Max

(* A world with other pockets. *)
Filled(w) == {[w EXCEPT !.pockets = g] : g \in Stores}

LEMMA FilledIs ==
    ASSUME NEW w \in Belongings
    PROVE  w \in Filled(w) /\ \A v \in Filled(w) : Alike(v, w)
<1>1. w = [w EXCEPT !.pockets = w.pockets] /\ w.pockets \in Stores
  BY WorldIs DEF Worlds
<1>2. \A v \in Filled(w) : Alike(v, w)
  BY PocketsSet DEF Filled
<1> QED BY <1>1, <1>2 DEF Filled

LEMMA FilledAgain ==
    ASSUME NEW w \in Belongings, NEW v \in Filled(w), NEW g \in Stores
    PROVE  [v EXCEPT !.pockets = g] \in Filled(w) /\ v.pockets \in Stores
<1>1. PICK h \in Stores : v = [w EXCEPT !.pockets = h]
  BY DEF Filled
<1>2. [v EXCEPT !.pockets = g] = [w EXCEPT !.pockets = g] /\ v.pockets = h
  BY <1>1, WorldIs DEF Worlds
<1> QED BY <1>2 DEF Filled

LEMMA MergeIs ==
    ASSUME NEW w \in Belongings, NEW v \in Filled(w),
           NEW id \in ItemIds, NEW n \in Nat, NEW tick \in Nat
    PROVE  Merge(v, id, n, tick) \in Filled(w)
<1>1. v.pockets \in Stores
  BY FilledAgain, EmptyStore, 0 \in Nat
<1>2. PICK g : g = GrantOrMerge(v.pockets, id, n, tick).grid
  OBVIOUS
<1>3. g \in Stores
  BY <1>1, <1>2, StoreGrant
<1>4. Merge(v, id, n, tick) = [v EXCEPT !.pockets = g]
  BY <1>2 DEF Merge
<1> QED BY <1>3, <1>4, FilledAgain

LEMMA MergeAllIs ==
    ASSUME NEW w \in Belongings, NEW v \in Filled(w), NEW stacks \in StackList, NEW tick \in Nat
    PROVE  MergeAll(v, stacks, tick) \in Filled(w)
<1> DEFINE S == [id : ItemIds, count : Nat, tick : Nat]
<1>1. Stamped(stacks, tick) \in Seq(S)
  <2>1. DOMAIN stacks = 1 .. Len(stacks) /\ Len(stacks) \in Nat
    BY LenProperties DEF StackList
  <2>2. \A i \in 1 .. Len(stacks) : stacks[i] \in [id : ItemIds, count : Nat]
    <3>1. PICK R : R = [id : ItemIds, count : Nat]
      OBVIOUS
    <3>2. stacks \in Seq(R)
      BY <3>1 DEF StackList
    <3>3. \A i \in 1 .. Len(stacks) : stacks[i] \in R
      BY <2>1, <3>2
    <3> QED BY <3>1, <3>3
  <2>3. \A i \in 1 .. Len(stacks) :
           [id |-> stacks[i].id, count |-> stacks[i].count, tick |-> tick] \in S
    BY <2>2
  <2> HIDE DEF S
  <2>4. Stamped(stacks, tick) =
           [i \in 1 .. Len(stacks) |-> [id |-> stacks[i].id, count |-> stacks[i].count, tick |-> tick]]
    BY <2>1 DEF Stamped
  <2> QED BY <2>1, <2>3, <2>4, IsASeq
<1>2. ASSUME NEW t \in Filled(w), NEW e \in S PROVE ApplyPickedUp(t, e) \in Filled(w)
  BY <1>2, MergeIs DEF ApplyPickedUp
<1> HIDE DEF S
<1>3. M!Fold(v, Stamped(stacks, tick)) \in Filled(w)
  BY <1>1, <1>2, M!FoldType
<1> QED BY <1>3, MergesAreFold

LEMMA SpendAllIs ==
    ASSUME NEW w \in Belongings, NEW v \in Filled(w), NEW stacks \in StackList
    PROVE  SpendAll(v, stacks) \in Filled(w)
<1> DEFINE S == [id : ItemIds, count : Nat]
<1>1. stacks \in Seq(S)
  BY DEF StackList
<1>2. ASSUME NEW t \in Filled(w), NEW e \in S PROVE Spend(t, e) \in Filled(w)
  <2>1. t.pockets \in Stores
    BY FilledAgain, EmptyStore, 0 \in Nat
  <2>2. PICK g : g = ConsumeFromGrid(t.pockets, e.id, e.count).grid
    OBVIOUS
  <2>3. g \in Stores
    BY <2>1, <2>2, StoreConsume
  <2>4. Spend(t, e) = [t EXCEPT !.pockets = g]
    BY <2>2 DEF Spend
  <2> QED BY <2>3, <2>4, FilledAgain
<1> HIDE DEF S
<1>3. C!Fold(v, stacks) \in Filled(w)
  BY <1>1, <1>2, C!FoldType
<1> QED BY <1>3, SpendsAreFold

LEMMA TimesIs ==
    ASSUME NEW stacks \in StackList, NEW n \in Nat
    PROVE  Times(stacks, n) \in StackList
<1>1. PICK R : R = [id : ItemIds, count : Nat]
  OBVIOUS
<1>2. stacks \in Seq(R) /\ StackList = Seq(R)
  BY <1>1 DEF StackList
<1>3. DOMAIN stacks = 1 .. Len(stacks) /\ Len(stacks) \in Nat
  BY <1>2, LenProperties
<1>4. \A i \in 1 .. Len(stacks) : [stacks[i] EXCEPT !.count = @ * n] \in R
  <2>1. \A r \in R : [r EXCEPT !.count = @ * n] \in R
    <3>1. ASSUME NEW r \in R PROVE r.count * n \in Nat
      BY <1>1, <3>1
    <3> QED BY <1>1, <3>1
  <2>2. \A i \in 1 .. Len(stacks) : stacks[i] \in R
    BY <1>2, <1>3
  <2> QED BY <2>1, <2>2
<1>5. Times(stacks, n) = [i \in 1 .. Len(stacks) |-> [stacks[i] EXCEPT !.count = @ * n]]
  BY <1>3 DEF Times
<1> QED BY <1>2, <1>3, <1>4, <1>5, IsASeq

LEMMA DroppedIs ==
    ASSUME NEW w \in Belongings, NEW d
    PROVE  Alike(ApplyDropped(w, d), w)
<1>1. CASE InRange(w.pockets, d.idx)
  <2>1. RemoveItem(w.pockets, d.idx) \in Stores
    BY <1>1, WorldIs, StoreRemove DEF InRange
  <2> QED BY <1>1, <2>1, PocketsSet DEF ApplyDropped
<1> QED BY <1>1, AlikeItself DEF ApplyDropped

LEMMA SwappedIs ==
    ASSUME NEW w \in Belongings, NEW d
    PROVE  Alike(ApplySwapped(w, d), w)
<1>1. CASE InRange(w.pockets, d.from) /\ InRange(w.pockets, d.to)
  <2>1. SwapItems(w.pockets, d.from, d.to) \in Stores
    BY <1>1, WorldIs, StoreSwap DEF InRange
  <2> QED BY <1>1, <2>1, PocketsSet DEF ApplySwapped
<1> QED BY <1>1, AlikeItself DEF ApplySwapped

LEMMA PickedUpIs ==
    ASSUME NEW w \in Belongings, NEW d, d.id \in ItemIds, d.count \in Nat, d.tick \in Nat
    PROVE  Alike(ApplyPickedUp(w, d), w)
  BY FilledIs, MergeIs DEF ApplyPickedUp

LEMMA RemoveBySourceIs ==
    ASSUME NEW w \in Belongings, NEW src, NEW i
    PROVE  Alike(RemoveBySource(w, src, i), w)
<1>1. CASE HasGrid(w, src) /\ InRange(GridOf(w, src), i)
  <2>1. PICK g \in Stores : g = GridOf(w, src) /\ i \in DOMAIN g.items
    BY <1>1, GridOfIs DEF InRange
  <2>2. PICK h \in Stores : h = RemoveItem(g, i) /\ h.w = g.w /\ h.h = g.h
    BY <2>1, StoreRemove
  <2>3. Alike(WithGrid(w, src, h), w)
    BY <1>1, <2>1, <2>2, WithGridIs
  <2> QED BY <1>1, <2>1, <2>2, <2>3 DEF RemoveBySource
<1> QED BY <1>1, AlikeItself DEF RemoveBySource

LEMMA PlaceInIs ==
    ASSUME NEW w \in Belongings, NEW src, NEW p, Carried(p)
    PROVE  Alike(PlaceIn(w, src, p), w)
<1>1. CASE HasGrid(w, src) /\ HasRoom(GridOf(w, src), p.stack.id)
  <2>1. PICK g \in Stores : g = GridOf(w, src) /\ HasRoom(g, p.stack.id)
    BY <1>1, GridOfIs
  <2>2. PICK h \in Stores : h = Place(g, p.stack, p.inner) /\ h.w = g.w /\ h.h = g.h
    BY <2>1, StorePlace
  <2>3. Alike(WithGrid(w, src, h), w)
    BY <1>1, <2>1, <2>2, WithGridIs
  <2> QED BY <1>1, <2>1, <2>2, <2>3 DEF PlaceIn
<1> QED BY <1>1, AlikeItself DEF PlaceIn

LEMMA MovedIs ==
    ASSUME NEW w \in Belongings, NEW d, Carried(d.item)
    PROVE  Alike(ApplyMovedBetweenGrids(w, d), w)
<1>1. PICK v : v = RemoveBySource(w, d.from, d.idx)
  OBVIOUS
<1>2. Alike(v, w) /\ v \in Belongings
  BY <1>1, RemoveBySourceIs DEF Alike
<1>3. Alike(PlaceIn(v, d.to, d.item), v)
  BY <1>2, PlaceInIs
<1> QED BY <1>1, <1>2, <1>3, AlikeAgain DEF ApplyMovedBetweenGrids

(* The place named may be empty in a replica. *)
LEMMA ConsumedIs ==
    ASSUME NEW w \in Belongings, NEW d
    PROVE  ApplyConsumed(w, d) \in Filled(w)
<1>1. CASE InRange(w.pockets, d.idx)
  <2>1. TakeOne(w.pockets, d.idx) \in Stores
    BY <1>1, WorldIs, StoreTakeOne DEF InRange
  <2> QED BY <1>1, <2>1, FilledIs, FilledAgain DEF ApplyConsumed
<1> QED BY <1>1, FilledIs DEF ApplyConsumed

LEMMA SalvagedIs ==
    ASSUME NEW w \in Belongings, NEW d, d.outputs \in StackList, d.tick \in Nat
    PROVE  Alike(ApplySalvaged(w, d), w)
<1>1. PICK v \in Filled(w) : v = ApplyConsumed(w, d)
  BY ConsumedIs
<1>2. MergeAll(v, d.outputs, d.tick) \in Filled(w)
  BY MergeAllIs
<1> QED BY <1>1, <1>2, FilledIs DEF ApplySalvaged

LEMMA CraftedIs ==
    ASSUME NEW w \in Belongings, NEW d, d.recipe \in DOMAIN Recipe, d.tick \in Nat
    PROVE  Alike(ApplyCrafted(w, d), w)
<1>1. PICK q \in StackList, r \in StackList : q = Recipe[d.recipe].inputs /\ r = Recipe[d.recipe].outputs
  BY InventoryAssumption
<1>2. PICK v \in Filled(w) : v = SpendAll(w, q)
  BY FilledIs, SpendAllIs
<1>3. MergeAll(v, r, d.tick) \in Filled(w)
  BY MergeAllIs
<1> QED BY <1>1, <1>2, <1>3, FilledIs DEF ApplyCrafted

LEMMA EquippedIs ==
    ASSUME NEW w \in Belongings, NEW d, Carried(d.item), d.slot \in Slots
    PROVE  Alike(ApplyEquipped(w, d), w)
<1>1. PICK v : v = RemoveBySource(w, d.from, d.idx)
  OBVIOUS
<1>2. Alike(v, w) /\ v \in Belongings
  BY <1>1, RemoveBySourceIs DEF Alike
<1>3. PICK e : e = [stack |-> d.item.stack, inner |-> d.item.inner]
  OBVIOUS
<1>4. <<e>> \in Worn
  BY <1>3, WornOf
<1>5. Alike([v EXCEPT !.worn[d.slot] = <<e>>], v)
  BY <1>2, <1>4, WornSetTo
<1> QED BY <1>1, <1>2, <1>3, <1>5, AlikeAgain DEF ApplyEquipped

LEMMA UnequippedIs ==
    ASSUME NEW w \in Belongings, NEW d, Carried(d.item), d.slot \in Slots
    PROVE  Alike(ApplyUnequipped(w, d), w)
<1>1. PICK v : v = [w EXCEPT !.worn[d.slot] = <<>>]
  OBVIOUS
<1>2. Alike(v, w) /\ v \in Belongings
  <2>1. <<>> \in Worn
    BY DEF Worn
  <2> QED BY <1>1, <2>1, WornSetTo DEF Alike
<1>3. Alike(PlaceIn(v, d.to, d.item), v)
  BY <1>2, PlaceInIs
<1> QED BY <1>1, <1>2, <1>3, AlikeAgain DEF ApplyUnequipped

(* q has the ids of jobs of s, none of them twice. *)
SameIds(q, s, n, f) ==
    /\ \A k \in DOMAIN q : f[k] \in 1 .. n /\ q[k].id = s[f[k]].id
    /\ \A k, l \in DOMAIN q : k # l => f[k] # f[l]

LEMMA QueueSet ==
    ASSUME NEW w \in Belongings, NEW q \in Seq(JobSet), NEW f, NEW n,
           SameIds(q, w.queue, n, f), n = Len(w.queue)
    PROVE  Alike([w EXCEPT !.queue = q], w)
<1>1. w \in Worlds /\ IdsApart(w) /\ w.queue \in Seq(JobSet)
  BY WorldIs
<1>2. DOMAIN w.queue = 1 .. n
  BY <1>1, LenProperties
<1>3. PICK v : v = [w EXCEPT !.queue = q]
  OBVIOUS
<1>4. v \in Worlds /\ v.queue = q /\ v.nextJob = w.nextJob /\ Counts(v) = Counts(w)
  BY <1>1, <1>3 DEF Worlds, Counts
<1>5. \A k \in DOMAIN q : f[k] \in DOMAIN w.queue /\ q[k].id = w.queue[f[k]].id
  BY <1>2, Zenon DEF SameIds
<1>6. \A k, l \in DOMAIN q : k # l => f[k] # f[l]
  BY Zenon DEF SameIds
<1>7. /\ \A k \in DOMAIN w.queue : w.queue[k].id <= w.nextJob
      /\ \A k, l \in DOMAIN w.queue : k # l => w.queue[k].id # w.queue[l].id
  BY <1>1 DEF IdsApart
<1>8. \A k \in DOMAIN q : q[k].id <= w.nextJob
  BY <1>5, <1>7, Zenon
<1>9. ASSUME NEW k \in DOMAIN q, NEW l \in DOMAIN q, k # l PROVE q[k].id # q[l].id
  <2>1. PICK i \in DOMAIN w.queue, j \in DOMAIN w.queue : i = f[k] /\ j = f[l]
    BY <1>5
  <2>2. i # j /\ q[k].id = w.queue[i].id /\ q[l].id = w.queue[j].id
    BY <1>5, <1>6, <1>9, <2>1
  <2> QED BY <1>7, <2>2
<1> QED BY <1>3, <1>4, <1>8, <1>9 DEF Alike, Belongings, IdsApart

LEMMA QueueWithout ==
    ASSUME NEW w \in Belongings, NEW out
    PROVE  Alike([w EXCEPT !.queue = Without(w.queue, out)], w)
<1>1. PICK q : q = Without(w.queue, out)
  OBVIOUS
<1>2. w.queue \in Seq(JobSet)
  BY WorldIs
<1>3. q \in Seq(JobSet) /\ \E f : Picked(q, w.queue, Len(w.queue), f)
  BY <1>1, <1>2, WithoutPicks
<1>4. PICK f : Picked(q, w.queue, Len(w.queue), f)
  BY <1>3
<1>5. SameIds(q, w.queue, Len(w.queue), f)
  BY <1>4, Zenon DEF Picked, SameIds
<1> QED BY <1>1, <1>3, <1>5, QueueSet

LEMMA JobCancelledIs ==
    ASSUME NEW w \in Belongings, NEW d, d.refund \in StackList
    PROVE  Alike(ApplyJobCancelled(w, d), w)
<1>1. PICK v : v = [w EXCEPT !.queue = Without(w.queue, JobsOf(w, d.job))]
  OBVIOUS
<1>2. Alike(v, w) /\ v \in Belongings
  BY <1>1, QueueWithout DEF Alike
<1>3. w.clock \in Nat
  BY WorldIs
<1>4. Alike(MergeAll(v, d.refund, w.clock), v)
  BY <1>2, <1>3, FilledIs, MergeAllIs
<1> QED BY <1>1, <1>2, <1>4, AlikeAgain DEF ApplyJobCancelled

LEMMA JobQueuedIs ==
    ASSUME NEW w \in Belongings, NEW d, d.inputs \in StackList, d.recipe \in DOMAIN Recipe,
           d.units \in Nat \ {0}, d.job \in Nat, w.nextJob < d.job
    PROVE  ApplyJobQueued(w, d) \in Belongings /\ Counts(ApplyJobQueued(w, d)) = <<d.job, w.nextBox>>
<1>1. PICK v \in Filled(w) : v = SpendAll(w, d.inputs)
  BY FilledIs, SpendAllIs
<1>2. PICK g \in Stores : v = [w EXCEPT !.pockets = g]
  BY DEF Filled
<1>3. v \in Belongings
  BY FilledIs DEF Alike
<1>4. v \in Worlds /\ IdsApart(v) /\ v.queue \in Seq(JobSet) /\ v.nextJob \in Nat
  BY <1>3, WorldIs
<1>5. v.queue = w.queue /\ v.nextJob = w.nextJob /\ v.nextBox = w.nextBox
  BY <1>2, WorldIs DEF Worlds
<1>6. PICK j \in JobSet : j = NewJob(d)
  <2>1. Recipe[d.recipe].time \in Nat
    BY InventoryAssumption
  <2> QED BY <2>1 DEF NewJob, JobSet
<1>7. j.id = d.job
  BY <1>6 DEF NewJob
<1>8. PICK n \in Nat : n = Len(v.queue)
  BY <1>4, LenProperties
<1>9. PICK q : q = Append(v.queue, j)
  OBVIOUS
<1>10. q \in Seq(JobSet) /\ DOMAIN v.queue = 1 .. n /\ DOMAIN q = 1 .. n + 1
  BY <1>4, <1>8, <1>9, AppendProperties, LenProperties
<1>11. q[n + 1] = j /\ \A k \in 1 .. n : q[k] = v.queue[k]
  BY <1>4, <1>8, <1>9, AppendProperties
<1>12. PICK u : u = [v EXCEPT !.queue = q, !.nextJob = d.job]
  OBVIOUS
<1>13. ApplyJobQueued(w, d) = u
  BY <1>1, <1>5, <1>6, <1>9, <1>12 DEF ApplyJobQueued
<1>14. u \in Worlds /\ u.queue = q /\ u.nextJob = d.job /\ u.nextBox = w.nextBox
  BY <1>4, <1>5, <1>10, <1>12 DEF Worlds
<1>15. \A k \in 1 .. n : v.queue[k] \in JobSet /\ v.queue[k].id \in Nat /\ v.queue[k].id <= v.nextJob
  <2>1. \A k \in 1 .. n : v.queue[k] \in JobSet
    BY <1>4, <1>10
  <2> QED BY <1>4, <1>10, <2>1 DEF IdsApart, JobSet
<1>16. \A k, l \in 1 .. n : k # l => v.queue[k].id # v.queue[l].id
  BY <1>4, <1>10 DEF IdsApart
<1>17. \A k \in 1 .. n + 1 : q[k].id <= d.job
  BY <1>5, <1>7, <1>11, <1>15, <1>4
<1>18. \A k, l \in 1 .. n + 1 : k # l => q[k].id # q[l].id
  <2>1. \A k \in 1 .. n : q[k].id < d.job
    BY <1>4, <1>5, <1>11, <1>15
  <2> QED BY <1>7, <1>11, <1>15, <1>16, <2>1
<1>19. IdsApart(u)
  BY <1>10, <1>14, <1>17, <1>18 DEF IdsApart
<1> QED BY <1>13, <1>14, <1>19 DEF Belongings, Counts

(* World containers. *)
LEMMA BoxesSet ==
    ASSUME NEW w \in Belongings, NEW B \in SUBSET Nat, NEW f \in [B -> BoxSet], NEW n \in Nat
    PROVE  LET v == [w EXCEPT !.boxes = f, !.nextBox = n]
           IN  v \in Belongings /\ Counts(v) = <<w.nextJob, n>>
<1>1. f \in BoxMaps
  BY DEF BoxMaps
<1> QED BY <1>1 DEF Counts, Belongings, Worlds, IdsApart

LEMMA BoxSpawnedIs ==
    ASSUME NEW w \in Belongings, NEW d, d.box \in Nat, d.grid \in Stores, d.public \in BOOLEAN
    PROVE  /\ ApplyBoxSpawned(w, d) \in Belongings
           /\ Counts(ApplyBoxSpawned(w, d)) =
                 <<w.nextJob, IF w.nextBox < d.box THEN d.box ELSE w.nextBox>>
<1>1. PICK B \in SUBSET Nat : w.boxes \in [B -> BoxSet]
  BY WorldIs DEF BoxMaps
<1>2. PICK D \in SUBSET Nat : D = B \cup {d.box}
  BY <1>1
<1>3. PICK f : f = [b \in D |-> IF b = d.box THEN [grid |-> d.grid, public |-> d.public]
                                ELSE w.boxes[b]]
  OBVIOUS
<1>4. f \in [D -> BoxSet]
  BY <1>1, <1>2, <1>3 DEF BoxSet
<1>5. PICK n \in Nat : n = IF w.nextBox < d.box THEN d.box ELSE w.nextBox
  BY WorldIs
<1>6. ApplyBoxSpawned(w, d) = [w EXCEPT !.boxes = f, !.nextBox = n]
  BY <1>1, <1>2, <1>3, <1>5 DEF ApplyBoxSpawned, Boxes
<1>7. PICK v : v = [w EXCEPT !.boxes = f, !.nextBox = n]
  OBVIOUS
<1>8. v \in Belongings /\ Counts(v) = <<w.nextJob, n>>
  BY <1>4, <1>7, BoxesSet
<1> QED BY <1>5, <1>6, <1>7, <1>8

LEMMA BoxDespawnedIs ==
    ASSUME NEW w \in Belongings, NEW d
    PROVE  Alike(ApplyBoxDespawned(w, d), w)
<1>1. PICK B \in SUBSET Nat : w.boxes \in [B -> BoxSet]
  BY WorldIs DEF BoxMaps
<1>2. PICK D \in SUBSET Nat : D = B \ {d.box}
  BY <1>1
<1>3. PICK f : f = [b \in D |-> w.boxes[b]]
  OBVIOUS
<1>4. f \in [D -> BoxSet]
  BY <1>1, <1>2, <1>3
<1>5. ApplyBoxDespawned(w, d) = [w EXCEPT !.boxes = f]
  BY <1>1, <1>2, <1>3 DEF ApplyBoxDespawned, Boxes
<1>6. f \in BoxMaps
  BY <1>4 DEF BoxMaps
<1> QED BY <1>5, <1>6 DEF Alike, Counts, Belongings, Worlds, IdsApart

LEMMA BoxAddedIs ==
    ASSUME NEW w \in Belongings, NEW d, Carried(d.item)
    PROVE  Alike(ApplyBoxAdded(w, d), w)
<1>1. CASE d.box \in Boxes(w)
  <2>1. PICK g \in Stores : g = w.boxes[d.box].grid
    BY <1>1, WithBoxIs
  <2>2. Attach(Into(g, d.item), d.item.inner) \in Stores
    BY StoreAttach
  <2> QED BY <1>1, <2>1, <2>2, WithBoxIs DEF ApplyBoxAdded
<1> QED BY <1>1, AlikeItself DEF ApplyBoxAdded

LEMMA BoxRemovedIs ==
    ASSUME NEW w \in Belongings, NEW d
    PROVE  Alike(ApplyBoxRemoved(w, d), w)
<1>1. CASE d.box \in Boxes(w) /\ InRange(w.boxes[d.box].grid, d.idx)
  <2>1. PICK g \in Stores : g = w.boxes[d.box].grid
    BY <1>1, WithBoxIs
  <2>2. RemoveItem(g, d.idx) \in Stores
    BY <1>1, <2>1, StoreRemove DEF InRange
  <2> QED BY <1>1, <2>1, <2>2, WithBoxIs DEF ApplyBoxRemoved
<1> QED BY <1>1, AlikeItself DEF ApplyBoxRemoved

LEMMA ClockSet ==
    ASSUME NEW w \in Belongings, NEW n \in Nat
    PROVE  Alike([w EXCEPT !.clock = n], w)
  BY DEF Alike, Counts, Belongings, Worlds, IdsApart

(* Each record is done by its arm. *)
LEMMA ApplyIs ==
    ASSUME NEW w, NEW d
    PROVE  /\ d.kind = "ItemPickedUp" => Apply(w, d) = ApplyPickedUp(w, d)
           /\ d.kind = "ItemDropped" => Apply(w, d) = ApplyDropped(w, d)
           /\ d.kind = "ItemMoved" => Apply(w, d) = ApplySwapped(w, d)
           /\ d.kind = "ItemMovedBetweenGrids" => Apply(w, d) = ApplyMovedBetweenGrids(w, d)
           /\ d.kind = "ItemConsumed" => Apply(w, d) = ApplyConsumed(w, d)
           /\ d.kind = "ItemsSalvaged" => Apply(w, d) = ApplySalvaged(w, d)
           /\ d.kind = "ItemsCrafted" => Apply(w, d) = ApplyCrafted(w, d)
           /\ d.kind = "ItemEquipped" => Apply(w, d) = ApplyEquipped(w, d)
           /\ d.kind = "ItemUnequipped" => Apply(w, d) = ApplyUnequipped(w, d)
           /\ d.kind = "CraftJobQueued" => Apply(w, d) = ApplyJobQueued(w, d)
           /\ d.kind = "CraftJobCancelled" => Apply(w, d) = ApplyJobCancelled(w, d)
           /\ d.kind = "WorldContainerSpawned" => Apply(w, d) = ApplyBoxSpawned(w, d)
           /\ d.kind = "WorldContainerDespawned" => Apply(w, d) = ApplyBoxDespawned(w, d)
           /\ d.kind = "WorldContainerItemAdded" => Apply(w, d) = ApplyBoxAdded(w, d)
           /\ d.kind = "WorldContainerItemRemoved" => Apply(w, d) = ApplyBoxRemoved(w, d)
           /\ d.kind = "Tick" => Apply(w, d) = ApplyTick(w, d)
  BY DEF Apply

LEMMA ReplayOf ==
    ASSUME NEW w
    PROVE  /\ ApplyAll(w, <<>>) = w
           /\ \A d : ApplyAll(w, <<d>>) = Apply(w, d)
  BY ReplayIsFold, A!FoldEmpty, A!FoldOne

LEMMA ReplayOfTwo ==
    ASSUME NEW w, NEW q, NEW d, NEW e, q = <<d, e>>
    PROVE  ApplyAll(w, q) = Apply(Apply(w, d), e)
<1>1. PICK S : S = {d, e}
  OBVIOUS
<1>2. d \in S /\ e \in S /\ <<d>> \in Seq(S) /\ q \in Seq(S)
  BY <1>1
<1>3. PICK p : p = <<d>>
  OBVIOUS
<1>4. Append(p, e) = q
  <2>1. Append(p, e) \in Seq(S) /\ Len(Append(p, e)) = 2 /\ Append(p, e)[1] = d /\ Append(p, e)[2] = e
    BY <1>2, <1>3, AppendProperties
  <2>2. Len(q) = 2 /\ q[1] = d /\ q[2] = e /\ \A i \in 1 .. 2 : i = 1 \/ i = 2
    OBVIOUS
  <2> QED BY <1>2, <2>1, <2>2, SeqEqual
<1>5. A!Fold(w, Append(p, e)) = Apply(A!Fold(w, p), e)
  <2>1. \A r \in Seq(S) : A!Fold(w, Append(r, e)) = Apply(A!Fold(w, r), e)
    BY <1>2, A!FoldAppend
  <2>2. p \in Seq(S)
    BY <1>2, <1>3
  <2> QED BY <2>1, <2>2, Zenon
<1>6. A!Fold(w, p) = Apply(w, d)
  BY <1>3, A!FoldOne
<1> QED BY <1>4, <1>5, <1>6, ReplayIsFold

LEMMA ReplayOfThree ==
    ASSUME NEW w, NEW q, NEW d, NEW e, NEW f, q = <<d, e, f>>
    PROVE  ApplyAll(w, q) = Apply(Apply(Apply(w, d), e), f)
<1>1. PICK S : S = {d, e, f}
  OBVIOUS
<1>2. f \in S /\ <<d, e>> \in Seq(S) /\ q \in Seq(S)
  BY <1>1
<1>3. PICK p : p = <<d, e>>
  OBVIOUS
<1>4. Append(p, f) = q
  <2>1. /\ Append(p, f) \in Seq(S) /\ Len(Append(p, f)) = 3
        /\ Append(p, f)[1] = d /\ Append(p, f)[2] = e /\ Append(p, f)[3] = f
    BY <1>2, <1>3, AppendProperties
  <2>2. /\ Len(q) = 3 /\ q[1] = d /\ q[2] = e /\ q[3] = f
        /\ \A i \in 1 .. 3 : i = 1 \/ i = 2 \/ i = 3
    OBVIOUS
  <2> QED BY <1>2, <2>1, <2>2, SeqEqual
<1>5. A!Fold(w, Append(p, f)) = Apply(A!Fold(w, p), f)
  <2>1. \A r \in Seq(S) : A!Fold(w, Append(r, f)) = Apply(A!Fold(w, r), f)
    BY <1>2, A!FoldAppend
  <2>2. p \in Seq(S)
    BY <1>2, <1>3
  <2> QED BY <2>1, <2>2, Zenon
<1>6. A!Fold(w, p) = Apply(Apply(w, d), e)
  BY <1>3, ReplayOfTwo, ReplayIsFold
<1> QED BY <1>4, <1>5, <1>6, ReplayIsFold

-----------------------------------------------------------------------------
(* The inductive invariant: both worlds are made of well placed things,    *)
(* every job with an id of its own; they have handed out the same ids,     *)
(* whatever else they differ in; and but for the gaps they are the same.   *)

IInv ==
    /\ live \in Belongings /\ replica \in Belongings
    /\ Counts(live) = Counts(replica)
    /\ ReplayFollows

(* What each step does. *)
Onward ==
    /\ IInv'
    /\ live.nextJob <= live'.nextJob /\ live.nextBox <= live'.nextBox

LEMMA DoKeeps ==
    ASSUME IInv, NEW w, NEW log, NEW odd, Do(w, log, odd), NEW r, r = ApplyAll(replica, log),
           w \in Belongings, r \in Belongings, Counts(r) = Counts(w),
           live.nextJob <= w.nextJob, live.nextBox <= w.nextBox,
           odd \cap REPLAY_GAPS = {} /\ replica = live => r = w
    PROVE  Onward
<1>1. live' = w /\ replica' = r /\ gaps' = gaps \cup odd
  BY DEF Do
<1>2. ReplayFollows'
  <2> SUFFICES ASSUME gaps' \cap REPLAY_GAPS = {} PROVE replica' = live'
    BY DEF ReplayFollows
  <2>1. gaps \cap REPLAY_GAPS = {} /\ odd \cap REPLAY_GAPS = {}
    BY <1>1
  <2>2. replica = live
    BY <2>1 DEF IInv, ReplayFollows
  <2> QED BY <1>1, <2>1, <2>2
<1> QED BY <1>1, <1>2 DEF IInv, Onward

LEMMA AlikeKeeps ==
    ASSUME IInv, NEW w, NEW log, NEW odd, Do(w, log, odd), NEW r, r = ApplyAll(replica, log),
           Alike(w, live), Alike(r, replica),
           odd \cap REPLAY_GAPS = {} /\ replica = live => r = w
    PROVE  Onward
<1>1. w \in Belongings /\ r \in Belongings /\ Counts(r) = Counts(w) /\ Counts(w) = Counts(live)
  BY DEF IInv, Alike
<1>2. live.nextJob <= w.nextJob /\ live.nextBox <= w.nextBox
  <2>1. w.nextJob = live.nextJob /\ w.nextBox = live.nextBox
    BY <1>1 DEF Counts
  <2>2. live.nextJob \in Nat /\ live.nextBox \in Nat
    BY WorldIs DEF IInv
  <2> QED BY <2>1, <2>2
<1> QED BY <1>1, <1>2, DoKeeps

(* A call with a record that does to the live world what the call does. *)
LEMMA OneKeeps ==
    ASSUME IInv, NEW w, NEW d, NEW odd, Do(w, <<d>>, odd),
           Alike(w, live), Alike(Apply(replica, d), replica),
           odd \cap REPLAY_GAPS = {} => Apply(live, d) = w
    PROVE  Onward
<1>1. PICK r : r = ApplyAll(replica, <<d>>)
  OBVIOUS
<1>2. r = Apply(replica, d)
  BY <1>1, ReplayOf
<1>3. PICK log : log = <<d>>
  OBVIOUS
<1> QED BY <1>1, <1>2, <1>3, AlikeKeeps

(* A call without one. *)
LEMMA NoneKeeps ==
    ASSUME IInv, NEW w, NEW odd, Do(w, <<>>, odd), Alike(w, live),
           odd \cap REPLAY_GAPS = {} => w = live
    PROVE  Onward
<1>1. replica = ApplyAll(replica, <<>>)
  BY ReplayOf
<1>2. Alike(replica, replica)
  BY AlikeItself DEF IInv
<1>3. PICK log : log = <<>>
  OBVIOUS
<1> QED BY <1>1, <1>2, <1>3, AlikeKeeps

LEMMA LiveIs == ASSUME IInv PROVE live \in Belongings /\ replica \in Belongings /\ live.clock \in Nat
  BY WorldIs DEF IInv

-----------------------------------------------------------------------------
(* Calls on the pockets.                                                   *)

LEMMA GrantItemKeeps ==
    ASSUME IInv, NEW id \in ItemIds, NEW n \in Nat, GrantItem(id, n)
    PROVE  Onward
<1>1. PICK d : d = [kind |-> "ItemPickedUp", id |-> id, count |-> n, tick |-> live.clock]
  OBVIOUS
<1>2. d.kind = "ItemPickedUp" /\ d.id = id /\ d.count = n /\ d.tick = live.clock
  BY <1>1
<1>3. PICK w : w = ApplyPickedUp(live, d)
  OBVIOUS
<1>4. Do(w, <<d>>, {})
  BY <1>1, <1>2, <1>3 DEF GrantItem, ApplyPickedUp
<1>5. \A v : Apply(v, d) = ApplyPickedUp(v, d)
  BY <1>2, ApplyIs
<1>6. Alike(w, live) /\ Alike(Apply(replica, d), replica)
  BY <1>2, <1>3, <1>5, LiveIs, PickedUpIs
<1> QED BY <1>3, <1>4, <1>5, <1>6, OneKeeps

LEMMA MoveBetweenSlotsKeeps ==
    ASSUME IInv, NEW i, NEW j, MoveBetweenSlots(i, j)
    PROVE  Onward
<1>1. PICK d : d = [kind |-> "ItemMoved", from |-> i, to |-> j]
  OBVIOUS
<1>2. d.kind = "ItemMoved" /\ d.from = i /\ d.to = j
  BY <1>1
<1>3. PICK w : w = ApplySwapped(live, d)
  OBVIOUS
<1>4. Do(w, <<d>>, {})
  BY <1>1, <1>2, <1>3 DEF MoveBetweenSlots, ApplySwapped
<1>5. \A v : Apply(v, d) = ApplySwapped(v, d)
  BY <1>2, ApplyIs
<1>6. Alike(w, live) /\ Alike(Apply(replica, d), replica)
  BY <1>3, <1>5, LiveIs, SwappedIs
<1> QED BY <1>3, <1>4, <1>5, <1>6, OneKeeps

LEMMA ConsumeFromSlotKeeps ==
    ASSUME IInv, NEW i, ConsumeFromSlot(i)
    PROVE  Onward
<1>1. PICK d : d = [kind |-> "ItemConsumed", idx |-> i]
  OBVIOUS
<1>2. d.kind = "ItemConsumed" /\ d.idx = i
  BY <1>1
<1>3. PICK w : w = ApplyConsumed(live, d)
  OBVIOUS
<1>4. Do(w, <<d>>, {})
  BY <1>1, <1>2, <1>3 DEF ConsumeFromSlot, ApplyConsumed
<1>5. \A v : Apply(v, d) = ApplyConsumed(v, d)
  BY <1>2, ApplyIs
<1>6. Alike(w, live) /\ Alike(Apply(replica, d), replica)
  BY <1>3, <1>5, LiveIs, ConsumedIs, FilledIs
<1> QED BY <1>3, <1>4, <1>5, <1>6, OneKeeps

LEMMA SalvageKeeps ==
    ASSUME IInv, NEW i, Salvage(i)
    PROVE  Onward
<1>1. PICK p : p = live.pockets.items[i]
  OBVIOUS
<1>2. InRange(live.pockets, i) /\ Carried(p)
  BY <1>1, LiveIs, WorldIs, StoreItem DEF Salvage, InRange
<1>3. PICK outputs \in Def[p.stack.id].salvage :
         Do(MergeAll([live EXCEPT !.pockets = TakeOne(@, i)], outputs, live.clock),
            <<[kind |-> "ItemsSalvaged", idx |-> i, outputs |-> outputs, tick |-> live.clock]>>, {})
  BY <1>1 DEF Salvage
<1>4. outputs \in StackList
  <2>1. p.stack.id \in ItemIds
    BY <1>2 DEF Carried, StackSet
  <2> QED BY <2>1, InventoryAssumption
<1>5. PICK d : d = [kind |-> "ItemsSalvaged", idx |-> i, outputs |-> outputs, tick |-> live.clock]
  OBVIOUS
<1>6. d.kind = "ItemsSalvaged" /\ d.idx = i /\ d.outputs = outputs /\ d.tick = live.clock
  BY <1>5
<1>7. PICK w : w = ApplySalvaged(live, d)
  OBVIOUS
<1>8. Do(w, <<d>>, {})
  BY <1>2, <1>3, <1>5, <1>6, <1>7 DEF ApplySalvaged, ApplyConsumed
<1>9. \A v : Apply(v, d) = ApplySalvaged(v, d)
  BY <1>6, ApplyIs
<1>10. Alike(w, live) /\ Alike(Apply(replica, d), replica)
  BY <1>4, <1>6, <1>7, <1>9, LiveIs, SalvagedIs
<1> QED BY <1>7, <1>8, <1>9, <1>10, OneKeeps

-----------------------------------------------------------------------------
(* An item taken out, and put back.                                        *)

LEMMA TakenIs ==
    ASSUME IInv, NEW src, NEW i, HasItem(src, i), NEW p, p = GridOf(live, src).items[i]
    PROVE  /\ Carried(p)
           /\ Alike(Taken(src, i), live)
           /\ RemoveBySource(live, src, i) = Taken(src, i)
           /\ Taken(src, i).boxes = live.boxes
<1>1. PICK g \in Stores : g = GridOf(live, src) /\ i \in DOMAIN g.items
  BY LiveIs, GridOfIs DEF HasItem, InRange
<1>2. PICK h \in Stores : h = RemoveItem(g, i) /\ h.w = g.w /\ h.h = g.h
  BY <1>1, StoreRemove
<1>3. Carried(p)
  BY <1>1, StoreItem
<1>4. HasGrid(live, src) /\ Taken(src, i) = WithGrid(live, src, h)
  BY <1>1, <1>2 DEF Taken, HasItem
<1>5. Alike(WithGrid(live, src, h), live) /\ WithGrid(live, src, h).boxes = live.boxes
  BY <1>1, <1>2, <1>4, LiveIs, WithGridIs
<1>6. RemoveBySource(live, src, i) = Taken(src, i)
  BY <1>1, <1>2, <1>4 DEF RemoveBySource, HasItem
<1> QED BY <1>3, <1>4, <1>5, <1>6

(* A world with the same pockets and paper doll. *)
LEMMA SameGrids ==
    ASSUME NEW v, NEW w, v.pockets = w.pockets, v.worn = w.worn, NEW src
    PROVE  HasGrid(v, src) = HasGrid(w, src) /\ GridOf(v, src) = GridOf(w, src)
  BY DEF HasGrid, GridOf

(* The containers may have changed in between. *)
LEMMA PutBackIs ==
    ASSUME IInv, NEW src, NEW i, HasItem(src, i), NEW p, p = GridOf(live, src).items[i],
           NEW w, Alike(w, live), w.pockets = Taken(src, i).pockets, w.worn = Taken(src, i).worn
    PROVE  /\ Alike(PutBack(w, src, p), live)
           /\ w = Taken(src, i) /\ Reordered(src, i) = {} => PutBack(w, src, p) = live
<1>1. PICK g \in Stores : g = GridOf(live, src) /\ i \in DOMAIN g.items
  BY LiveIs, GridOfIs DEF HasItem, InRange
<1>2. PICK h \in Stores : h = RemoveItem(g, i) /\ h.w = g.w /\ h.h = g.h
  BY <1>1, StoreRemove
<1>3. PICK t : t = Taken(src, i)
  OBVIOUS
<1>4. HasGrid(live, src) /\ t = WithGrid(live, src, h)
  BY <1>1, <1>2, <1>3 DEF Taken, HasItem
<1>5. /\ HasGrid(t, src) /\ GridOf(t, src) = h
      /\ \A x : WithGrid(t, src, x) = WithGrid(live, src, x)
      /\ WithGrid(live, src, g) = live
  BY <1>1, <1>2, <1>4, LiveIs, WithGridIs
<1>6. HasGrid(w, src) /\ GridOf(w, src) = h
  BY <1>3, <1>5, SameGrids
<1>7. PICK r \in Stores : r = Returned(g, i) /\ r.w = g.w /\ r.h = g.h
  BY <1>1, StoreReturned
<1>8. PutBack(w, src, p) = WithGrid(w, src, r)
  BY <1>1, <1>2, <1>6, <1>7 DEF PutBack, Returned
<1>9. w \in Belongings
  BY DEF Alike
<1>10. Alike(WithGrid(w, src, r), w)
  BY <1>2, <1>6, <1>7, <1>9, WithGridIs
<1>11. ASSUME w = t, Reordered(src, i) = {} PROVE PutBack(w, src, p) = live
  <2>1. i = Len(g.items)
    BY <1>1, <1>11 DEF Reordered, If
  <2>2. r = g
    BY <1>1, <1>7, <2>1, StoreReturned
  <2> QED BY <1>5, <1>8, <1>11, <2>2
<1> QED BY <1>3, <1>8, <1>10, <1>11, AlikeAgain

LEMMA RefusedKeeps ==
    ASSUME IInv, NEW src, NEW i, HasItem(src, i), NEW p, p = GridOf(live, src).items[i],
           Do(PutBack(Taken(src, i), src, p), <<>>, Reordered(src, i))
    PROVE  Onward
<1>1. PICK t, odd : t = Taken(src, i) /\ odd = Reordered(src, i)
  OBVIOUS
<1>2. Alike(t, live)
  BY <1>1, TakenIs
<1>3. PICK w : w = PutBack(t, src, p)
  OBVIOUS
<1>4. Alike(w, live) /\ (odd = {} => w = live)
  BY <1>1, <1>2, <1>3, PutBackIs
<1>5. odd \cap REPLAY_GAPS = {} => odd = {}
  BY <1>1 DEF Reordered, If, REPLAY_GAPS
<1>6. Do(w, <<>>, odd)
  BY <1>1, <1>3
<1> QED BY <1>4, <1>5, <1>6, NoneKeeps

LEMMA MoveBetweenGridsKeeps ==
    ASSUME IInv, NEW src, NEW i, NEW dst, MoveBetweenGrids(src, i, dst)
    PROVE  Onward
<1>1. PICK p, t : p = GridOf(live, src).items[i] /\ t = Taken(src, i)
  OBVIOUS
<1>2. HasItem(src, i)
  BY DEF MoveBetweenGrids
<1>3. CASE HasGrid(t, dst) /\ HasRoom(GridOf(t, dst), p.stack.id)
  <2>1. PICK d : d = [kind |-> "ItemMovedBetweenGrids", from |-> src, idx |-> i, to |-> dst, item |-> p]
    OBVIOUS
  <2>2. d.kind = "ItemMovedBetweenGrids" /\ d.from = src /\ d.idx = i /\ d.to = dst /\ d.item = p
    BY <2>1
  <2>3. PICK w : w = ApplyMovedBetweenGrids(live, d)
    OBVIOUS
  <2>4. RemoveBySource(live, src, i) = t /\ Carried(p)
    BY <1>1, <1>2, TakenIs
  <2>5. w = PlaceIn(t, dst, p)
    BY <2>2, <2>3, <2>4 DEF ApplyMovedBetweenGrids
  <2>6. Do(w, <<d>>, {})
    BY <1>1, <1>3, <2>1, <2>5 DEF MoveBetweenGrids
  <2>7. \A v : Apply(v, d) = ApplyMovedBetweenGrids(v, d)
    BY <2>2, ApplyIs
  <2>8. Alike(w, live) /\ Alike(Apply(replica, d), replica)
    BY <2>2, <2>3, <2>4, <2>7, LiveIs, MovedIs
  <2> QED BY <2>3, <2>6, <2>7, <2>8, OneKeeps
<1>4. CASE ~(HasGrid(t, dst) /\ HasRoom(GridOf(t, dst), p.stack.id))
  <2>1. Do(PutBack(Taken(src, i), src, p), <<>>, Reordered(src, i))
    BY <1>1, <1>4 DEF MoveBetweenGrids
  <2> QED BY <1>1, <1>2, <2>1, RefusedKeeps
<1> QED BY <1>3, <1>4

-----------------------------------------------------------------------------
(* The paper doll.                                                         *)

LEMMA EquipKeeps ==
    ASSUME IInv, NEW slot \in Slots, NEW src, NEW i, Equip(slot, src, i)
    PROVE  Onward
<1>1. PICK p, t : p = GridOf(live, src).items[i] /\ t = Taken(src, i)
  OBVIOUS
<1>2. HasItem(src, i)
  BY DEF Equip
<1>3. CASE slot \in Def[p.stack.id].slots
  <2>1. PICK d : d = [kind |-> "ItemEquipped", slot |-> slot, item |-> p, from |-> src, idx |-> i]
    OBVIOUS
  <2>2. d.kind = "ItemEquipped" /\ d.slot = slot /\ d.item = p /\ d.from = src /\ d.idx = i
    BY <2>1
  <2>3. PICK w : w = ApplyEquipped(live, d)
    OBVIOUS
  <2>4. RemoveBySource(live, src, i) = t /\ Carried(p)
    BY <1>1, <1>2, TakenIs
  <2>5. w = [t EXCEPT !.worn[slot] = <<[stack |-> p.stack, inner |-> p.inner]>>]
    BY <2>2, <2>3, <2>4 DEF ApplyEquipped
  <2>6. Do(w, <<d>>, {})
    BY <1>1, <1>3, <2>1, <2>5 DEF Equip
  <2>7. \A v : Apply(v, d) = ApplyEquipped(v, d)
    BY <2>2, ApplyIs
  <2>8. Alike(w, live) /\ Alike(Apply(replica, d), replica)
    BY <2>2, <2>3, <2>4, <2>7, LiveIs, EquippedIs
  <2> QED BY <2>3, <2>6, <2>7, <2>8, OneKeeps
<1>4. CASE slot \notin Def[p.stack.id].slots
  <2>1. Do(PutBack(Taken(src, i), src, p), <<>>, Reordered(src, i))
    BY <1>1, <1>4 DEF Equip
  <2> QED BY <1>1, <1>2, <2>1, RefusedKeeps
<1> QED BY <1>3, <1>4

LEMMA UnequipKeeps ==
    ASSUME IInv, NEW slot \in Slots, NEW dst, Unequip(slot, dst)
    PROVE  Onward
<1>1. PICK e, t : e = live.worn[slot][1] /\ t = [live EXCEPT !.worn[slot] = <<>>]
  OBVIOUS
<1>2. Carried(e)
  <2>1. PICK x \in Worn : x = live.worn[slot] /\ x # <<>>
    BY LiveIs, WorldIs DEF Unequip
  <2> QED BY <1>1, <2>1, WornIs
<1>3. PICK d : d = [kind |-> "ItemUnequipped", slot |-> slot, item |-> e, to |-> dst]
  OBVIOUS
<1>4. d.kind = "ItemUnequipped" /\ d.slot = slot /\ d.item = e /\ d.to = dst
  BY <1>3
<1>5. PICK w : w = ApplyUnequipped(live, d)
  OBVIOUS
<1>6. w = PlaceIn(t, dst, e)
  BY <1>1, <1>4, <1>5 DEF ApplyUnequipped
<1>7. Do(w, <<d>>, {})
  BY <1>1, <1>3, <1>6 DEF Unequip
<1>8. \A v : Apply(v, d) = ApplyUnequipped(v, d)
  BY <1>4, ApplyIs
<1>9. Alike(w, live) /\ Alike(Apply(replica, d), replica)
  BY <1>2, <1>4, <1>5, <1>8, LiveIs, UnequippedIs
<1> QED BY <1>5, <1>7, <1>8, <1>9, OneKeeps

LEMMA ConsumeFromHotbarKeeps ==
    ASSUME IInv, NEW slot \in Slots, ConsumeFromHotbar(slot)
    PROVE  Onward
<1>1. PICK e : e = live.worn[slot]
  OBVIOUS
<1>2. e \in Worn /\ e # <<>>
  BY <1>1, LiveIs, WorldIs DEF ConsumeFromHotbar
<1>3. PICK c \in WornSet : e = <<c>> /\ Carried(c)
  BY <1>2, WornIs
<1>4. PICK left : left = c.stack.count - 1
  OBVIOUS
<1>5. PICK x : x = IF left = 0 THEN <<>> ELSE <<[c EXCEPT !.stack.count = left]>>
  OBVIOUS
<1>6. x \in Worn
  <2>1. CASE left = 0
    BY <1>5, <2>1 DEF Worn
  <2>2. CASE left # 0
    <3>1. PICK y : y = [c EXCEPT !.stack.count = left]
      OBVIOUS
    <3>2. c \in [stack : StackSet({<<>>}), inner : Contents]
      BY DEF WornSet
    <3>3. PICK n \in Nat : n = c.stack.count /\ n \in 1 .. Def[c.stack.id].stack
      BY <1>3 DEF Carried, StackSet
    <3>4. left \in Nat /\ left \in 1 .. Def[c.stack.id].stack
      <4>1. PICK m \in Nat : m = Def[c.stack.id].stack
        BY <3>2, GridAssumption DEF StackSet
      <4>2. n \in 1 .. m /\ left = n - 1
        BY <1>4, <3>3, <4>1
      <4> QED BY <2>2, <4>1, <4>2
    <3>5. /\ y = [stack |-> y.stack, inner |-> y.inner] /\ y.inner = c.inner
          /\ y.stack \in StackSet({<<>>}) /\ y.stack.id = c.stack.id /\ y.stack.count = left
      BY <3>1, <3>2, <3>4 DEF StackSet
    <3>6. Carried(y)
      BY <1>3, <3>4, <3>5 DEF Carried
    <3>7. <<y>> \in Worn
      BY <3>5, <3>6, WornOf
    <3> QED BY <1>5, <2>2, <3>1, <3>7
  <2> QED BY <2>1, <2>2
<1>7. PICK w : w = [live EXCEPT !.worn[slot] = x]
  OBVIOUS
<1>8. Do(w, <<>>, {"hotbar"})
  BY <1>1, <1>3, <1>4, <1>5, <1>7 DEF ConsumeFromHotbar
<1>9. Alike(w, live)
  BY <1>6, <1>7, LiveIs, WornSetTo
<1>10. {"hotbar"} \cap REPLAY_GAPS # {}
  BY DEF REPLAY_GAPS
<1> QED BY <1>8, <1>9, <1>10, NoneKeeps

-----------------------------------------------------------------------------
(* World containers.                                                       *)

LEMMA SpawnWorldContainerKeeps ==
    ASSUME IInv, NEW public \in BOOLEAN, SpawnWorldContainer(public)
    PROVE  Onward
<1>1. PICK g \in Stores : g = EmptyGrid(GroundW, GroundH)
  BY EmptyStore, InventoryAssumption
<1>2. PICK d : d = SpawnLog(live.nextBox + 1, g, public)
  OBVIOUS
<1>3. d.kind = "WorldContainerSpawned" /\ d.box = live.nextBox + 1 /\ d.grid = g /\ d.public = public
  BY <1>2 DEF SpawnLog
<1>4. live.nextBox \in Nat /\ live.nextJob \in Nat /\ d.box \in Nat
  BY <1>3, LiveIs, WorldIs
<1>5. PICK w, r : w = ApplyBoxSpawned(live, d) /\ r = ApplyBoxSpawned(replica, d)
  OBVIOUS
<1>6. w \in Belongings /\ Counts(w) = <<live.nextJob, live.nextBox + 1>>
  <2>1. /\ w \in Belongings
        /\ Counts(w) = <<live.nextJob, IF live.nextBox < d.box THEN d.box ELSE live.nextBox>>
    BY <1>3, <1>4, <1>5, LiveIs, BoxSpawnedIs
  <2>2. live.nextBox < d.box
    BY <1>3, <1>4
  <2> QED BY <1>3, <2>1, <2>2
<1>7. r \in Belongings /\ Counts(r) = <<live.nextJob, live.nextBox + 1>>
  <2>1. replica.nextJob = live.nextJob /\ replica.nextBox = live.nextBox
    BY DEF IInv, Counts
  <2>2. /\ r \in Belongings
        /\ Counts(r) = <<replica.nextJob, IF replica.nextBox < d.box THEN d.box ELSE replica.nextBox>>
    BY <1>3, <1>4, <1>5, LiveIs, BoxSpawnedIs
  <2>3. live.nextBox < d.box
    BY <1>3, <1>4
  <2> QED BY <1>3, <2>1, <2>2, <2>3
<1>8. Do(w, <<d>>, {})
  BY <1>1, <1>2, <1>5 DEF SpawnWorldContainer, WithNewBox
<1>9. PICK log : log = <<d>>
  OBVIOUS
<1>10. r = ApplyAll(replica, log)
  <2>1. r = Apply(replica, d)
    BY <1>3, <1>5, ApplyIs
  <2> QED BY <1>9, <2>1, ReplayOf
<1>11. live.nextJob <= w.nextJob /\ live.nextBox <= w.nextBox
  <2>1. w.nextJob = live.nextJob /\ w.nextBox = live.nextBox + 1
    BY <1>6 DEF Counts
  <2> QED BY <1>4, <2>1
<1> QED BY <1>5, <1>6, <1>7, <1>8, <1>9, <1>10, <1>11, DoKeeps

LEMMA DespawnWorldContainerKeeps ==
    ASSUME IInv, NEW b, DespawnWorldContainer(b)
    PROVE  Onward
<1>1. PICK d : d = [kind |-> "WorldContainerDespawned", box |-> b]
  OBVIOUS
<1>2. d.kind = "WorldContainerDespawned"
  BY <1>1
<1>3. PICK w : w = ApplyBoxDespawned(live, d)
  OBVIOUS
<1>4. Do(w, <<d>>, {})
  BY <1>1, <1>3 DEF DespawnWorldContainer
<1>5. \A v : Apply(v, d) = ApplyBoxDespawned(v, d)
  BY <1>2, ApplyIs
<1>6. Alike(w, live) /\ Alike(Apply(replica, d), replica)
  BY <1>3, <1>5, LiveIs, BoxDespawnedIs
<1> QED BY <1>3, <1>4, <1>5, <1>6, OneKeeps

LEMMA BoxItem ==
    ASSUME NEW w \in Belongings, NEW b \in Boxes(w), NEW i, InRange(w.boxes[b].grid, i)
    PROVE  Carried(w.boxes[b].grid.items[i])
  BY WithBoxIs, StoreItem DEF InRange

(* The pockets and a container are changed in either order. *)
LEMMA BoxThenPockets ==
    ASSUME NEW w \in Belongings, NEW b \in Boxes(w), NEW g, NEW h
    PROVE  WithBox([w EXCEPT !.pockets = h], b, g) = [WithBox(w, b, g) EXCEPT !.pockets = h]
  BY WorldIs DEF WithBox, Worlds

LEMMA TakeFromContainerKeeps ==
    ASSUME IInv, NEW b, NEW i, TakeFromContainer(b, i)
    PROVE  Onward
<1>1. PICK p : p = live.boxes[b].grid.items[i]
  OBVIOUS
<1>2. b \in Boxes(live) /\ InRange(live.boxes[b].grid, i) /\ Carried(p)
  BY <1>1, LiveIs, BoxItem DEF TakeFromContainer
<1>3. p.stack.id \in ItemIds /\ p.stack.count \in Nat /\ p.stack.tick \in Nat
  BY <1>2 DEF Carried, StackSet
<1>4. PICK tick \in Nat : tick = IF p.stack.tick < live.clock THEN live.clock ELSE p.stack.tick
  BY <1>3, LiveIs
<1>5. PICK r : r = GrantOrMerge(live.pockets, p.stack.id, p.stack.count, tick)
  OBVIOUS
<1>6. r.grid \in Stores
  BY <1>3, <1>5, LiveIs, WorldIs, StoreGrant
<1>7. PICK w : w = [live EXCEPT !.pockets = r.grid]
  OBVIOUS
<1>8. Alike(w, live) /\ w \in Belongings /\ w.boxes = live.boxes
  <2>1. Alike(w, live)
    BY <1>6, <1>7, LiveIs, PocketsSet
  <2> QED BY <1>7, <2>1 DEF Alike
<1>9. CASE r.left > 0
  <2>1. PICK odd : odd = If("partial", w # live)
    OBVIOUS
  <2>2. Do(w, <<>>, odd)
    BY <1>1, <1>4, <1>5, <1>7, <1>9, <2>1 DEF TakeFromContainer
  <2>3. odd \cap REPLAY_GAPS = {} => w = live
    BY <2>1 DEF If, REPLAY_GAPS
  <2> QED BY <1>8, <2>2, <2>3, NoneKeeps
<1>10. CASE ~(r.left > 0)
  <2>1. PICK d, e : /\ d = [kind |-> "WorldContainerItemRemoved", box |-> b, idx |-> i]
                    /\ e = [kind |-> "ItemPickedUp", id |-> p.stack.id, count |-> p.stack.count,
                            tick |-> p.stack.tick]
    OBVIOUS
  <2>2. /\ d.kind = "WorldContainerItemRemoved" /\ d.box = b /\ d.idx = i
        /\ e.kind = "ItemPickedUp" /\ e.id = p.stack.id /\ e.count = p.stack.count /\ e.tick = p.stack.tick
    BY <2>1
  <2>3. PICK g : g = RemoveItem(live.boxes[b].grid, i)
    OBVIOUS
  <2>4. g \in Stores
    BY <1>2, <2>3, LiveIs, WithBoxIs, StoreRemove DEF InRange
  <2>5. PICK u, odd : /\ u = WithBox(w, b, g)
                      /\ odd = If("age", p.stack.tick < live.clock) \cup If("payload", Loaded(p))
    OBVIOUS
  <2>6. Do(u, <<d, e>>, odd)
    BY <1>1, <1>4, <1>5, <1>7, <1>10, <2>1, <2>3, <2>5 DEF TakeFromContainer
  <2>7. Alike(u, live)
    <3>1. b \in Boxes(w)
      BY <1>2, <1>8 DEF Boxes
    <3>2. Alike(u, w)
      BY <1>8, <2>4, <2>5, <3>1, WithBoxIs
    <3> QED BY <1>8, <3>2, AlikeAgain
  <2>8. \A v : Apply(Apply(v, d), e) = ApplyPickedUp(ApplyBoxRemoved(v, d), e)
    BY <2>2, ApplyIs
  <2>9. PICK s, t : s = ApplyBoxRemoved(replica, d) /\ t = ApplyPickedUp(s, e)
    OBVIOUS
  <2>10. Alike(t, replica)
    <3>1. Alike(s, replica) /\ s \in Belongings
      BY <2>9, LiveIs, BoxRemovedIs DEF Alike
    <3>2. Alike(t, s)
      BY <1>3, <2>2, <2>9, <3>1, PickedUpIs
    <3> QED BY <3>1, <3>2, AlikeAgain
  <2>11. PICK log : log = <<d, e>>
    OBVIOUS
  <2>12. t = ApplyAll(replica, log)
    <3>1. t = Apply(Apply(replica, d), e)
      BY <2>8, <2>9
    <3>2. ApplyAll(replica, log) = Apply(Apply(replica, d), e)
      BY <2>11, ReplayOfTwo
    <3> QED BY <3>1, <3>2
  <2>13. ASSUME odd \cap REPLAY_GAPS = {}, replica = live PROVE t = u
    <3>1. ~(p.stack.tick < live.clock)
      BY <2>5, <2>13 DEF If, REPLAY_GAPS
    <3>2. tick = e.tick
      BY <1>4, <2>2, <3>1
    <3>3. s = WithBox(live, b, g)
      BY <1>2, <2>2, <2>3, <2>9, <2>13 DEF ApplyBoxRemoved
    <3>4. s.pockets = live.pockets
      BY <3>3, LiveIs, WorldIs DEF WithBox, Worlds
    <3>5. t = [s EXCEPT !.pockets = r.grid]
      BY <1>5, <2>2, <2>9, <3>2, <3>4 DEF ApplyPickedUp, Merge
    <3>6. u = [s EXCEPT !.pockets = r.grid]
      BY <1>2, <1>7, <2>5, <3>3, LiveIs, BoxThenPockets
    <3> QED BY <3>5, <3>6
  <2> QED BY <2>6, <2>7, <2>10, <2>11, <2>12, <2>13, AlikeKeeps
<1> QED BY <1>9, <1>10

(* An item added; its record attaches what is in it, the call does not. *)
LEMMA AddedIs ==
    ASSUME NEW v \in Belongings, NEW b \in Boxes(v), NEW p, Carried(p),
           NEW w, w = WithBox(v, b, Into(v.boxes[b].grid, p).grid)
    PROVE  /\ Alike(w, v)
           /\ Alike(Apply(v, AddLog(b, p)), v)
           /\ ~Loaded(p) => Apply(v, AddLog(b, p)) = w
<1>1. PICK d : d = AddLog(b, p)
  OBVIOUS
<1>2. d.kind = "WorldContainerItemAdded" /\ d.box = b /\ d.item = p
  BY <1>1 DEF AddLog
<1>3. PICK g \in Stores : g = v.boxes[b].grid
  BY WithBoxIs
<1>4. /\ Into(g, p).grid \in Stores
      /\ ~Loaded(p) => Attach(Into(g, p), p.inner) = Into(g, p).grid
  BY StoreAttach
<1>5. Alike(w, v)
  BY <1>3, <1>4, WithBoxIs
<1>6. Apply(v, d) = ApplyBoxAdded(v, d)
  BY <1>2, ApplyIs
<1>7. Alike(Apply(v, d), v)
  BY <1>2, <1>6, BoxAddedIs
<1>8. ApplyBoxAdded(v, d) = WithBox(v, b, Attach(Into(g, p), p.inner))
  BY <1>2, <1>3 DEF ApplyBoxAdded
<1> QED BY <1>1, <1>3, <1>4, <1>5, <1>6, <1>7, <1>8

(* In any world, where there may be no such container. *)
LEMMA AddApplied ==
    ASSUME NEW v \in Belongings, NEW b, NEW p, Carried(p)
    PROVE  Alike(Apply(v, AddLog(b, p)), v)
<1>1. PICK d : d = AddLog(b, p)
  OBVIOUS
<1>2. d.kind = "WorldContainerItemAdded" /\ d.item = p
  BY <1>1 DEF AddLog
<1>3. Apply(v, d) = ApplyBoxAdded(v, d)
  BY <1>2, ApplyIs
<1> QED BY <1>1, <1>2, <1>3, BoxAddedIs

LEMMA PutInContainerKeeps ==
    ASSUME IInv, NEW b, NEW src, NEW i, PutInContainer(b, src, i)
    PROVE  Onward
<1>1. PICK p, t : p = GridOf(live, src).items[i] /\ t = Taken(src, i)
  OBVIOUS
<1>2. b \in Boxes(live) /\ HasItem(src, i)
  BY DEF PutInContainer
<1>3. Carried(p) /\ Alike(t, live) /\ t.boxes = live.boxes /\ t \in Belongings
  <2>1. Carried(p) /\ Alike(t, live) /\ t.boxes = live.boxes
    BY <1>1, <1>2, TakenIs
  <2> QED BY <2>1 DEF Alike
<1>4. b \in Boxes(t)
  BY <1>2, <1>3 DEF Boxes
<1>5. PICK r, w : r = Into(live.boxes[b].grid, p) /\ w = WithBox(t, b, r.grid)
  OBVIOUS
<1>6. Alike(w, live)
  <2>1. Alike(w, t)
    BY <1>3, <1>4, <1>5, AddedIs
  <2> QED BY <1>3, <2>1, AlikeAgain
<1>7. w.pockets = t.pockets /\ w.worn = t.worn
  BY <1>3, <1>5, WorldIs DEF WithBox, Worlds
<1>8. CASE r.left > 0
  <2>1. PICK u, odd : /\ u = PutBack(w, src, p)
                      /\ odd = Reordered(src, i) \cup If("partial", r.grid # live.boxes[b].grid)
    OBVIOUS
  <2>2. Do(u, <<>>, odd)
    BY <1>1, <1>5, <1>8, <2>1 DEF PutInContainer
  <2>3. Alike(u, live) /\ (w = t /\ Reordered(src, i) = {} => u = live)
    BY <1>1, <1>2, <1>6, <1>7, <2>1, PutBackIs
  <2>4. ASSUME odd \cap REPLAY_GAPS = {} PROVE u = live
    <3>1. Reordered(src, i) = {} /\ r.grid = live.boxes[b].grid
      BY <2>1, <2>4 DEF Reordered, If, REPLAY_GAPS
    <3>2. w = t
      BY <1>3, <1>4, <1>5, <3>1, WithBoxIs
    <3> QED BY <2>3, <3>1, <3>2
  <2> QED BY <2>2, <2>3, <2>4, NoneKeeps
<1>9. CASE ~(r.left > 0)
  <2>1. PICK d, odd : d = AddLog(b, p) /\ odd = {"unremoved"} \cup If("payload", Loaded(p))
    OBVIOUS
  <2>2. Do(w, <<d>>, odd)
    BY <1>1, <1>5, <1>9, <2>1 DEF PutInContainer
  <2>3. Alike(Apply(replica, d), replica)
    BY <1>3, <2>1, LiveIs, AddApplied
  <2>4. odd \cap REPLAY_GAPS # {}
    BY <2>1 DEF REPLAY_GAPS
  <2> QED BY <1>6, <2>2, <2>3, <2>4, OneKeeps
<1> QED BY <1>8, <1>9

(* A drop into a container that is there ... *)
LEMMA DropKeeps ==
    ASSUME IInv, NEW i, InRange(live.pockets, i), NEW p, p = live.pockets.items[i],
           NEW d, d = [kind |-> "ItemDropped", idx |-> i],
           NEW w, w = [live EXCEPT !.pockets = RemoveItem(@, i)],
           NEW b \in Boxes(w), NEW odd, Do(WithBox(w, b, Into(w.boxes[b].grid, p).grid), <<d, AddLog(b, p)>>, odd),
           odd \cap REPLAY_GAPS = {} => ~Loaded(p)
    PROVE  Onward
<1>1. Carried(p)
  BY LiveIs, WorldIs, StoreItem DEF InRange
<1>2. d.kind = "ItemDropped" /\ d.idx = i
  OBVIOUS
<1>3. \A v : Apply(v, d) = ApplyDropped(v, d)
  BY <1>2, ApplyIs
<1>4. ApplyDropped(live, d) = w
  BY <1>2 DEF ApplyDropped
<1>5. Alike(w, live) /\ w \in Belongings
  BY <1>4, LiveIs, DroppedIs DEF Alike
<1>6. PICK u : u = WithBox(w, b, Into(w.boxes[b].grid, p).grid)
  OBVIOUS
<1>7. Alike(u, w) /\ (~Loaded(p) => Apply(w, AddLog(b, p)) = u)
  BY <1>1, <1>5, <1>6, AddedIs
<1>8. PICK s, r : s = Apply(replica, d) /\ r = Apply(s, AddLog(b, p))
  OBVIOUS
<1>9. Alike(s, replica) /\ s \in Belongings
  BY <1>3, <1>8, LiveIs, DroppedIs DEF Alike
<1>10. Alike(r, s)
  BY <1>1, <1>8, <1>9, AddApplied
<1>11. PICK log : log = <<d, AddLog(b, p)>>
  OBVIOUS
<1>12. r = ApplyAll(replica, log)
  <2>1. PICK e : e = AddLog(b, p)
    OBVIOUS
  <2>2. log = <<d, e>> /\ r = Apply(Apply(replica, d), e)
    BY <1>8, <1>11, <2>1
  <2> QED BY <2>2, ReplayOfTwo
<1>13. Alike(u, live) /\ Alike(r, replica)
  BY <1>5, <1>7, <1>9, <1>10, AlikeAgain
<1>14. ASSUME odd \cap REPLAY_GAPS = {}, replica = live PROVE r = u
  <2>1. s = w
    BY <1>3, <1>4, <1>8, <1>14
  <2> QED BY <1>7, <1>8, <1>14, <2>1
<1>15. Do(u, log, odd)
  BY <1>6, <1>11
<1> QED BY <1>12, <1>13, <1>14, <1>15, AlikeKeeps

(* ... and into one spawned for it. *)
Dropping(i, p, d, w) ==
    /\ InRange(live.pockets, i) /\ p = live.pockets.items[i]
    /\ d = [kind |-> "ItemDropped", idx |-> i]
    /\ w = [live EXCEPT !.pockets = RemoveItem(@, i)]
Spawning(w, g, b, e, v) ==
    b = w.nextBox + 1 /\ e = SpawnLog(b, g, FALSE) /\ v = ApplyBoxSpawned(w, e)

LEMMA DropNewKeeps ==
    ASSUME IInv, NEW i, NEW p, NEW d, NEW w, Dropping(i, p, d, w),
           NEW g \in Stores, NEW b, NEW e, NEW v, Spawning(w, g, b, e, v),
           NEW odd, Do(WithBox(v, b, Into(v.boxes[b].grid, p).grid), <<d, e, AddLog(b, p)>>, odd),
           odd \cap REPLAY_GAPS = {} => ~Loaded(p)
    PROVE  Onward
<1>1. Carried(p)
  BY LiveIs, WorldIs, StoreItem DEF InRange, Dropping
<1>2. d.kind = "ItemDropped" /\ d.idx = i
  BY DEF Dropping
<1>3. \A x : Apply(x, d) = ApplyDropped(x, d)
  BY <1>2, ApplyIs
<1>4. ApplyDropped(live, d) = w
  BY <1>2 DEF ApplyDropped, Dropping
<1>5. Alike(w, live) /\ w \in Belongings /\ w.nextBox = live.nextBox /\ w.nextJob = live.nextJob
  BY <1>4, LiveIs, DroppedIs DEF Alike, Counts
<1>6. w.nextBox \in Nat /\ b \in Nat /\ w.nextBox < b /\ live.nextJob \in Nat
  <2>1. w.nextBox \in Nat /\ live.nextJob \in Nat
    BY <1>5, LiveIs, WorldIs
  <2>2. b = w.nextBox + 1
    BY DEF Spawning
  <2> QED BY <2>1, <2>2
<1>7. e.kind = "WorldContainerSpawned" /\ e.box = b /\ e.grid = g /\ e.public = FALSE
  BY DEF SpawnLog, Spawning
<1>8. \A x : Apply(x, e) = ApplyBoxSpawned(x, e)
  BY <1>7, ApplyIs
<1>9. ASSUME NEW x \in Belongings, Counts(x) = Counts(w)
      PROVE  ApplyBoxSpawned(x, e) \in Belongings /\ Counts(ApplyBoxSpawned(x, e)) = <<live.nextJob, b>>
  <2>1. x.nextJob = live.nextJob /\ x.nextBox = w.nextBox
    BY <1>5, <1>9 DEF Counts
  <2>2. /\ ApplyBoxSpawned(x, e) \in Belongings
        /\ Counts(ApplyBoxSpawned(x, e)) = <<x.nextJob, IF x.nextBox < e.box THEN e.box ELSE x.nextBox>>
    BY <1>6, <1>7, <1>9, BoxSpawnedIs
  <2> QED BY <1>6, <1>7, <2>1, <2>2
<1>10. v \in Belongings /\ Counts(v) = <<live.nextJob, b>>
  <2>1. v = ApplyBoxSpawned(w, e)
    BY DEF Spawning
  <2> QED BY <1>5, <1>9, <2>1
<1>11. b \in Boxes(v)
  <2>1. DOMAIN v.boxes = Boxes(w) \cup {b}
    <3>1. v = ApplyBoxSpawned(w, e)
      BY DEF Spawning
    <3> QED BY <1>5, <1>7, <3>1, WorldIs DEF ApplyBoxSpawned, Worlds
  <2> QED BY <2>1 DEF Boxes
<1>12. PICK u : u = WithBox(v, b, Into(v.boxes[b].grid, p).grid)
  OBVIOUS
<1>13. Alike(u, v) /\ (~Loaded(p) => Apply(v, AddLog(b, p)) = u)
  <2>1. v \in Belongings
    BY <1>10
  <2> QED BY <1>1, <1>11, <1>12, <2>1, AddedIs, Zenon
<1>14. PICK s, t, r : s = Apply(replica, d) /\ t = Apply(s, e) /\ r = Apply(t, AddLog(b, p))
  OBVIOUS
<1>15. Alike(s, replica) /\ s \in Belongings /\ Counts(s) = Counts(w)
  <2>1. Alike(s, replica)
    BY <1>3, <1>14, LiveIs, DroppedIs
  <2> QED BY <1>5, <2>1 DEF Alike, IInv
<1>16. t \in Belongings /\ Counts(t) = <<live.nextJob, b>>
  BY <1>8, <1>9, <1>14, <1>15
<1>17. Alike(r, t)
  BY <1>1, <1>14, <1>16, AddApplied
<1>18. PICK log : log = <<d, e, AddLog(b, p)>>
  OBVIOUS
<1>19. r = ApplyAll(replica, log)
  <2>1. PICK f : f = AddLog(b, p)
    OBVIOUS
  <2>2. log = <<d, e, f>>
    BY <1>18, <2>1
  <2>3. r = Apply(Apply(Apply(replica, d), e), f)
    BY <1>14, <2>1
  <2>4. ApplyAll(replica, log) = Apply(Apply(Apply(replica, d), e), f)
    BY <2>2, ReplayOfThree
  <2> QED BY <2>3, <2>4
<1>20. /\ u \in Belongings /\ r \in Belongings
       /\ Counts(u) = <<live.nextJob, b>> /\ Counts(r) = <<live.nextJob, b>>
  BY <1>10, <1>13, <1>16, <1>17 DEF Alike
<1>21. live.nextJob <= u.nextJob /\ live.nextBox <= u.nextBox
  <2>1. u.nextJob = live.nextJob /\ u.nextBox = b
    BY <1>20 DEF Counts
  <2> QED BY <1>5, <1>6, <2>1
<1>22. ASSUME odd \cap REPLAY_GAPS = {}, replica = live PROVE r = u
  <2>1. s = w
    BY <1>3, <1>4, <1>14, <1>22
  <2>2. t = v
    BY <1>8, <1>14, <2>1 DEF Spawning
  <2> QED BY <1>13, <1>14, <1>22, <2>2
<1>23. Do(u, log, odd)
  BY <1>12, <1>18
<1>24. Counts(r) = Counts(u)
  BY <1>20
<1> QED BY <1>19, <1>20, <1>21, <1>22, <1>23, <1>24, DoKeeps

LEMMA Joined ==
    ASSUME NEW d, NEW e, NEW f
    PROVE  <<d>> \o <<f>> = <<d, f>> /\ <<d, e>> \o <<f>> = <<d, e, f>>
<1>1. PICK S : S = {d, e, f}
  OBVIOUS
<1>2. PICK p, q, r, u, v : p = <<d>> /\ q = <<d, e>> /\ r = <<f>> /\ u = <<d, f>> /\ v = <<d, e, f>>
  OBVIOUS
<1>3. p \in Seq(S) /\ q \in Seq(S) /\ r \in Seq(S) /\ u \in Seq(S) /\ v \in Seq(S)
  BY <1>1, <1>2
<1>4. Len(p) = 1 /\ Len(q) = 2 /\ Len(r) = 1 /\ Len(u) = 2 /\ Len(v) = 3
  BY <1>2
<1>5. /\ p[1] = d /\ q[1] = d /\ q[2] = e /\ r[1] = f
      /\ u[1] = d /\ u[2] = f /\ v[1] = d /\ v[2] = e /\ v[3] = f
  BY <1>2
<1>6. p \o r = u
  <2>1. /\ p \o r \in Seq(S) /\ Len(p \o r) = 2
        /\ (p \o r)[1] = d /\ (p \o r)[2] = f
    BY <1>3, <1>4, <1>5, ConcatProperties
  <2>2. \A i \in 1 .. 2 : i = 1 \/ i = 2
    OBVIOUS
  <2> QED BY <1>3, <1>4, <1>5, <2>1, <2>2, SeqEqual
<1>7. q \o r = v
  <2>1. /\ q \o r \in Seq(S) /\ Len(q \o r) = Len(q) + Len(r)
        /\ \A i \in 1 .. Len(q) + Len(r) : (q \o r)[i] = IF i <= Len(q) THEN q[i] ELSE r[i - Len(q)]
    BY <1>3, ConcatProperties
  <2>3. Len(q \o r) = 3 /\ \A i \in 1 .. 3 : (q \o r)[i] = IF i <= 2 THEN q[i] ELSE r[i - 2]
    BY <1>4, <2>1
  <2>4. (q \o r)[1] = d /\ (q \o r)[2] = e /\ (q \o r)[3] = f
    BY <1>5, <2>3
  <2>2. \A i \in 1 .. 3 : i = 1 \/ i = 2 \/ i = 3
    OBVIOUS
  <2> QED BY <1>3, <1>4, <1>5, <2>1, <2>2, <2>3, <2>4, SeqEqual
<1> QED BY <1>2, <1>6, <1>7

LEMMA DropItemToGroundKeeps ==
    ASSUME IInv, NEW i, DropItemToGround(i)
    PROVE  Onward
<1>1. PICK p, w, d, g : /\ p = live.pockets.items[i] /\ w = [live EXCEPT !.pockets = RemoveItem(@, i)]
                        /\ d = [kind |-> "ItemDropped", idx |-> i] /\ g = EmptyGrid(GroundW, GroundH)
  OBVIOUS
<1>2. InRange(live.pockets, i)
  BY DEF DropItemToGround
<1>3. Boxes(w) = Boxes(live) /\ w.boxes = live.boxes
  BY <1>1, LiveIs, WorldIs DEF Boxes, Worlds
<1>4. g \in Stores
  BY <1>1, EmptyStore, InventoryAssumption
<1>5. CASE \E b \in Boxes(live) :
              Do(WithBox(w, b, Into(w.boxes[b].grid, p).grid), <<d>> \o <<AddLog(b, p)>>,
                 If("payload", Loaded(p)) \cup If("spill", Into(w.boxes[b].grid, p).left > 0))
  <2>0. PICK b \in Boxes(w) :
           Do(WithBox(w, b, Into(w.boxes[b].grid, p).grid), <<d>> \o <<AddLog(b, p)>>,
              If("payload", Loaded(p)) \cup If("spill", Into(w.boxes[b].grid, p).left > 0))
    BY <1>3, <1>5
  <2>1. PICK odd :
           /\ odd = If("payload", Loaded(p)) \cup If("spill", Into(w.boxes[b].grid, p).left > 0)
           /\ Do(WithBox(w, b, Into(w.boxes[b].grid, p).grid), <<d>> \o <<AddLog(b, p)>>, odd)
    BY <2>0
  <2>2. <<d>> \o <<AddLog(b, p)>> = <<d, AddLog(b, p)>>
    BY Joined
  <2>3. odd \cap REPLAY_GAPS = {} => ~Loaded(p)
    BY <2>1 DEF If, REPLAY_GAPS
  <2>4. Do(WithBox(w, b, Into(w.boxes[b].grid, p).grid), <<d, AddLog(b, p)>>, odd)
    BY <2>1, <2>2
  <2> QED BY <1>1, <1>2, <2>3, <2>4, DropKeeps
<1>6. ASSUME NEW b, b = w.nextBox + 1, NEW e, e = SpawnLog(b, g, FALSE),
             NEW v, v = ApplyBoxSpawned(w, e),
             Do(WithBox(v, b, Into(v.boxes[b].grid, p).grid), <<d, e>> \o <<AddLog(b, p)>>,
                If("payload", Loaded(p)) \cup If("spill", Into(v.boxes[b].grid, p).left > 0))
      PROVE  Onward
  <2>1. PICK odd : odd = If("payload", Loaded(p)) \cup If("spill", Into(v.boxes[b].grid, p).left > 0)
    OBVIOUS
  <2>2. <<d, e>> \o <<AddLog(b, p)>> = <<d, e, AddLog(b, p)>>
    BY Joined
  <2>3. odd \cap REPLAY_GAPS = {} => ~Loaded(p)
    BY <2>1 DEF If, REPLAY_GAPS
  <2>4. Do(WithBox(v, b, Into(v.boxes[b].grid, p).grid), <<d, e, AddLog(b, p)>>, odd)
    BY <1>6, <2>1, <2>2
  <2>5. Dropping(i, p, d, w)
    BY <1>1, <1>2 DEF Dropping
  <2>6. Spawning(w, g, b, e, v)
    BY <1>6 DEF Spawning
  <2> QED BY <1>4, <2>3, <2>4, <2>5, <2>6, DropNewKeeps
<1>7. \/ \E b \in Boxes(live) :
            Do(WithBox(w, b, Into(w.boxes[b].grid, p).grid), <<d>> \o <<AddLog(b, p)>>,
               If("payload", Loaded(p)) \cup If("spill", Into(w.boxes[b].grid, p).left > 0))
      \/ LET b == w.nextBox + 1
             e == SpawnLog(w.nextBox + 1, g, FALSE)
             v == WithNewBox(w, g, FALSE)
         IN  Do(WithBox(v, b, Into(v.boxes[b].grid, p).grid), <<d, e>> \o <<AddLog(b, p)>>,
                If("payload", Loaded(p)) \cup If("spill", Into(v.boxes[b].grid, p).left > 0))
  BY <1>1, Zenon DEF DropItemToGround
<1> QED BY <1>5, <1>6, <1>7 DEF WithNewBox

-----------------------------------------------------------------------------
(* Crafting.                                                               *)

LEMMA CraftKeeps ==
    ASSUME IInv, NEW n \in DOMAIN Recipe, Craft(n)
    PROVE  Onward
<1>1. PICK d : d = [kind |-> "ItemsCrafted", recipe |-> n, tick |-> live.clock]
  OBVIOUS
<1>2. d.kind = "ItemsCrafted" /\ d.recipe = n /\ d.tick = live.clock
  BY <1>1
<1>3. PICK w : w = ApplyCrafted(live, d)
  OBVIOUS
<1>4. Do(w, <<d>>, {})
  BY <1>1, <1>2, <1>3 DEF Craft, ApplyCrafted
<1>5. \A v : Apply(v, d) = ApplyCrafted(v, d)
  BY <1>2, ApplyIs
<1>6. Alike(w, live) /\ Alike(Apply(replica, d), replica)
  BY <1>2, <1>3, <1>5, LiveIs, CraftedIs
<1> QED BY <1>3, <1>4, <1>5, <1>6, OneKeeps

LEMMA QueueCraftKeeps ==
    ASSUME IInv, NEW n \in DOMAIN Recipe, NEW m \in Nat \ {0}, QueueCraft(n, m)
    PROVE  Onward
<1>1. PICK q \in StackList : q = Times(Recipe[n].inputs, m)
  BY InventoryAssumption, TimesIs
<1>2. PICK d : d = [kind |-> "CraftJobQueued", job |-> live.nextJob + 1, recipe |-> n, units |-> m, inputs |-> q]
  OBVIOUS
<1>3. d.kind = "CraftJobQueued" /\ d.job = live.nextJob + 1 /\ d.recipe = n /\ d.units = m /\ d.inputs = q
  BY <1>2
<1>4. live.nextJob \in Nat /\ live.nextBox \in Nat /\ d.job \in Nat /\ live.nextJob < d.job
  <2>1. live.nextJob \in Nat /\ live.nextBox \in Nat
    BY LiveIs, WorldIs
  <2> QED BY <1>3, <2>1
<1>5. replica.nextJob = live.nextJob /\ replica.nextBox = live.nextBox
  BY DEF IInv, Counts
<1>6. PICK w, r : w = ApplyJobQueued(live, d) /\ r = ApplyJobQueued(replica, d)
  OBVIOUS
<1>7. w \in Belongings /\ Counts(w) = <<d.job, live.nextBox>>
  BY <1>3, <1>4, <1>6, LiveIs, JobQueuedIs
<1>8. r \in Belongings /\ Counts(r) = <<d.job, live.nextBox>>
  BY <1>3, <1>4, <1>5, <1>6, LiveIs, JobQueuedIs
<1>9. PICK s : s = SpendAll(live, q)
  OBVIOUS
<1>10. s.nextJob = live.nextJob
  <2>1. s \in Filled(live)
    BY <1>9, LiveIs, FilledIs, SpendAllIs
  <2> QED BY <2>1, LiveIs, WorldIs DEF Filled, Worlds
<1>11. w = [s EXCEPT !.nextJob = d.job, !.queue = Append(@, NewJob(d))]
  BY <1>3, <1>4, <1>6, <1>9, <1>10 DEF ApplyJobQueued
<1>12. Do(w, <<d>>, {})
  BY <1>1, <1>2, <1>9, <1>11 DEF QueueCraft
<1>13. PICK log : log = <<d>>
  OBVIOUS
<1>14. r = ApplyAll(replica, log)
  <2>1. r = Apply(replica, d)
    BY <1>3, <1>6, ApplyIs
  <2> QED BY <1>13, <2>1, ReplayOf
<1>15. live.nextJob <= w.nextJob /\ live.nextBox <= w.nextBox
  <2>1. w.nextJob = d.job /\ w.nextBox = live.nextBox
    BY <1>7 DEF Counts
  <2> QED BY <1>4, <2>1
<1> QED BY <1>6, <1>7, <1>8, <1>12, <1>13, <1>14, <1>15, DoKeeps

LEMMA RefundIs ==
    ASSUME NEW q \in StackList, NEW out
    PROVE  Without(q, out) \in StackList
<1>1. PICK R : StackList = Seq(R)
  BY DEF StackList
<1> QED BY <1>1, WithoutPicks

LEMMA CancelCraftKeeps ==
    ASSUME IInv, NEW k, CancelCraft(k)
    PROVE  Onward
<1>1. PICK j : j = live.queue[k]
  OBVIOUS
<1>2. k \in DOMAIN live.queue /\ live.queue \in Seq(JobSet) /\ IdsApart(live)
  BY LiveIs, WorldIs DEF CancelCraft
<1>3. j \in JobSet
  BY <1>1, <1>2
<1>4. PICK q : q = Times(Recipe[j.recipe].inputs, RefundUnits(j))
  OBVIOUS
<1>5. q \in StackList
  <2>1. j.recipe \in DOMAIN Recipe /\ j.units \in Nat \ {0}
    BY <1>3 DEF JobSet
  <2>2. RefundUnits(j) \in Nat
    BY <2>1 DEF RefundUnits
  <2> QED BY <1>4, <2>1, <2>2, InventoryAssumption, TimesIs
<1>6. PICK refund : refund = Without(q, {i \in DOMAIN q : q[i].count = 0})
  OBVIOUS
<1>7. refund \in StackList
  BY <1>5, <1>6, RefundIs
<1>8. PICK d : d = [kind |-> "CraftJobCancelled", job |-> j.id, refund |-> refund]
  OBVIOUS
<1>9. d.kind = "CraftJobCancelled" /\ d.job = j.id /\ d.refund = refund
  BY <1>8
<1>10. PICK w : w = ApplyJobCancelled(live, d)
  OBVIOUS
<1>11. JobsOf(live, d.job) = {k}
  BY <1>1, <1>2, <1>9 DEF JobsOf, IdsApart
<1>12. Do(w, <<d>>, {})
  <2>1. w = MergeAll([live EXCEPT !.queue = Without(@, {k})], refund, live.clock)
    BY <1>9, <1>10, <1>11 DEF ApplyJobCancelled
  <2> QED BY <1>1, <1>4, <1>6, <1>8, <2>1 DEF CancelCraft
<1>13. \A v : Apply(v, d) = ApplyJobCancelled(v, d)
  BY <1>9, ApplyIs
<1>14. Alike(w, live) /\ Alike(Apply(replica, d), replica)
  BY <1>7, <1>9, <1>10, <1>13, LiveIs, JobCancelledIs
<1> QED BY <1>10, <1>12, <1>13, <1>14, OneKeeps

(* The queue after its first job went on by a tick. *)
LEMMA FirstJobOn ==
    ASSUME NEW w \in Belongings, w.queue # <<>>, NEW j \in JobSet, j.id = w.queue[1].id
    PROVE  Alike([w EXCEPT !.queue = [@ EXCEPT ![1] = j]], w)
<1>1. PICK s \in Seq(JobSet) : s = w.queue
  BY WorldIs
<1>2. PICK n \in Nat : n = Len(s)
  BY LenProperties
<1>3. DOMAIN s = 1 .. n /\ 1 \in 1 .. n
  BY <1>1, <1>2, LenProperties, EmptySeq
<1>4. PICK q : q = [s EXCEPT ![1] = j]
  OBVIOUS
<1>5. q \in Seq(JobSet) /\ DOMAIN q = 1 .. n
  BY <1>2, <1>3, <1>4
<1>6. PICK f : f = [i \in 1 .. n |-> i]
  OBVIOUS
<1>7. SameIds(q, s, n, f)
  <2>1. ASSUME NEW i \in 1 .. n PROVE f[i] = i /\ q[i].id = s[i].id
    <3>1. CASE i = 1
      BY <1>1, <1>3, <1>4, <1>6, <3>1
    <3>2. CASE i # 1
      BY <1>3, <1>4, <1>6, <3>2
    <3> QED BY <3>1, <3>2
  <2> QED BY <1>5, <2>1 DEF SameIds
<1>8. Alike([w EXCEPT !.queue = q], w)
  BY <1>1, <1>2, <1>5, <1>7, QueueSet
<1> QED BY <1>1, <1>4, <1>8

LEMMA FirstJobOff ==
    ASSUME NEW w \in Belongings, w.queue # <<>>
    PROVE  Alike([w EXCEPT !.queue = Tail(@)], w)
<1>1. PICK s \in Seq(JobSet) : s = w.queue
  BY WorldIs
<1>2. PICK n \in Nat : n = Len(s)
  BY LenProperties
<1>3. DOMAIN s = 1 .. n /\ n # 0
  BY <1>1, <1>2, LenProperties, EmptySeq
<1>4. PICK q : q = Tail(s)
  OBVIOUS
<1>5. q \in Seq(JobSet) /\ Len(q) = n - 1 /\ \A i \in 1 .. n - 1 : q[i] = s[i + 1]
  BY <1>1, <1>2, <1>4, HeadTailProperties
<1>6. DOMAIN q = 1 .. n - 1
  BY <1>5, LenProperties
<1>7. PICK f : f = [i \in 1 .. n - 1 |-> i + 1]
  OBVIOUS
<1>8. SameIds(q, s, n, f)
  <2>1. ASSUME NEW i \in 1 .. n - 1 PROVE f[i] = i + 1 /\ i + 1 \in 1 .. n /\ q[i].id = s[i + 1].id
    BY <1>3, <1>5, <1>7
  <2>2. \A i, k \in 1 .. n - 1 : i # k => i + 1 # k + 1
    OBVIOUS
  <2> QED BY <1>6, <2>1, <2>2 DEF SameIds
<1>9. Alike([w EXCEPT !.queue = q], w)
  BY <1>1, <1>2, <1>5, <1>8, QueueSet
<1> QED BY <1>1, <1>4, <1>9

LEMMA CraftTickIs ==
    ASSUME NEW w \in Belongings
    PROVE  Alike(CraftTick(w), w)
<1>1. CASE w.queue = <<>>
  BY <1>1, AlikeItself DEF CraftTick
<1>2. CASE w.queue # <<>>
  <2>1. w.queue \in Seq(JobSet) /\ w.clock \in Nat
    BY WorldIs
  <2>2. PICK j \in JobSet : j = w.queue[1]
    <3>1. 1 \in DOMAIN w.queue
      BY <1>2, <2>1, EmptySeq, LenProperties
    <3> QED BY <2>1, <3>1
  <2>3. PICK ticks : ticks = IF j.ticks > 0 THEN j.ticks - 1 ELSE 0
    OBVIOUS
  <2>4. PICK next : next = [j EXCEPT !.ticks = IF ticks = 0 THEN Recipe[j.recipe].time ELSE ticks,
                                     !.units = IF ticks = 0 THEN @ - 1 ELSE @]
    OBVIOUS
  <2>5. PICK v : v = IF ticks = 0 THEN MergeAll(w, Recipe[j.recipe].outputs, w.clock) ELSE w
    OBVIOUS
  <2>6. v \in Filled(w)
    <3>1. j.recipe \in DOMAIN Recipe
      BY <2>2 DEF JobSet
    <3>2. Recipe[j.recipe].outputs \in StackList
      BY <3>1, InventoryAssumption
    <3> QED BY <2>1, <2>5, <3>2, FilledIs, MergeAllIs
  <2>7. Alike(v, w) /\ v \in Belongings /\ v.queue = w.queue
    <3>1. Alike(v, w)
      BY <2>6, FilledIs
    <3>2. v.queue = w.queue
      BY <2>6, WorldIs DEF Filled, Worlds
    <3> QED BY <3>1, <3>2 DEF Alike
  <2>8. CraftTick(w) = [v EXCEPT !.queue = IF next.units = 0 THEN Tail(@) ELSE [@ EXCEPT ![1] = next]]
    BY <1>2, <2>2, <2>3, <2>4, <2>5 DEF CraftTick
  <2>9. CASE next.units = 0
    <3>1. Alike([v EXCEPT !.queue = Tail(@)], v)
      BY <1>2, <2>7, FirstJobOff
    <3> QED BY <2>7, <2>8, <2>9, <3>1, AlikeAgain
  <2>10. CASE next.units # 0
    <3>1. next \in JobSet /\ next.id = v.queue[1].id
      <4>1. /\ j.ticks \in Nat /\ j.units \in Nat \ {0} /\ j.recipe \in DOMAIN Recipe /\ j.id \in Nat
            /\ Recipe[j.recipe].time \in Nat
        BY <2>2, InventoryAssumption DEF JobSet
      <4>2. ticks \in Nat
        BY <2>3, <4>1
      <4>3. next.id = j.id /\ next.units \in Nat
        BY <2>2, <2>4, <4>1 DEF JobSet
      <4>4. next \in JobSet
        BY <2>2, <2>4, <2>10, <4>1, <4>2, <4>3 DEF JobSet
      <4> QED BY <2>2, <2>7, <4>3, <4>4
    <3>2. Alike([v EXCEPT !.queue = [@ EXCEPT ![1] = next]], v)
      BY <1>2, <2>7, <3>1, FirstJobOn
    <3> QED BY <2>7, <2>8, <2>10, <3>2, AlikeAgain
  <2> QED BY <2>9, <2>10
<1> QED BY <1>1, <1>2

LEMMA PerishTickIs ==
    ASSUME NEW w \in Belongings
    PROVE  /\ Alike(PerishTick(w), w) /\ PerishTick(w).queue = w.queue
           /\ PerishTick(w).pockets = w.pockets => PerishTick(w) = w
<1>1. PICK out : out = {i \in DOMAIN w.pockets.items : Spoilt(w.pockets.items[i].stack, w.clock)}
  OBVIOUS
<1>2. PICK g : g = [w.pockets EXCEPT !.items = Without(w.pockets.items, out)]
  OBVIOUS
<1>3. g \in Stores
  BY <1>2, WorldIs, StoreWithout
<1>4. PerishTick(w) = [w EXCEPT !.pockets = g]
  BY <1>1, <1>2 DEF PerishTick
<1>5. PerishTick(w).queue = w.queue /\ PerishTick(w).pockets = g
  BY <1>4, WorldIs DEF Worlds
<1>6. g = w.pockets => PerishTick(w) = w
  BY <1>4, WorldIs DEF Worlds
<1> QED BY <1>3, <1>4, <1>5, <1>6, PocketsSet

LEMMA TickKeeps ==
    ASSUME IInv, Tick
    PROVE  Onward
<1>1. PICK now \in Nat : now = live.clock + 1
  BY LiveIs
<1>2. PICK v : v = [live EXCEPT !.clock = now]
  OBVIOUS
<1>3. Alike(v, live) /\ v \in Belongings /\ v.pockets = live.pockets /\ v.queue = live.queue
  <2>1. Alike(v, live)
    BY <1>2, LiveIs, ClockSet
  <2> QED BY <1>2, <2>1, LiveIs, WorldIs DEF Alike, Worlds
<1>4. PICK aged : aged = PerishTick(v)
  OBVIOUS
<1>5. Alike(aged, v) /\ aged \in Belongings /\ aged.queue = live.queue /\ (aged.pockets = live.pockets => aged = v)
  BY <1>3, <1>4, PerishTickIs DEF Alike
<1>6. PICK w : w = CraftTick(aged)
  OBVIOUS
<1>7. Alike(w, live)
  <2>1. Alike(w, aged)
    BY <1>5, <1>6, CraftTickIs
  <2> QED BY <1>3, <1>5, <2>1, AlikeAgain
<1>8. PICK d : d = [kind |-> "Tick", tick |-> now]
  OBVIOUS
<1>9. d.kind = "Tick" /\ d.tick = now
  BY <1>8
<1>10. PICK odd : odd = If("perish", aged.pockets # live.pockets) \cup If("craft", live.queue # <<>>)
  OBVIOUS
<1>11. Do(w, <<d>>, odd)
  BY <1>1, <1>2, <1>4, <1>6, <1>8, <1>10 DEF Tick
<1>12. \A x : Apply(x, d) = [x EXCEPT !.clock = now]
  BY <1>9, ApplyIs DEF ApplyTick
<1>13. Alike(Apply(replica, d), replica)
  BY <1>12, LiveIs, ClockSet
<1>14. ASSUME odd \cap REPLAY_GAPS = {} PROVE Apply(live, d) = w
  <2>1. aged.pockets = live.pockets /\ live.queue = <<>>
    BY <1>10, <1>14 DEF If, REPLAY_GAPS
  <2>2. aged = v /\ w = aged
    BY <1>5, <1>6, <2>1 DEF CraftTick
  <2> QED BY <1>2, <1>12, <2>2
<1> QED BY <1>7, <1>11, <1>13, <1>14, OneKeeps

-----------------------------------------------------------------------------
(* Snapshots, and the whole.                                               *)

LEMMA RollSnapshotKeeps ==
    ASSUME IInv, RollSnapshot
    PROVE  Onward
<1>1. live' = live /\ replica' = live
  BY DEF RollSnapshot
<1>2. live.nextJob \in Nat /\ live.nextBox \in Nat
  BY LiveIs, WorldIs
<1> QED BY <1>1, <1>2 DEF Onward, IInv, ReplayFollows

LEMMA LoadKeeps ==
    ASSUME IInv, Load
    PROVE  Onward
<1>1. live' = replica /\ replica' = replica
  BY DEF Load
<1>2. live.nextJob \in Nat /\ live.nextBox \in Nat /\ replica.nextJob = live.nextJob /\ replica.nextBox = live.nextBox
  BY LiveIs, WorldIs DEF IInv, Counts
<1> QED BY <1>1, <1>2 DEF Onward, IInv, ReplayFollows

LEMMA StartIs ==
    ASSUME NEW load \in StackList
    PROVE  Start(load) \in Belongings
<1>1. PICK g \in Stores : g = EmptyGrid(PocketW, PocketH)
  BY EmptyStore, InventoryAssumption
<1>2. PICK w : w = World(g)
  OBVIOUS
<1>3. w \in Belongings
  <2>1. [s \in Slots |-> <<>>] \in [Slots -> Worn]
    BY DEF Worn
  <2>2. <<>> \in BoxMaps
    <3>1. \A f \in [{} -> BoxSet] : f = <<>>
      OBVIOUS
    <3>2. [b \in {} |-> BoxSet] \in [{} -> BoxSet]
      OBVIOUS
    <3>3. <<>> \in [{} -> BoxSet]
      BY <3>1, <3>2
    <3> QED BY <3>3 DEF BoxMaps
  <2>3. <<>> \in Seq(JobSet) /\ DOMAIN <<>> = {}
    OBVIOUS
  <2>4. w \in Worlds
    BY <1>2, <2>1, <2>2, <2>3 DEF World, Worlds
  <2>5. IdsApart(w)
    BY <1>2, <2>3 DEF World, IdsApart
  <2> QED BY <2>4, <2>5 DEF Belongings
<1>4. MergeAll(w, load, 0) \in Filled(w)
  BY <1>3, FilledIs, MergeAllIs, 0 \in Nat
<1>5. Start(load) = MergeAll(w, load, 0)
  BY <1>1, <1>2 DEF Start
<1> QED BY <1>3, <1>4, <1>5, FilledIs DEF Alike

LEMMA InitIInv == Init => IInv
<1> SUFFICES ASSUME Init PROVE IInv
  OBVIOUS
<1>1. live \in Belongings /\ replica = live
  BY StartIs, InventoryAssumption DEF Init
<1> QED BY <1>1 DEF IInv, ReplayFollows

LEMMA NextOnward == IInv /\ Next => Onward
<1> SUFFICES ASSUME IInv, Next PROVE Onward
  OBVIOUS
<1>1. CASE Moving
  BY <1>1, MoveBetweenSlotsKeeps, MoveBetweenGridsKeeps, EquipKeeps, UnequipKeeps,
     DropItemToGroundKeeps, TakeFromContainerKeeps, PutInContainerKeeps DEF Moving
<1>2. CASE Crafting
  <2>1. \A n \in 1 .. 2 : n \in Nat \ {0}
    OBVIOUS
  <2> QED BY <1>2, <2>1, CraftKeeps, QueueCraftKeeps, CancelCraftKeeps, TickKeeps DEF Crafting
<1>3. ASSUME NEW id \in ItemIds, NEW n \in 1 .. MaxGrant, GrantItem(id, n) PROVE Onward
  BY <1>3, GrantItemKeeps
<1>4. ASSUME NEW i \in Indexes, ConsumeFromSlot(i) \/ Salvage(i) PROVE Onward
  BY <1>4, ConsumeFromSlotKeeps, SalvageKeeps
<1>5. ASSUME NEW s \in Slots, ConsumeFromHotbar(s) PROVE Onward
  BY <1>5, ConsumeFromHotbarKeeps
<1>6. ASSUME NEW public \in BOOLEAN, SpawnWorldContainer(public) PROVE Onward
  BY <1>6, SpawnWorldContainerKeeps
<1>7. ASSUME NEW b \in Boxes(live), DespawnWorldContainer(b) PROVE Onward
  BY <1>7, DespawnWorldContainerKeeps
<1>8. CASE RollSnapshot
  BY <1>8, RollSnapshotKeeps
<1>9. CASE Load
  BY <1>9, LoadKeeps
<1> QED BY <1>1, <1>2, <1>3, <1>4, <1>5, <1>6, <1>7, <1>8, <1>9, Zenon DEF Next

LEMMA Idle == IInv /\ UNCHANGED vars => Onward
<1> SUFFICES ASSUME IInv, UNCHANGED vars PROVE Onward
  OBVIOUS
<1>1. live' = live /\ replica' = replica /\ gaps' = gaps
  BY DEF vars
<1>2. live.nextJob \in Nat /\ live.nextBox \in Nat
  BY LiveIs, WorldIs
<1> QED BY <1>1, <1>2 DEF Onward, IInv, ReplayFollows

LEMMA StepsOnward == IInv /\ [Next]_vars => Onward
  BY NextOnward, Idle

LEMMA AlwaysIInv == Spec => []IInv
<1>1. IInv /\ [Next]_vars => IInv'
  BY StepsOnward DEF Onward
<1> QED BY InitIInv, <1>1, PTL DEF Spec

-----------------------------------------------------------------------------
(* Results.                                                                *)

LEMMA StoreWellPlaced ==
    ASSUME NEW g \in Stores
    PROVE  WellPlaced(g)
<1>1. \A h \in Stores : Tidy(h)
  BY StoreIs
<1>2. ASSUME NEW i \in DOMAIN g.items, g.items[i].inner # <<>> PROVE Tidy(g.items[i].inner[1])
  <2>1. Carried(g.items[i])
    BY StoreItem
  <2>2. g.items[i].inner[1] \in Stores
    BY <1>2, <2>1, ContentIs DEF Carried
  <2> QED BY <1>1, <2>2
<1> QED BY <1>1, <1>2 DEF WellPlaced

LEMMA GridsAreStores ==
    ASSUME NEW w \in Belongings
    PROVE  Grids(w) \subseteq Stores
<1>1. w.pockets \in Stores
  BY WorldIs
<1>2. ASSUME NEW s \in Slots, w.worn[s] # <<>>, w.worn[s][1].inner # <<>>
      PROVE  w.worn[s][1].inner[1] \in Stores
  <2>1. PICK e \in Worn : e = w.worn[s] /\ e # <<>>
    BY <1>2, WorldIs
  <2>2. Carried(e[1])
    BY <2>1, WornIs
  <2> QED BY <1>2, <2>1, <2>2, ContentIs DEF Carried
<1>3. \A b \in Boxes(w) : w.boxes[b].grid \in Stores
  BY WithBoxIs
<1> QED BY <1>1, <1>2, <1>3 DEF Grids

(* EverythingWellPlaced holds in every reachable state: moved, refused and *)
(* put back, poured, attached, crafted, spoilt or replayed onto a replica  *)
(* that has drifted, items never share a cell, stick out or overfill a     *)
(* stack (world/inventory.rs, world/containers.rs, apply_delta).           *)
THEOREM AlwaysWellPlaced == Spec => []EverythingWellPlaced
<1>1. IInv => EverythingWellPlaced
  <2> SUFFICES ASSUME IInv PROVE EverythingWellPlaced
    OBVIOUS
  <2>1. Grids(live) \cup Grids(replica) \subseteq Stores
    BY GridsAreStores DEF IInv
  <2> QED BY <2>1, StoreWellPlaced DEF EverythingWellPlaced
<1> QED BY AlwaysIInv, <1>1, PTL

(* ReplayFollows holds in every reachable state: the journal on top of a   *)
(* snapshot rebuilds the belongings exactly, in every order of calls, but  *)
(* for the eight effects REPLAY_GAPS names (delta.rs, apply_delta).        *)
THEOREM AlwaysReplayFollows == Spec => []ReplayFollows
<1>1. IInv => ReplayFollows
  BY DEF IInv
<1> QED BY AlwaysIInv, <1>1, PTL

(* IdsNeverReissued holds of every step: no call, record, snapshot or load *)
(* lowers a counter that hands out ids (resources.rs).                     *)
THEOREM NeverReissued == Spec => IdsNeverReissued
<1>1. /\ IInv /\ [Next]_vars
      => [live.nextJob <= live'.nextJob /\ live.nextBox <= live'.nextBox]_vars
  BY StepsOnward DEF Onward
<1> QED BY AlwaysIInv, <1>1, PTL DEF Spec, IdsNeverReissued
=============================================================================
