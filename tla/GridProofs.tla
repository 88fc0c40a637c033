----------------------------- MODULE GridProofs -----------------------------
(***************************************************************************)
(* What the placement engine keeps, for every item registry and every size *)
(* of grid: items stay inside and apart, stacks within their limits, and   *)
(* the states of magazines where they are.                                 *)
(***************************************************************************)
EXTENDS Grid, SequenceLemmas

(* The types, over any set of magazine states and of inner grids. *)
StackSet(Mag) == [id : ItemIds, count : Nat, tick : Nat, mag : Mag]
PlacedSet(Mag, Inner) ==
    [stack : StackSet(Mag), x : Nat, y : Nat, rot : {0, 90}, inner : Inner]
GridSet(Mag, Inner) == [w : Nat, h : Nat, items : Seq(PlacedSet(Mag, Inner))]

SizeOf(p) == Size(p.stack.id, p.rot)
Inside(g, p) == p.x + SizeOf(p)[1] <= g.w /\ p.y + SizeOf(p)[2] <= g.h
Apart(p, q) == ~Overlap(p.x, p.y, SizeOf(p), q)
(* What stays with an item wherever it is: its id, its magazine and what is *)
(* in it.  Every item of the grid is of a sort in K.                        *)
Sort(p) == <<p.stack.id, p.stack.mag, p.inner>>
Carries(g, K) == \A i \in DOMAIN g.items : Sort(g.items[i]) \in K
Lawful(p) ==
    /\ p.stack.count \in 1 .. Def[p.stack.id].stack
    /\ Def[p.stack.id].rotatable \/ p.rot = 0

LEMMA SizeType ==
    ASSUME NEW id \in ItemIds, NEW rot
    PROVE  /\ Size(id, rot)[1] \in Nat \ {0}
           /\ Size(id, rot)[2] \in Nat \ {0}
  BY GridAssumption DEF Size

LEMMA ItemType ==
    ASSUME NEW Mag, NEW Inner, NEW g \in GridSet(Mag, Inner), NEW i \in DOMAIN g.items
    PROVE  /\ g.items[i].stack.id \in ItemIds /\ g.items[i].stack.count \in Nat
           /\ g.items[i].stack.tick \in Nat /\ g.items[i].stack.mag \in Mag
           /\ g.items[i].stack \in StackSet(Mag) /\ g.items[i].inner \in Inner
           /\ g.items[i] \in PlacedSet(Mag, Inner)
<1>1. g.items[i] \in PlacedSet(Mag, Inner)
  BY DEF GridSet
<1> QED BY <1>1 DEF PlacedSet, StackSet

(* Two items are apart or not, whichever of them is asked first. *)
LEMMA ApartSymmetric ==
    ASSUME NEW Mag, NEW Inner, NEW p \in PlacedSet(Mag, Inner), NEW q \in PlacedSet(Mag, Inner),
           Apart(p, q)
    PROVE  Apart(q, p)
<1>1. p.stack.id \in ItemIds /\ q.stack.id \in ItemIds
  BY DEF PlacedSet, StackSet
<1>2. /\ SizeOf(p)[1] \in Nat /\ SizeOf(p)[2] \in Nat
      /\ SizeOf(q)[1] \in Nat /\ SizeOf(q)[2] \in Nat
  BY <1>1, SizeType DEF SizeOf
<1>3. /\ p.x \in Nat /\ p.y \in Nat /\ q.x \in Nat /\ q.y \in Nat
  BY DEF PlacedSet
<1>4. QED
  BY <1>2, <1>3 DEF Apart, Overlap, SizeOf

(* Tidy, item by item and pair by pair. *)
LEMMA TidyMeans ==
    ASSUME NEW g
    PROVE  Tidy(g) <=>
              /\ \A i \in DOMAIN g.items : Inside(g, g.items[i]) /\ Lawful(g.items[i])
              /\ \A i, j \in DOMAIN g.items : i # j => Apart(g.items[i], g.items[j])
  BY Zenon DEF Tidy, FitsAt, Inside, Lawful, Apart, SizeOf
-----------------------------------------------------------------------------

(* The same stack at the same place, whatever is left of it. *)
SameSpot(p, q) ==
    p.stack.id = q.stack.id /\ p.x = q.x /\ p.y = q.y /\ p.rot = q.rot

(* A grid whose items are items of a tidy one, each where it was and none  *)
(* of them twice, is tidy: most operations only drop, permute or recount.  *)
LEMMA Rearrange ==
    ASSUME NEW g, NEW h, NEW f, Tidy(g), h.w = g.w, h.h = g.h,
           \A i \in DOMAIN h.items :
              /\ f[i] \in DOMAIN g.items
              /\ SameSpot(h.items[i], g.items[f[i]])
              /\ Lawful(h.items[i]),
           \A i, j \in DOMAIN h.items : i # j => f[i] # f[j]
    PROVE  Tidy(h)
<1>1. /\ \A i \in DOMAIN g.items : Inside(g, g.items[i])
      /\ \A i, j \in DOMAIN g.items : i # j => Apart(g.items[i], g.items[j])
  BY TidyMeans, Zenon
<1>2. ASSUME NEW i \in DOMAIN h.items PROVE Inside(h, h.items[i]) /\ Lawful(h.items[i])
  <2> DEFINE p == h.items[i]
             q == g.items[f[i]]
  <2>1. Inside(g, q) /\ SameSpot(p, q) /\ Lawful(p)
    BY <1>1, Zenon
  <2> HIDE DEF p, q
  <2>2. Inside(h, p)
    BY <2>1, SMT DEF SameSpot, Inside, SizeOf
  <2>3. QED
    BY <2>1, <2>2, Zenon DEF p
<1>3. ASSUME NEW i \in DOMAIN h.items, NEW j \in DOMAIN h.items, i # j
      PROVE  Apart(h.items[i], h.items[j])
  <2> DEFINE p  == h.items[i]
             q  == h.items[j]
             p1 == g.items[f[i]]
             q1 == g.items[f[j]]
  <2>1. Apart(p1, q1) /\ SameSpot(p, p1) /\ SameSpot(q, q1)
    BY <1>1, <1>3, Zenon
  <2> HIDE DEF p, q, p1, q1
  <2>2. Apart(p, q)
    BY <2>1, SMT DEF SameSpot, Apart, Overlap, SizeOf
  <2>3. QED
    BY <2>2, Zenon DEF p, q
<1>4. QED
  BY <1>2, <1>3, TidyMeans, Zenon

(* Taking an item out closes the gap in the order and moves nothing        *)
(* (InventoryGrid::remove_at).                                             *)
THEOREM RemoveKeepsTidy ==
    ASSUME NEW Mag, NEW Inner, NEW g \in GridSet(Mag, Inner), NEW k \in DOMAIN g.items, Tidy(g)
    PROVE  /\ Tidy(RemoveItem(g, k)) /\ RemoveItem(g, k) \in GridSet(Mag, Inner)
           /\ \A K : Carries(g, K) => Carries(RemoveItem(g, k), K)
<1> DEFINE T == PlacedSet(Mag, Inner)
           s == g.items
           h == RemoveItem(g, k)
           f == [i \in Nat |-> IF i < k THEN i ELSE i + 1]
<1>1. s \in Seq(T) /\ Len(s) \in Nat /\ DOMAIN s = 1 .. Len(s) /\ k \in 1 .. Len(s)
  BY DEF GridSet
<1>2. \A i \in Nat : f[i] = IF i < k THEN i ELSE i + 1
  OBVIOUS
<1>3. k \in Nat /\ Len(s) \in Nat /\ 1 <= k /\ k <= Len(s)
  BY <1>1
<1> HIDE DEF f
<1>4. h.items = RemoveAt(s, k) /\ h.w = g.w /\ h.h = g.h
  BY DEF RemoveItem, GridSet
<1>5. /\ h.items \in Seq(T) /\ Len(h.items) = Len(s) - 1
      /\ \A i \in 1 .. Len(s) - 1 : h.items[i] = s[f[i]]
  <2>0. PICK U : U = T
    OBVIOUS
  <2>1. PICK q \in Seq(U), n \in Nat : q = s /\ n = Len(q)
    BY <1>1, <2>0
  <2>2. k \in 1 .. n
    BY <1>1, <2>1
  <2>3. /\ RemoveAt(q, k) \in Seq(U) /\ Len(RemoveAt(q, k)) = n - 1
        /\ \A i \in 1 .. n - 1 : RemoveAt(q, k)[i] = IF i < k THEN q[i] ELSE q[i + 1]
    <3>1. n = Len(q)
      BY <2>1
    <3>2. \A m \in 1 .. n :
             /\ RemoveAt(q, m) \in Seq(U) /\ Len(RemoveAt(q, m)) = n - 1
             /\ \A i \in 1 .. n - 1 : RemoveAt(q, m)[i] = IF i < m THEN q[i] ELSE q[i + 1]
      BY <3>1, RemoveAtIs, Zenon
    <3> QED BY <2>2, <3>2, Zenon
  <2> HIDE DEF s, T, h
  <2>4. h.items = RemoveAt(q, k) /\ s = q
    BY <1>4, <2>1
  <2> QED BY <1>2, <2>0, <2>1, <2>3, <2>4
<1>6. DOMAIN h.items = 1 .. Len(s) - 1
  <2> HIDE DEF h, s, T, f
  <2>1. QED
    BY <1>1, <1>5, LenProperties
<1>7. ASSUME NEW i \in DOMAIN h.items
      PROVE  /\ f[i] \in DOMAIN s
             /\ SameSpot(h.items[i], s[f[i]])
             /\ Lawful(h.items[i])
  <2>1. i \in 1 .. Len(s) - 1 /\ f[i] \in 1 .. Len(s)
    <3> HIDE DEF h, s, T
    <3>1. i \in 1 .. Len(s) - 1
      BY <1>6
    <3>2. i \in Nat /\ 1 <= i /\ i <= Len(s) - 1
      BY <1>3, <3>1
    <3>3. f[i] \in Nat /\ 1 <= f[i] /\ f[i] <= Len(s)
      <4>1. CASE i < k
        BY <1>2, <1>3, <3>2, <4>1
      <4>2. CASE ~(i < k)
        <5>1. f[i] = i + 1
          BY <1>2, <3>2, <4>2
        <5>2. QED
          BY <1>3, <3>2, <5>1
      <4>3. QED
        BY <4>1, <4>2
    <3>4. QED
      BY <1>3, <3>1, <3>3
  <2> HIDE DEF h
  <2>2. f[i] \in DOMAIN s /\ h.items[i] = s[f[i]]
    BY <1>1, <1>5, <2>1, Zenon
  <2>3. Lawful(s[f[i]])
    BY <2>2, TidyMeans, Zenon
  <2>4. QED
    BY <2>2, <2>3, Zenon DEF SameSpot
<1>8. \A i, j \in DOMAIN h.items : i # j => f[i] # f[j]
  <2> HIDE DEF h, s, T
  <2>1. ASSUME NEW i \in Nat, NEW j \in Nat, i # j PROVE f[i] # f[j]
    <3>1. /\ f[i] = IF i < k THEN i ELSE i + 1
          /\ f[j] = IF j < k THEN j ELSE j + 1
      BY <1>2
    <3>2. QED
      BY <1>3, <2>1, <3>1
  <2>2. \A i \in DOMAIN h.items : i \in Nat
    BY <1>3, <1>6
  <2>3. QED
    BY <2>1, <2>2, Zenon
<1>9. Tidy(h)
  <2> HIDE DEF h
  <2>1. QED
    BY <1>4, <1>7, <1>8, Rearrange, Zenon
<1>10. h \in GridSet(Mag, Inner)
  BY <1>5 DEF GridSet, RemoveItem
<1>11. \A K : Carries(g, K) => Carries(h, K)
  <2>1. \A i \in DOMAIN h.items : f[i] \in DOMAIN s /\ h.items[i] = s[f[i]]
    <3> HIDE DEF h, s, T
    <3>1. QED
      BY <1>5, <1>6, <1>7, Zenon
  <2> HIDE DEF h
  <2>2. QED
    BY <2>1, Zenon DEF Carries
<1>12. QED
  BY <1>9, <1>10, <1>11

(* Swapping two entries of the order moves nothing (InventoryMoved).       *)
THEOREM SwapKeepsTidy ==
    ASSUME NEW Mag, NEW Inner, NEW g \in GridSet(Mag, Inner),
           NEW i \in DOMAIN g.items, NEW j \in DOMAIN g.items, Tidy(g)
    PROVE  /\ Tidy(SwapItems(g, i, j)) /\ SwapItems(g, i, j) \in GridSet(Mag, Inner)
           /\ \A K : Carries(g, K) => Carries(SwapItems(g, i, j), K)
<1> DEFINE T == PlacedSet(Mag, Inner)
           s == g.items
           h == SwapItems(g, i, j)
           f == [k \in DOMAIN s |-> IF k = j THEN i ELSE IF k = i THEN j ELSE k]
<1>1. s \in Seq(T) /\ s[i] \in T /\ s[j] \in T
  BY DEF GridSet
<1>2. h.items = [s EXCEPT ![i] = s[j], ![j] = s[i]] /\ h.w = g.w /\ h.h = g.h
  BY DEF SwapItems, GridSet
<1>3. h.items \in Seq(T) /\ DOMAIN h.items = DOMAIN s
  <2> DEFINE u == [s EXCEPT ![i] = s[j]]
  <2>1. Len(s) \in Nat /\ DOMAIN s = 1 .. Len(s)
    BY <1>1
  <2> HIDE DEF T, s, h
  <2>2. i \in 1 .. Len(s) /\ j \in 1 .. Len(s)
    BY <2>1 DEF s
  <2>3. u \in Seq(T) /\ Len(u) = Len(s)
    BY <1>1, <2>2, ExceptSeq
  <2>4. h.items = [u EXCEPT ![j] = s[i]]
    BY <1>2
  <2> HIDE DEF u
  <2>5. h.items \in Seq(T) /\ Len(h.items) = Len(u)
    BY <1>1, <2>2, <2>3, <2>4, ExceptSeq
  <2>6. QED
    BY <2>1, <2>3, <2>5, LenProperties
<1>4. \A k \in DOMAIN s : h.items[k] = s[f[k]] /\ f[k] \in DOMAIN s
  <2> HIDE DEF T, h
  <2>1. QED
    BY <1>1, <1>2
<1>5. \A k, l \in DOMAIN s : k # l => f[k] # f[l]
  BY Zenon
<1> HIDE DEF f
<1>6. ASSUME NEW k \in DOMAIN h.items
      PROVE  /\ f[k] \in DOMAIN s
             /\ SameSpot(h.items[k], s[f[k]])
             /\ Lawful(h.items[k])
  <2> HIDE DEF h
  <2>1. f[k] \in DOMAIN s /\ h.items[k] = s[f[k]]
    BY <1>3, <1>4, Zenon
  <2>2. Lawful(s[f[k]])
    BY <2>1, TidyMeans, Zenon
  <2>3. QED
    BY <2>1, <2>2, Zenon DEF SameSpot
<1>7. Tidy(h)
  <2> HIDE DEF h
  <2>1. \A k, l \in DOMAIN h.items : k # l => f[k] # f[l]
    BY <1>3, <1>5, Zenon
  <2>2. h.w = g.w /\ h.h = g.h
    BY <1>2, Zenon
  <2>3. QED
    BY <1>6, <2>1, <2>2, Rearrange, Zenon
<1>8. h \in GridSet(Mag, Inner)
  BY <1>3 DEF GridSet, SwapItems
<1>9. \A K : Carries(g, K) => Carries(h, K)
  <2> HIDE DEF h
  <2>1. QED
    BY <1>3, <1>4, Zenon DEF Carries
<1>10. QED
  BY <1>7, <1>8, <1>9

(* Changing what is in a stack, or how much of it, moves nothing. *)
LEMMA RestackKeepsTidy ==
    ASSUME NEW Mag, NEW Inner, NEW g \in GridSet(Mag, Inner), NEW k \in DOMAIN g.items, Tidy(g),
           NEW st \in StackSet(Mag), st.id = g.items[k].stack.id, st.count \in 1 .. Def[st.id].stack
    PROVE  LET h == [g EXCEPT !.items[k].stack = st]
           IN  /\ Tidy(h) /\ h \in GridSet(Mag, Inner)
               /\ Len(h.items) = Len(g.items) /\ DOMAIN h.items = DOMAIN g.items
               /\ h.items[k].stack = st /\ h.items[k].inner = g.items[k].inner
               /\ \A i \in DOMAIN g.items \ {k} : h.items[i] = g.items[i]
<1> DEFINE h == [g EXCEPT !.items[k].stack = st]
           T == PlacedSet(Mag, Inner)
           s == g.items
           p == [s[k] EXCEPT !.stack = st]
           f == [i \in DOMAIN s |-> i]
<1>1. s \in Seq(T) /\ s[k] \in T
  BY DEF GridSet
<1>2. h.items = [s EXCEPT ![k] = p] /\ h.w = g.w /\ h.h = g.h
  BY DEF GridSet
<1>3. p \in T /\ SameSpot(p, s[k]) /\ p.stack = st /\ p.inner = s[k].inner
  BY <1>1 DEF PlacedSet, SameSpot
<1>4. Lawful(p)
  <2>1. Lawful(s[k])
    BY TidyMeans, Zenon
  <2>2. p.stack.id = s[k].stack.id /\ p.rot = s[k].rot
    BY <1>3 DEF SameSpot
  <2> HIDE DEF p, T
  <2> QED BY <1>3, <2>1, <2>2, Zenon DEF Lawful
<1> HIDE DEF p
<1>5. h.items \in Seq(T) /\ DOMAIN h.items = DOMAIN s /\ Len(h.items) = Len(s)
  <2>1. Len(s) \in Nat /\ DOMAIN s = 1 .. Len(s) /\ k \in 1 .. Len(s)
    BY <1>1
  <2> HIDE DEF T, s, h
  <2>2. h.items \in Seq(T) /\ Len(h.items) = Len(s)
    BY <1>1, <1>2, <1>3, <2>1, ExceptSeq
  <2>3. QED
    BY <2>1, <2>2, LenProperties
<1>6. ASSUME NEW i \in DOMAIN s
      PROVE  SameSpot(h.items[i], s[i]) /\ Lawful(h.items[i])
  <2>1. CASE i = k
    BY <1>2, <1>3, <1>4, <2>1 DEF SameSpot
  <2>2. CASE i # k
    <3>1. h.items[i] = s[i]
      BY <1>2, <2>2
    <3>2. Lawful(s[i])
      BY TidyMeans, Zenon
    <3>3. QED
      BY <3>1, <3>2, Zenon DEF SameSpot
  <2>3. QED
    BY <2>1, <2>2
<1>7. Tidy(h)
  <2>1. \A i \in DOMAIN s : f[i] = i
    BY Zenon
  <2> HIDE DEF f, h
  <2>2. ASSUME NEW i \in DOMAIN h.items
        PROVE  f[i] \in DOMAIN s /\ SameSpot(h.items[i], s[f[i]]) /\ Lawful(h.items[i])
    BY <1>5, <1>6, <2>1, Zenon
  <2>3. \A i, j \in DOMAIN h.items : i # j => f[i] # f[j]
    BY <1>5, <2>1, Zenon
  <2>4. h.w = g.w /\ h.h = g.h
    BY <1>2, Zenon
  <2>5. QED
    BY <2>2, <2>3, <2>4, Rearrange, Zenon
<1>8. h \in GridSet(Mag, Inner)
  BY <1>2, <1>5 DEF GridSet
<1>9. h.items[k].stack = st /\ h.items[k].inner = s[k].inner /\ \A i \in DOMAIN s \ {k} : h.items[i] = s[i]
  BY <1>1, <1>2, <1>3
<1> HIDE DEF h
<1>10. QED
  BY <1>5, <1>7, <1>8, <1>9 DEF h

(* Recounting a stack, or filling or emptying a magazine. *)
LEMMA RecountKeepsTidy ==
    ASSUME NEW Mag, NEW Inner, NEW g \in GridSet(Mag, Inner), NEW k \in DOMAIN g.items, Tidy(g),
           NEW c \in 1 .. Def[g.items[k].stack.id].stack
    PROVE  LET h == [g EXCEPT !.items[k].stack.count = c]
           IN  /\ Tidy(h) /\ h \in GridSet(Mag, Inner)
               /\ Len(h.items) = Len(g.items) /\ DOMAIN h.items = DOMAIN g.items
               /\ \A i \in DOMAIN g.items : /\ h.items[i].stack.id = g.items[i].stack.id
                                            /\ Sort(h.items[i]) = Sort(g.items[i])
<1>1. g.items[k].stack \in StackSet(Mag) /\ g.items[k].stack.id \in ItemIds
  BY ItemType
<1>2. c \in Nat
  BY <1>1, GridAssumption
<1>3. PICK st : st = [g.items[k].stack EXCEPT !.count = c]
  OBVIOUS
<1>4. st \in StackSet(Mag) /\ st.id = g.items[k].stack.id /\ st.mag = g.items[k].stack.mag /\ st.count = c
  BY <1>1, <1>2, <1>3 DEF StackSet
<1>5. LET h == [g EXCEPT !.items[k].stack = st]
      IN  /\ Tidy(h) /\ h \in GridSet(Mag, Inner)
          /\ Len(h.items) = Len(g.items) /\ DOMAIN h.items = DOMAIN g.items
          /\ h.items[k].stack = st /\ h.items[k].inner = g.items[k].inner
          /\ \A i \in DOMAIN g.items \ {k} : h.items[i] = g.items[i]
  BY <1>4, RestackKeepsTidy
<1>6. [g EXCEPT !.items[k].stack.count = c] = [g EXCEPT !.items[k].stack = st]
  BY <1>3
<1> DEFINE h == [g EXCEPT !.items[k].stack = st]
<1> HIDE DEF h
<1> QED BY <1>4, <1>5, <1>6 DEF h, Sort

LEMMA RefillKeepsTidy ==
    ASSUME NEW Mag, NEW Inner, NEW g \in GridSet(Mag, Inner), NEW k \in DOMAIN g.items, Tidy(g),
           NEW m \in Mag
    PROVE  LET h == [g EXCEPT !.items[k].stack.mag = m]
           IN  /\ Tidy(h) /\ h \in GridSet(Mag, Inner)
               /\ \A K : Carries(g, K) /\ <<g.items[k].stack.id, m, g.items[k].inner>> \in K => Carries(h, K)
<1>1. g.items[k].stack \in StackSet(Mag)
  BY ItemType
<1>2. PICK st : st = [g.items[k].stack EXCEPT !.mag = m]
  OBVIOUS
<1>3. st \in StackSet(Mag) /\ st.id = g.items[k].stack.id /\ st.mag = m /\ st.count = g.items[k].stack.count
  BY <1>1, <1>2 DEF StackSet
<1>4. st.count \in 1 .. Def[st.id].stack
  BY <1>3, TidyMeans, Zenon DEF Lawful
<1>5. LET h == [g EXCEPT !.items[k].stack = st]
      IN  /\ Tidy(h) /\ h \in GridSet(Mag, Inner)
          /\ Len(h.items) = Len(g.items) /\ DOMAIN h.items = DOMAIN g.items
          /\ h.items[k].stack = st /\ h.items[k].inner = g.items[k].inner
          /\ \A i \in DOMAIN g.items \ {k} : h.items[i] = g.items[i]
  BY <1>3, <1>4, RestackKeepsTidy
<1>6. [g EXCEPT !.items[k].stack.mag = m] = [g EXCEPT !.items[k].stack = st]
  BY <1>2
<1> DEFINE h == [g EXCEPT !.items[k].stack = st]
<1> HIDE DEF h
<1>7. ASSUME NEW K, Carries(g, K), <<g.items[k].stack.id, m, g.items[k].inner>> \in K PROVE Carries(h, K)
  BY <1>3, <1>5, <1>7 DEF Carries, Sort, h
<1> QED BY <1>5, <1>6, <1>7 DEF h

(* What is in an item is no part of where it lies. *)
LEMMA FillKeepsTidy ==
    ASSUME NEW Mag, NEW Inner, NEW g \in GridSet(Mag, Inner), NEW k \in DOMAIN g.items, Tidy(g),
           NEW o \in Inner
    PROVE  LET h == [g EXCEPT !.items[k].inner = o]
           IN  /\ Tidy(h) /\ h \in GridSet(Mag, Inner)
               /\ \A K : /\ Carries(g, K)
                        /\ <<g.items[k].stack.id, g.items[k].stack.mag, o>> \in K
                        => Carries(h, K)
<1> DEFINE h == [g EXCEPT !.items[k].inner = o]
           T == PlacedSet(Mag, Inner)
           s == g.items
           p == [s[k] EXCEPT !.inner = o]
<1>1. s \in Seq(T) /\ s[k] \in T /\ Len(s) \in Nat /\ DOMAIN s = 1 .. Len(s)
  BY DEF GridSet
<1>2. h.items = [s EXCEPT ![k] = p] /\ h.w = g.w /\ h.h = g.h /\ h = [g EXCEPT !.items = h.items]
  BY DEF GridSet
<1>3. p \in T /\ SameSpot(p, s[k]) /\ p.stack = s[k].stack /\ p.inner = o
  BY <1>1 DEF PlacedSet, SameSpot
<1>4. Lawful(s[k]) /\ \A i \in DOMAIN s : Lawful(s[i])
  BY TidyMeans, Zenon
<1>5. Lawful(p)
  <2> HIDE DEF p, T
  <2> QED BY <1>3, <1>4, Zenon DEF Lawful, SameSpot
<1> HIDE DEF p
<1>6. h.items \in Seq(T) /\ DOMAIN h.items = DOMAIN s
  <2> HIDE DEF T, s, h
  <2>1. k \in 1 .. Len(s)
    BY <1>1 DEF s
  <2>2. h.items \in Seq(T) /\ Len(h.items) = Len(s)
    BY <1>1, <1>2, <1>3, <2>1, ExceptSeq
  <2> QED BY <1>1, <2>2, LenProperties
<1>7. h.items[k] = p /\ \A i \in DOMAIN s \ {k} : h.items[i] = s[i]
  <2> HIDE DEF h, T
  <2> QED BY <1>1, <1>2
<1> DEFINE f == [i \in DOMAIN s |-> i]
<1>8. Tidy(h)
  <2>1. \A i \in DOMAIN s : f[i] = i
    BY Zenon
  <2> HIDE DEF f, h
  <2>2. ASSUME NEW i \in DOMAIN h.items
        PROVE  f[i] \in DOMAIN s /\ SameSpot(h.items[i], s[f[i]]) /\ Lawful(h.items[i])
    <3>1. i \in DOMAIN s /\ f[i] = i
      BY <1>6, <2>1, Zenon
    <3>2. CASE i = k
      BY <1>3, <1>5, <1>7, <3>1, <3>2
    <3>3. CASE i # k
      BY <1>4, <1>7, <3>1, <3>3 DEF SameSpot
    <3> QED BY <3>2, <3>3
  <2>3. \A i, j \in DOMAIN h.items : i # j => f[i] # f[j]
    BY <1>6, <2>1, Zenon
  <2>4. h.w = g.w /\ h.h = g.h
    BY <1>2
  <2> QED BY <2>2, <2>3, <2>4, Rearrange, Zenon
<1>9. h \in GridSet(Mag, Inner)
  BY <1>6 DEF GridSet
<1>10. ASSUME NEW K, Carries(g, K), <<s[k].stack.id, s[k].stack.mag, o>> \in K PROVE Carries(h, K)
  <2> HIDE DEF h
  <2> QED BY <1>3, <1>6, <1>7, <1>10 DEF Carries, Sort
<1> HIDE DEF h
<1> QED BY <1>8, <1>9, <1>10 DEF h

(* Using one unit takes the slot with the last unit and only recounts      *)
(* otherwise (take_one_from_slot).                                         *)
THEOREM TakeOneKeepsTidy ==
    ASSUME NEW Mag, NEW Inner, NEW g \in GridSet(Mag, Inner), NEW k \in DOMAIN g.items, Tidy(g)
    PROVE  /\ Tidy(TakeOne(g, k)) /\ TakeOne(g, k) \in GridSet(Mag, Inner)
           /\ \A K : Carries(g, K) => Carries(TakeOne(g, k), K)
<1>1. CASE g.items[k].stack.count <= 1
  BY <1>1, RemoveKeepsTidy DEF TakeOne
<1>2. CASE ~(g.items[k].stack.count <= 1)
  <2>1. g.items[k].stack.count \in Nat /\ g.items[k].stack.id \in ItemIds
    <3>1. g.items[k] \in PlacedSet(Mag, Inner)
      BY DEF GridSet
    <3> QED BY <3>1 DEF PlacedSet, StackSet
  <2>2. g.items[k].stack.count \in 1 .. Def[g.items[k].stack.id].stack
    BY TidyMeans, Zenon DEF Lawful
  <2>3. PICK c \in 1 .. Def[g.items[k].stack.id].stack : c = g.items[k].stack.count - 1
    BY <1>2, <2>1, <2>2, GridAssumption
  <2>4. TakeOne(g, k) = [g EXCEPT !.items[k].stack.count = c]
    BY <1>2, <2>3 DEF TakeOne
  <2> DEFINE h == [g EXCEPT !.items[k].stack.count = c]
  <2>6. /\ Tidy(h) /\ h \in GridSet(Mag, Inner)
        /\ Len(h.items) = Len(g.items) /\ DOMAIN h.items = DOMAIN g.items
        /\ \A i \in DOMAIN g.items : /\ h.items[i].stack.id = g.items[i].stack.id
                                     /\ Sort(h.items[i]) = Sort(g.items[i])
    BY RecountKeepsTidy
  <2> HIDE DEF h
  <2>7. \A K : Carries(g, K) => Carries(h, K)
    BY <2>6 DEF Carries
  <2> QED BY <2>4, <2>6, <2>7 DEF h
<1>3. QED
  BY <1>1, <1>2
-----------------------------------------------------------------------------

(* The scan order is total, so the first of some spots is one of them.     *)
LEMMA FirstIsASpot ==
    ASSUME NEW spots, spots \subseteq Nat \X Nat, spots # {}
    PROVE  First(spots) \in spots
<1> DEFINE Rows == {p[2] : p \in spots}
<1>1. PICK r \in Rows : \A m \in Rows : r <= m
  <2>1. Rows \subseteq Nat /\ Rows # {}
    OBVIOUS
  <2>2. QED
    BY <2>1, LeastNumber
<1> DEFINE Cols == {p[1] : p \in {q \in spots : q[2] = r}}
<1>2. PICK c \in Cols : \A m \in Cols : c <= m
  <2>1. Cols \subseteq Nat /\ Cols # {}
    OBVIOUS
  <2>2. QED
    BY <2>1, LeastNumber
<1>3. PICK p \in spots : p[2] = r /\ p[1] = c
  OBVIOUS
<1>4. ASSUME NEW q \in spots PROVE p[2] < q[2] \/ (p[2] = q[2] /\ p[1] <= q[1])
  <2>1. r <= q[2] /\ q[2] \in Nat /\ r \in Nat
    BY <1>1
  <2>2. CASE q[2] = r
    <3>1. q[1] \in Cols
      BY <2>2
    <3>2. QED
      BY <1>2, <1>3, <2>2, <3>1
  <2>3. CASE q[2] # r
    BY <1>3, <2>1, <2>3
  <2>4. QED
    BY <2>2, <2>3
<1>5. \E o \in spots : \A q \in spots : o[2] < q[2] \/ (o[2] = q[2] /\ o[1] <= q[1])
  BY <1>4
<1>6. QED
  BY <1>5, Zenon DEF First

(* The rotation chosen is one the item may take and has a free spot.       *)
LEMMA RotationFits ==
    ASSUME NEW g, NEW id, HasRoom(g, id)
    PROVE  /\ Rotation(g, id) \in {0, 90}
           /\ Def[id].rotatable \/ Rotation(g, id) = 0
           /\ Spots(g, Size(id, Rotation(g, id))) # {}
  BY DEF HasRoom, Rotation

(* First fit: if the item fits anywhere, in a rotation it may take, it is  *)
(* put where it overlaps nothing and no other item moves (find_first_fit). *)
THEOREM PlaceKeepsTidy ==
    ASSUME NEW Mag, NEW Inner, NEW g \in GridSet(Mag, Inner), Tidy(g),
           NEW stack \in StackSet(Mag), NEW inner \in Inner,
           stack.count \in 1 .. Def[stack.id].stack, HasRoom(g, stack.id)
    PROVE  /\ Tidy(Place(g, stack, inner)) /\ Place(g, stack, inner) \in GridSet(Mag, Inner)
           /\ \A K : Carries(g, K) /\ <<stack.id, stack.mag, inner>> \in K => Carries(Place(g, stack, inner), K)
           /\ Len(g.items) + 1 \in DOMAIN Place(g, stack, inner).items
           /\ Place(g, stack, inner).items[Len(g.items) + 1].stack = stack
           /\ Place(g, stack, inner).items[Len(g.items) + 1].inner = inner
<1> DEFINE T    == PlacedSet(Mag, Inner)
           s    == g.items
           rot  == Rotation(g, stack.id)
           size == Size(stack.id, rot)
           spot == First(Spots(g, size))
           new  == [stack |-> stack, x |-> spot[1], y |-> spot[2], rot |-> rot, inner |-> inner]
           h    == Place(g, stack, inner)
           n    == Len(s) + 1
<1>1. s \in Seq(T) /\ Len(s) \in Nat /\ DOMAIN s = 1 .. Len(s) /\ g.w \in Nat /\ g.h \in Nat
  BY DEF GridSet
<1>2. rot \in {0, 90} /\ (Def[stack.id].rotatable \/ rot = 0) /\ Spots(g, size) # {}
  BY RotationFits
<1>3. spot \in Nat \X Nat /\ FitsAt(g, spot[1], spot[2], size, {})
  <2> HIDE DEF size, s
  <2>1. Spots(g, size) \subseteq Nat \X Nat
    BY <1>1 DEF Spots
  <2>2. spot \in Spots(g, size)
    BY <1>2, <2>1, FirstIsASpot
  <2> HIDE DEF spot
  <2>3. QED
    BY <2>1, <2>2 DEF Spots
<1>4. h.items = Append(s, new) /\ h.w = g.w /\ h.h = g.h
  BY DEF Place, PlaceTurned, PlaceAt, GridSet
<1> HIDE DEF size, spot, rot
<1>5. new \in T
  BY <1>2, <1>3 DEF PlacedSet
<1>6. new.stack = stack /\ new.inner = inner /\ new.x = spot[1] /\ new.y = spot[2] /\ new.rot = rot
  OBVIOUS
<1> HIDE DEF new
<1>7. /\ h.items \in Seq(T) /\ DOMAIN h.items = 1 .. n
      /\ h.items[n] = new
      /\ \A i \in 1 .. Len(s) : h.items[i] = s[i]
  <2> HIDE DEF s, T, h
  <2>1. QED
    BY <1>1, <1>4, <1>5, AppendProperties
<1>8. SizeOf(new) = size
  BY <1>6 DEF SizeOf, size
<1>9. Inside(h, new) /\ Lawful(new)
  <2>1. Inside(h, new)
    BY <1>3, <1>4, <1>6, <1>8 DEF FitsAt, Inside
  <2>2. Lawful(new)
    BY <1>2, <1>6, Zenon DEF Lawful
  <2>3. QED
    BY <2>1, <2>2
<1>10. ASSUME NEW i \in 1 .. Len(s) PROVE Apart(new, s[i]) /\ Apart(s[i], new)
  <2>1. Apart(new, s[i])
    BY <1>1, <1>3, <1>6, <1>8 DEF FitsAt, Apart
  <2>2. s[i] \in T
    BY <1>1
  <2> HIDE DEF s, T
  <2>3. QED
    BY <1>5, <2>1, <2>2, ApartSymmetric DEF T
<1>11. ASSUME NEW i \in DOMAIN h.items PROVE Inside(h, h.items[i]) /\ Lawful(h.items[i])
  <2> HIDE DEF h
  <2>1. CASE i = n
    BY <1>7, <1>9, <2>1
  <2>2. CASE i # n
    <3>1. i \in 1 .. Len(s) /\ h.items[i] = s[i]
      BY <1>1, <1>7, <2>2
    <3>2. Inside(g, s[i]) /\ Lawful(s[i])
      BY <1>1, <3>1, TidyMeans, Zenon
    <3>3. Inside(h, s[i])
      BY <1>4, <3>2 DEF Inside
    <3>4. QED
      BY <3>1, <3>2, <3>3
  <2>3. QED
    BY <2>1, <2>2
<1>12. ASSUME NEW i \in DOMAIN h.items, NEW j \in DOMAIN h.items, i # j
       PROVE  Apart(h.items[i], h.items[j])
  <2> HIDE DEF h
  <2>1. i \in 1 .. Len(s) \/ i = n
    BY <1>1, <1>7
  <2>2. j \in 1 .. Len(s) \/ j = n
    BY <1>1, <1>7
  <2>3. CASE i = n
    <3>1. j \in 1 .. Len(s)
      BY <1>12, <2>2, <2>3
    <3>2. QED
      BY <1>7, <1>10, <2>3, <3>1, Zenon
  <2>4. CASE j = n
    <3>1. i \in 1 .. Len(s)
      BY <1>12, <2>1, <2>4
    <3>2. QED
      BY <1>7, <1>10, <2>4, <3>1, Zenon
  <2>5. CASE i \in 1 .. Len(s) /\ j \in 1 .. Len(s)
    <3>1. Apart(s[i], s[j])
      BY <1>1, <1>12, <2>5, TidyMeans, Zenon
    <3>2. QED
      BY <1>7, <2>5, <3>1, Zenon
  <2>6. QED
    BY <2>1, <2>2, <2>3, <2>4, <2>5
<1>13. Tidy(h)
  <2> HIDE DEF h
  <2>1. QED
    BY <1>11, <1>12, TidyMeans, Zenon
<1>14. h \in GridSet(Mag, Inner)
  BY <1>7 DEF GridSet, Place, PlaceTurned, PlaceAt
<1>15. \A K : Carries(g, K) /\ <<stack.id, stack.mag, inner>> \in K => Carries(h, K)
  <2>1. DOMAIN s = 1 .. Len(s) /\ \A i \in 1 .. n : i \in 1 .. Len(s) \/ i = n
    BY <1>1
  <2> HIDE DEF h, n, s
  <2>2. QED
    BY <1>6, <1>7, <2>1 DEF Carries, Sort, s
<1>16. n \in DOMAIN h.items /\ h.items[n].stack = stack /\ h.items[n].inner = inner
  <2>1. n \in 1 .. n
    BY <1>1
  <2> HIDE DEF h, n, s
  <2> QED BY <1>6, <1>7, <2>1
<1>17. QED
  BY <1>13, <1>14, <1>15, <1>16

-----------------------------------------------------------------------------
(* The passes over a grid, item by item                                    *)

(* The accumulators after 0, 1, ... n items. *)
Pours(v, id, tick, acc, n) ==
    /\ v[0] = acc
    /\ \A i \in 1 .. n : v[i] = Pour(id, tick, v[i - 1], i)
Opens(v, id, tick, acc, n) ==
    /\ v[0] = acc
    /\ \A i \in 1 .. n : v[i] = OpenStack(id, tick, v[i - 1])
Drains(v, id, items, need, n) ==
    /\ v[0] = [items |-> <<>>, left |-> need]
    /\ \A i \in 1 .. n : v[i] = Drain(id, v[i - 1], items[i])

LEMMA PourAllIs ==
    ASSUME NEW id, NEW tick, NEW acc, NEW n \in Nat, Len(acc.grid.items) = n
    PROVE  \E v : Pours(v, id, tick, acc, n) /\ PourAll(id, tick, acc) = v[n]
<1> DEFINE P == {m \in Nat : \E f : f = [i \in 0 .. m |-> IF i = 0 THEN acc ELSE Pour(id, tick, f[i - 1], i)]}
<1>1. 0 \in P
  <2> DEFINE g == [i \in 0 .. 0 |-> acc]
  <2>1. g = [i \in 0 .. 0 |-> IF i = 0 THEN acc ELSE Pour(id, tick, g[i - 1], i)]
    OBVIOUS
  <2> QED BY <2>1
<1>2. ASSUME NEW m \in P PROVE m + 1 \in P
  <2>1. PICK f : f = [i \in 0 .. m |-> IF i = 0 THEN acc ELSE Pour(id, tick, f[i - 1], i)]
    OBVIOUS
  <2> DEFINE g == [i \in 0 .. m + 1 |-> IF i = m + 1 THEN Pour(id, tick, f[m], m + 1) ELSE f[i]]
  <2>2. ASSUME NEW i \in 0 .. m + 1 PROVE g[i] = IF i = 0 THEN acc ELSE Pour(id, tick, g[i - 1], i)
    <3>1. CASE i = m + 1
      <4>1. i - 1 = m /\ m \in 0 .. m + 1 /\ m # m + 1 /\ i # 0
        BY <3>1
      <4> QED BY <3>1, <4>1
    <3>2. CASE i # m + 1
      <4>1. i \in 0 .. m /\ g[i] = f[i]
        BY <3>2
      <4>2. i # 0 => i - 1 \in 0 .. m + 1 /\ i - 1 # m + 1
        BY <4>1
      <4> QED BY <2>1, <4>1, <4>2
    <3> QED BY <3>1, <3>2
  <2>3. g = [i \in 0 .. m + 1 |-> IF i = 0 THEN acc ELSE Pour(id, tick, g[i - 1], i)]
    BY <2>2
  <2> HIDE DEF g
  <2> QED BY <2>3
<1>3. P = Nat
  <2> HIDE DEF P
  <2> QED BY <1>1, <1>2, SetInduction, P \in SUBSET Nat DEF P
<1> DEFINE f == CHOOSE f : f = [i \in 0 .. n |-> IF i = 0 THEN acc ELSE Pour(id, tick, f[i - 1], i)]
<1>4. PourAll(id, tick, acc) = f[n]
  BY DEF PourAll
<1>5. f = [i \in 0 .. n |-> IF i = 0 THEN acc ELSE Pour(id, tick, f[i - 1], i)]
  <2>1. \E g : g = [i \in 0 .. n |-> IF i = 0 THEN acc ELSE Pour(id, tick, g[i - 1], i)]
    BY <1>3
  <2> QED BY <2>1, Zenon
<1> HIDE DEF f
<1>6. Pours(f, id, tick, acc, n)
  BY <1>5 DEF Pours
<1> QED BY <1>4, <1>6
LEMMA OpenStacksIs ==
    ASSUME NEW id, NEW tick, NEW acc, NEW n \in Nat, acc.left = n
    PROVE  \E v : Opens(v, id, tick, acc, n) /\ OpenStacks(id, tick, acc) = v[n]
<1> DEFINE P == {m \in Nat : \E f : f = [i \in 0 .. m |-> IF i = 0 THEN acc ELSE OpenStack(id, tick, f[i - 1])]}
<1>1. 0 \in P
  <2> DEFINE g == [i \in 0 .. 0 |-> acc]
  <2>1. g = [i \in 0 .. 0 |-> IF i = 0 THEN acc ELSE OpenStack(id, tick, g[i - 1])]
    OBVIOUS
  <2> QED BY <2>1
<1>2. ASSUME NEW m \in P PROVE m + 1 \in P
  <2>1. PICK f : f = [i \in 0 .. m |-> IF i = 0 THEN acc ELSE OpenStack(id, tick, f[i - 1])]
    OBVIOUS
  <2> DEFINE g == [i \in 0 .. m + 1 |-> IF i = m + 1 THEN OpenStack(id, tick, f[m]) ELSE f[i]]
  <2>2. ASSUME NEW i \in 0 .. m + 1 PROVE g[i] = IF i = 0 THEN acc ELSE OpenStack(id, tick, g[i - 1])
    <3>1. CASE i = m + 1
      <4>1. i - 1 = m /\ m \in 0 .. m + 1 /\ m # m + 1 /\ i # 0
        BY <3>1
      <4> QED BY <3>1, <4>1
    <3>2. CASE i # m + 1
      <4>1. i \in 0 .. m /\ g[i] = f[i]
        BY <3>2
      <4>2. i # 0 => i - 1 \in 0 .. m + 1 /\ i - 1 # m + 1
        BY <4>1
      <4> QED BY <2>1, <4>1, <4>2
    <3> QED BY <3>1, <3>2
  <2>3. g = [i \in 0 .. m + 1 |-> IF i = 0 THEN acc ELSE OpenStack(id, tick, g[i - 1])]
    BY <2>2
  <2> HIDE DEF g
  <2> QED BY <2>3
<1>3. P = Nat
  <2> HIDE DEF P
  <2> QED BY <1>1, <1>2, SetInduction, P \in SUBSET Nat DEF P
<1> DEFINE f == CHOOSE f : f = [i \in 0 .. n |-> IF i = 0 THEN acc ELSE OpenStack(id, tick, f[i - 1])]
<1>4. OpenStacks(id, tick, acc) = f[n]
  BY DEF OpenStacks
<1>5. f = [i \in 0 .. n |-> IF i = 0 THEN acc ELSE OpenStack(id, tick, f[i - 1])]
  <2>1. \E g : g = [i \in 0 .. n |-> IF i = 0 THEN acc ELSE OpenStack(id, tick, g[i - 1])]
    BY <1>3
  <2> QED BY <2>1, Zenon
<1> HIDE DEF f
<1>6. Opens(f, id, tick, acc, n)
  BY <1>5 DEF Opens
<1> QED BY <1>4, <1>6
LEMMA DrainAllIs ==
    ASSUME NEW id, NEW items, NEW need, NEW n \in Nat, Len(items) = n
    PROVE  \E v : Drains(v, id, items, need, n) /\ DrainAll(items, id, need) = v[n]
<1>a. PICK acc : acc = [items |-> <<>>, left |-> need]
  OBVIOUS
<1> DEFINE P == {m \in Nat : \E f : f = [i \in 0 .. m |-> IF i = 0 THEN acc ELSE Drain(id, f[i - 1], items[i])]}
<1>1. 0 \in P
  <2> DEFINE g == [i \in 0 .. 0 |-> acc]
  <2>1. g = [i \in 0 .. 0 |-> IF i = 0 THEN acc ELSE Drain(id, g[i - 1], items[i])]
    OBVIOUS
  <2> QED BY <2>1
<1>2. ASSUME NEW m \in P PROVE m + 1 \in P
  <2>1. PICK f : f = [i \in 0 .. m |-> IF i = 0 THEN acc ELSE Drain(id, f[i - 1], items[i])]
    OBVIOUS
  <2> DEFINE g == [i \in 0 .. m + 1 |-> IF i = m + 1 THEN Drain(id, f[m], items[m + 1]) ELSE f[i]]
  <2>2. ASSUME NEW i \in 0 .. m + 1 PROVE g[i] = IF i = 0 THEN acc ELSE Drain(id, g[i - 1], items[i])
    <3>1. CASE i = m + 1
      <4>1. i - 1 = m /\ m \in 0 .. m + 1 /\ m # m + 1 /\ i # 0
        BY <3>1
      <4> QED BY <3>1, <4>1
    <3>2. CASE i # m + 1
      <4>1. i \in 0 .. m /\ g[i] = f[i]
        BY <3>2
      <4>2. i # 0 => i - 1 \in 0 .. m + 1 /\ i - 1 # m + 1
        BY <4>1
      <4> QED BY <2>1, <4>1, <4>2
    <3> QED BY <3>1, <3>2
  <2>3. g = [i \in 0 .. m + 1 |-> IF i = 0 THEN acc ELSE Drain(id, g[i - 1], items[i])]
    BY <2>2
  <2> HIDE DEF g
  <2> QED BY <2>3
<1>3. P = Nat
  <2> HIDE DEF P
  <2> QED BY <1>1, <1>2, SetInduction, P \in SUBSET Nat DEF P
<1> DEFINE f == CHOOSE f : f = [i \in 0 .. n |-> IF i = 0 THEN acc ELSE Drain(id, f[i - 1], items[i])]
<1>4. DrainAll(items, id, need) = f[n]
  BY <1>a DEF DrainAll
<1>5. f = [i \in 0 .. n |-> IF i = 0 THEN acc ELSE Drain(id, f[i - 1], items[i])]
  <2>1. \E g : g = [i \in 0 .. n |-> IF i = 0 THEN acc ELSE Drain(id, g[i - 1], items[i])]
    BY <1>3
  <2> QED BY <2>1, Zenon
<1> HIDE DEF f
<1>6. Drains(f, id, items, need, n)
  BY <1>a, <1>5 DEF Drains
<1> QED BY <1>4, <1>6

-----------------------------------------------------------------------------
(* Grants                                                                  *)

Neat(Mag, Inner, K) == {g \in GridSet(Mag, Inner) : Tidy(g) /\ Carries(g, K)}

(* The stack touched last is one of the granted id; where each unit makes a *)
(* stack of its own it is a new one.                                       *)
Touched(r, id) ==
    \/ r.touched = 0
    \/ /\ r.touched \in DOMAIN r.grid.items
       /\ r.grid.items[r.touched].stack.id = id
       /\ Def[id].stack = 1 => r.grid.items[r.touched].inner = FreshInner(id)

LEMMA PourKeeps ==
    ASSUME NEW Mag, NEW Inner, NEW K, NEW id \in ItemIds, NEW tick, NEW acc,
           acc.grid \in Neat(Mag, Inner, K), acc.left \in Nat, NEW i \in DOMAIN acc.grid.items
    PROVE  LET r == Pour(id, tick, acc, i)
           IN  /\ r.grid \in Neat(Mag, Inner, K) /\ r.left \in Nat /\ r.left <= acc.left
               /\ Len(r.grid.items) = Len(acc.grid.items)
               /\ DOMAIN r.grid.items = DOMAIN acc.grid.items
               /\ Touched(acc, id) => Touched(r, id)
<1> DEFINE g == acc.grid
           p == g.items[i]
           take == Least(acc.left, Def[id].stack - p.stack.count)
           r == Pour(id, tick, acc, i)
<1>1. CASE ~Mergeable(p, id, tick) \/ acc.left = 0
  <2>1. r = acc
    BY <1>1 DEF Pour
  <2> HIDE DEF r
  <2> QED BY <2>1 DEF r
<1>2. CASE Mergeable(p, id, tick) /\ acc.left # 0
  <2>1. p.stack.id = id /\ p.stack.count < Def[id].stack
    BY <1>2 DEF Mergeable
  <2>2. p.stack.count \in Nat /\ g \in GridSet(Mag, Inner) /\ Tidy(g) /\ Carries(g, K)
    BY ItemType DEF Neat
  <2>3. p.stack.count \in 1 .. Def[p.stack.id].stack /\ Def[id].stack \in Nat
    BY <2>2, TidyMeans, GridAssumption, Zenon DEF Lawful
  <2>4. take \in Nat /\ take <= acc.left /\ p.stack.count + take <= Def[id].stack
    BY <2>1, <2>2, <2>3 DEF Least
  <2>5. r = [grid |-> [g EXCEPT !.items[i].stack.count = @ + take], left |-> acc.left - take, touched |-> i]
    BY <1>2 DEF Pour
  <2> HIDE DEF take, r
  <2>6. PICK c : c = p.stack.count + take
    OBVIOUS
  <2>7. PICK gg : gg = acc.grid
    OBVIOUS
  <2> DEFINE h == [gg EXCEPT !.items[i].stack.count = c]
  <2>c. gg.items[i].stack.id = id /\ c \in 1 .. Def[gg.items[i].stack.id].stack
    <3>1. c \in 1 .. Def[id].stack
      <4> HIDE DEF p
      <4> QED BY <2>1, <2>3, <2>4, <2>6
    <3> QED BY <2>1, <2>7, <3>1
  <2>8. /\ Tidy(h) /\ h \in GridSet(Mag, Inner)
        /\ Len(h.items) = Len(gg.items) /\ DOMAIN h.items = DOMAIN gg.items
        /\ \A j \in DOMAIN gg.items : /\ h.items[j].stack.id = gg.items[j].stack.id
                                      /\ Sort(h.items[j]) = Sort(gg.items[j])
    <3>1. gg \in GridSet(Mag, Inner) /\ Tidy(gg) /\ i \in DOMAIN gg.items
      BY <2>2, <2>7
    <3> HIDE DEF g, p
    <3> QED BY <2>c, <3>1, RecountKeepsTidy
  <2>9. Carries(h, K)
    <3> HIDE DEF h
    <3> QED BY <2>2, <2>7, <2>8, Zenon DEF Carries
  <2>10. r.grid = h /\ r.left = acc.left - take /\ r.touched = i
    BY <2>5, <2>6, <2>7
  <2>11. Def[id].stack # 1
    <3> HIDE DEF p
    <3> QED BY <2>1, <2>3
  <2> HIDE DEF h
  <2>12. Touched(r, id)
    BY <2>c, <2>7, <2>8, <2>10, <2>11 DEF Touched
  <2> QED BY <2>4, <2>7, <2>8, <2>9, <2>10, <2>12 DEF Neat, r
<1> QED BY <1>1, <1>2

LEMMA PourAllKeeps ==
    ASSUME NEW Mag, NEW Inner, NEW K, NEW id \in ItemIds, NEW tick, NEW acc,
           acc.grid \in Neat(Mag, Inner, K), acc.left \in Nat
    PROVE  LET r == PourAll(id, tick, acc)
           IN  /\ r.grid \in Neat(Mag, Inner, K) /\ r.left \in Nat
               /\ Touched(acc, id) => Touched(r, id)
<1>1. PICK n \in Nat : n = Len(acc.grid.items)
  BY LenProperties DEF Neat, GridSet
<1>2. PICK v : Pours(v, id, tick, acc, n) /\ PourAll(id, tick, acc) = v[n]
  BY <1>1, PourAllIs
<1>3. DOMAIN acc.grid.items = 1 .. n
  BY <1>1, LenProperties DEF Neat, GridSet
<1> DEFINE P == {k \in Nat : k <= n => /\ v[k].grid \in Neat(Mag, Inner, K) /\ v[k].left \in Nat
                                       /\ DOMAIN v[k].grid.items = 1 .. n
                                       /\ Touched(acc, id) => Touched(v[k], id)}
<1>4. 0 \in P
  BY <1>2, <1>3 DEF Pours
<1>5. ASSUME NEW k \in P PROVE k + 1 \in P
  <2> SUFFICES ASSUME k + 1 <= n PROVE k + 1 \in P
    OBVIOUS
  <2>1. k + 1 \in 1 .. n /\ (k + 1) - 1 = k
    OBVIOUS
  <2>2. v[k + 1] = Pour(id, tick, v[(k + 1) - 1], k + 1)
    BY <1>2, <2>1, Zenon DEF Pours
  <2>3. PICK i, a : i = k + 1 /\ a = v[k]
    OBVIOUS
  <2>4. /\ a.grid \in Neat(Mag, Inner, K) /\ a.left \in Nat /\ DOMAIN a.grid.items = 1 .. n
        /\ i \in DOMAIN a.grid.items
        /\ Touched(acc, id) => Touched(a, id)
    BY <2>1, <2>3
  <2>5. LET r == Pour(id, tick, a, i)
        IN  /\ r.grid \in Neat(Mag, Inner, K) /\ r.left \in Nat /\ DOMAIN r.grid.items = 1 .. n
            /\ Touched(a, id) => Touched(r, id)
    BY <2>4, PourKeeps
  <2> QED BY <2>1, <2>2, <2>3, <2>5
<1>6. P = Nat
  <2> HIDE DEF P
  <2> QED BY <1>4, <1>5, SetInduction, P \in SUBSET Nat DEF P
<1> QED BY <1>2, <1>6

LEMMA OpenKeeps ==
    ASSUME NEW Mag, NEW Inner, NEW K, NEW id \in ItemIds, NEW tick \in Nat, NEW acc,
           acc.grid \in Neat(Mag, Inner, K), acc.left \in Nat,
           <<>> \in Mag, FreshInner(id) \in Inner, <<id, <<>>, FreshInner(id)>> \in K
    PROVE  LET r == OpenStack(id, tick, acc)
           IN  /\ r.grid \in Neat(Mag, Inner, K) /\ r.left \in Nat
               /\ Touched(acc, id) => Touched(r, id)
<1> DEFINE take == Least(acc.left, Def[id].stack)
           stack == [id |-> id, count |-> take, tick |-> tick, mag |-> <<>>]
           r == OpenStack(id, tick, acc)
<1>1. CASE acc.left = 0 \/ ~HasRoom(acc.grid, id)
  <2>1. r = acc
    BY <1>1 DEF OpenStack
  <2> HIDE DEF r
  <2> QED BY <2>1 DEF r
<1>2. CASE acc.left # 0 /\ HasRoom(acc.grid, id)
  <2>1. take \in 1 .. Def[id].stack /\ take \in Nat /\ acc.left - take \in Nat
    BY <1>2, GridAssumption DEF Least
  <2>2. r = [grid |-> Place(acc.grid, stack, FreshInner(id)), left |-> acc.left - take,
             touched |-> Len(acc.grid.items) + 1]
    BY <1>2 DEF OpenStack
  <2>3. acc.grid \in GridSet(Mag, Inner) /\ Tidy(acc.grid) /\ Carries(acc.grid, K)
    BY DEF Neat
  <2> HIDE DEF take, r
  <2>4. stack \in StackSet(Mag) /\ stack.id = id /\ stack.count = take /\ stack.mag = <<>>
    BY <2>1 DEF StackSet
  <2>5. PICK s \in StackSet(Mag) : s = stack /\ s.id = id /\ s.count = take /\ s.mag = <<>>
    BY <2>4, Zenon
  <2>6. s.count \in 1 .. Def[s.id].stack /\ HasRoom(acc.grid, s.id) /\ <<s.id, s.mag, FreshInner(id)>> \in K
    BY <1>2, <2>1, <2>5
  <2>7. PICK h : h = Place(acc.grid, s, FreshInner(id))
    OBVIOUS
  <2>8. /\ Tidy(h) /\ h \in GridSet(Mag, Inner) /\ Carries(h, K)
        /\ Len(acc.grid.items) + 1 \in DOMAIN h.items
        /\ h.items[Len(acc.grid.items) + 1].stack = s
        /\ h.items[Len(acc.grid.items) + 1].inner = FreshInner(id)
    BY <2>3, <2>6, <2>7, PlaceKeepsTidy
  <2>9. r.grid = h /\ r.left = acc.left - take /\ r.touched = Len(acc.grid.items) + 1
    BY <2>2, <2>5, <2>7
  <2>10. Touched(r, id)
    BY <2>5, <2>8, <2>9 DEF Touched
  <2> QED BY <2>1, <2>8, <2>9, <2>10 DEF Neat, r
<1> QED BY <1>1, <1>2

LEMMA OpenStacksKeep ==
    ASSUME NEW Mag, NEW Inner, NEW K, NEW id \in ItemIds, NEW tick \in Nat, NEW acc,
           acc.grid \in Neat(Mag, Inner, K), acc.left \in Nat,
           <<>> \in Mag, FreshInner(id) \in Inner, <<id, <<>>, FreshInner(id)>> \in K
    PROVE  LET r == OpenStacks(id, tick, acc)
           IN  /\ r.grid \in Neat(Mag, Inner, K) /\ r.left \in Nat
               /\ Touched(acc, id) => Touched(r, id)
<1>1. PICK n \in Nat : n = acc.left
  OBVIOUS
<1>2. PICK v : Opens(v, id, tick, acc, n) /\ OpenStacks(id, tick, acc) = v[n]
  BY <1>1, OpenStacksIs
<1> DEFINE P == {k \in Nat : k <= n => /\ v[k].grid \in Neat(Mag, Inner, K) /\ v[k].left \in Nat
                                       /\ Touched(acc, id) => Touched(v[k], id)}
<1>3. 0 \in P
  BY <1>2 DEF Opens
<1>4. ASSUME NEW k \in P PROVE k + 1 \in P
  <2> SUFFICES ASSUME k + 1 <= n PROVE k + 1 \in P
    OBVIOUS
  <2>1. k + 1 \in 1 .. n /\ (k + 1) - 1 = k
    OBVIOUS
  <2>2. v[k + 1] = OpenStack(id, tick, v[(k + 1) - 1])
    BY <1>2, <2>1, Zenon DEF Opens
  <2>3. PICK a : a = v[k]
    OBVIOUS
  <2>4. /\ a.grid \in Neat(Mag, Inner, K) /\ a.left \in Nat
        /\ Touched(acc, id) => Touched(a, id)
    BY <2>1, <2>3
  <2>5. LET r == OpenStack(id, tick, a)
        IN  /\ r.grid \in Neat(Mag, Inner, K) /\ r.left \in Nat
            /\ Touched(a, id) => Touched(r, id)
    BY <2>4, OpenKeeps
  <2> QED BY <2>1, <2>2, <2>3, <2>5
<1>5. P = Nat
  <2> HIDE DEF P
  <2> QED BY <1>3, <1>4, SetInduction, P \in SUBSET Nat DEF P
<1> QED BY <1>2, <1>5

(* Whatever is granted, and however much of it finds no room, the items    *)
(* stay inside and apart, no stack passes its limit, and no magazine is    *)
(* filled or emptied (grant_or_merge).                                     *)
THEOREM GrantKeepsTidy ==
    ASSUME NEW Mag, NEW Inner, NEW K, NEW g \in Neat(Mag, Inner, K), NEW id \in ItemIds,
           NEW count \in Nat, NEW tick \in Nat,
           <<>> \in Mag, FreshInner(id) \in Inner, <<id, <<>>, FreshInner(id)>> \in K
    PROVE  LET r == GrantOrMerge(g, id, count, tick)
           IN  r.grid \in Neat(Mag, Inner, K) /\ r.left \in Nat /\ Touched(r, id)
<1>1. PICK acc : acc = [grid |-> g, left |-> count, touched |-> 0]
  OBVIOUS
<1>2. PICK a : a = PourAll(id, tick, acc)
  OBVIOUS
<1>3. acc.grid \in Neat(Mag, Inner, K) /\ acc.left \in Nat /\ Touched(acc, id)
  BY <1>1 DEF Touched
<1>4. a.grid \in Neat(Mag, Inner, K) /\ a.left \in Nat /\ Touched(a, id)
  BY <1>2, <1>3, PourAllKeeps
<1>5. LET r == OpenStacks(id, tick, a)
      IN  r.grid \in Neat(Mag, Inner, K) /\ r.left \in Nat /\ Touched(r, id)
  BY <1>4, OpenStacksKeep
<1> QED BY <1>1, <1>2, <1>5 DEF GrantOrMerge

-----------------------------------------------------------------------------
(* Consumption                                                             *)

(* The same item at the same place, with no more than was in it. *)
SameItem(q, p) == SameSpot(q, p) /\ Sort(q) = Sort(p)

(* p was drained into r: left out, or kept with what is left of it. *)
Drained(T, acc, p, r) ==
    /\ r.left \in Nat /\ r.left <= acc.left
    /\ \/ r.items = acc.items
       \/ \E q \in T : SameItem(q, p) /\ Lawful(q) /\ r.items = Append(acc.items, q)

LEMMA DrainOne ==
    ASSUME NEW Mag, NEW Inner, NEW id, NEW acc, acc.left \in Nat,
           NEW p \in PlacedSet(Mag, Inner), Lawful(p), NEW r, r = Drain(id, acc, p)
    PROVE  Drained(PlacedSet(Mag, Inner), acc, p, r)
<1> DEFINE take == IF p.stack.id # id THEN 0
                   ELSE IF acc.left < p.stack.count THEN acc.left ELSE p.stack.count
           q == [p EXCEPT !.stack.count = @ - take]
<1>1. p.stack.count \in 1 .. Def[p.stack.id].stack /\ p.stack.count \in Nat /\ Def[p.stack.id].stack \in Nat
  BY GridAssumption DEF Lawful, PlacedSet, StackSet
<1>2. take \in Nat /\ take <= acc.left /\ take <= p.stack.count
  BY <1>1
<1>3. r = [items |-> IF q.stack.count = 0 THEN acc.items ELSE Append(acc.items, q), left |-> acc.left - take]
  BY Zenon DEF Drain
<1> HIDE DEF take
<1>4. q \in PlacedSet(Mag, Inner) /\ q.stack.count = p.stack.count - take /\ SameItem(q, p) /\ q.rot = p.rot
  BY <1>1, <1>2 DEF PlacedSet, StackSet, SameItem, SameSpot, Sort
<1>5. q.stack.count # 0 => Lawful(q)
  <2> HIDE DEF q
  <2> QED BY <1>1, <1>2, <1>4 DEF Lawful, SameItem, SameSpot
<1>6. r.left \in Nat /\ r.left <= acc.left
  BY <1>2, <1>3
<1>7. r.items = acc.items \/ (Lawful(q) /\ r.items = Append(acc.items, q))
  <2> HIDE DEF q
  <2> QED BY <1>3, <1>5
<1> HIDE DEF q
<1> QED BY <1>4, <1>6, <1>7 DEF Drained

(* t is made of items of s[1 .. k], none of them twice. *)
Chosen(t, s, k, f) ==
    /\ \A j \in DOMAIN t : f[j] \in 1 .. k /\ SameItem(t[j], s[f[j]]) /\ Lawful(t[j])
    /\ \A i, j \in DOMAIN t : i # j => f[i] # f[j]

LEMMA ChooseMore ==
    ASSUME NEW T, NEW t \in Seq(T), NEW s, NEW k \in Nat, NEW f, Chosen(t, s, k, f),
           NEW q \in T, SameItem(q, s[k + 1]), Lawful(q)
    PROVE  \E h : Chosen(Append(t, q), s, k + 1, h)
<1> DEFINE n == Len(t) + 1
           u == Append(t, q)
           h == [j \in 1 .. n |-> IF j = n THEN k + 1 ELSE f[j]]
<1>1. Len(t) \in Nat /\ DOMAIN t = 1 .. Len(t)
  BY LenProperties
<1>2. DOMAIN u = 1 .. n /\ u[n] = q /\ \A j \in 1 .. Len(t) : u[j] = t[j]
  BY <1>1, AppendProperties
<1> HIDE DEF u
<1>3. ASSUME NEW j \in DOMAIN u
      PROVE  h[j] \in 1 .. k + 1 /\ SameItem(u[j], s[h[j]]) /\ Lawful(u[j])
  <2>1. CASE j = n
    <3>1. h[j] = k + 1 /\ u[j] = q /\ k + 1 \in 1 .. k + 1
      BY <1>1, <1>2, <2>1
    <3> QED BY <3>1
  <2>2. CASE j # n
    <3>1. j \in DOMAIN t /\ h[j] = f[j] /\ u[j] = t[j]
      BY <1>1, <1>2, <2>2
    <3>2. f[j] \in 1 .. k /\ SameItem(t[j], s[f[j]]) /\ Lawful(t[j])
      BY <3>1 DEF Chosen
    <3> HIDE DEF h
    <3>3. h[j] \in 1 .. k + 1
      BY <3>1, <3>2
    <3> QED BY <3>1, <3>2, <3>3
  <2> QED BY <2>1, <2>2
<1>4. ASSUME NEW i \in DOMAIN u, NEW j \in DOMAIN u, i # j
      PROVE  h[i] # h[j]
  <2>1. \A l \in 1 .. Len(t) : f[l] \in 1 .. k
    BY <1>1 DEF Chosen
  <2>2. \A l, m \in 1 .. Len(t) : l # m => f[l] # f[m]
    BY <1>1 DEF Chosen
  <2>3. \A l \in 1 .. n : h[l] = IF l = n THEN k + 1 ELSE f[l]
    OBVIOUS
  <2> HIDE DEF h
  <2> QED BY <1>1, <1>2, <1>4, <2>1, <2>2, <2>3
<1> HIDE DEF h
<1>5. Chosen(u, s, k + 1, h)
  BY <1>3, <1>4 DEF Chosen
<1> QED BY <1>5 DEF u

(* Whatever is consumed, the items left are those that were there, where   *)
(* they were, in their order, and no emptied stack stays behind.           *)
THEOREM ConsumeKeepsTidy ==
    ASSUME NEW Mag, NEW Inner, NEW K, NEW g \in Neat(Mag, Inner, K), NEW id, NEW need \in Nat
    PROVE  LET r == ConsumeFromGrid(g, id, need)
           IN  r.grid \in Neat(Mag, Inner, K) /\ r.taken \in Nat /\ r.taken <= need
<1> DEFINE T == PlacedSet(Mag, Inner)
<1>1. PICK s \in Seq(T) : s = g.items
  BY DEF Neat, GridSet
<1>2. PICK n \in Nat : n = Len(s)
  BY LenProperties
<1>3. DOMAIN s = 1 .. n
  BY <1>2, LenProperties
<1>5. PICK v : Drains(v, id, s, need, n) /\ DrainAll(s, id, need) = v[n]
  BY <1>2, DrainAllIs
<1>6. \A i \in 1 .. n : s[i] \in T /\ Lawful(s[i])
  <2>1. \A i \in DOMAIN g.items : Lawful(g.items[i])
    BY TidyMeans, Zenon DEF Neat
  <2> QED BY <1>1, <1>3, <2>1
<1> DEFINE Good(a, k) == /\ a.left \in Nat /\ a.left <= need /\ a.items \in Seq(T)
                         /\ \E f : Chosen(a.items, s, k, f)
           P == {k \in Nat : k <= n => Good(v[k], k)}
<1>7. 0 \in P
  <2>1. v[0].items = <<>> /\ v[0].left = need
    BY <1>5 DEF Drains
  <2>2. PICK a : a = v[0]
    OBVIOUS
  <2>3. a.items \in Seq(T) /\ DOMAIN a.items = {} /\ a.left = need
    <3>1. <<>> \in Seq(T) /\ DOMAIN <<>> = {}
      OBVIOUS
    <3> QED BY <2>1, <2>2, <3>1, Zenon
  <2>4. \A f : Chosen(a.items, s, 0, f)
    BY <2>3 DEF Chosen
  <2>5. Good(a, 0)
    BY <2>3, <2>4
  <2> QED BY <2>2, <2>5
<1>8. ASSUME NEW k \in P PROVE k + 1 \in P
  <2> SUFFICES ASSUME k + 1 <= n PROVE Good(v[k + 1], k + 1)
    OBVIOUS
  <2>1. k + 1 \in 1 .. n /\ (k + 1) - 1 = k /\ Good(v[k], k)
    OBVIOUS
  <2>2. v[k + 1] = Drain(id, v[k], s[k + 1])
    <3>1. v[k + 1] = Drain(id, v[(k + 1) - 1], s[k + 1])
      BY <1>5, <2>1, Zenon DEF Drains
    <3> QED BY <2>1, <3>1
  <2>3. PICK a : a = v[k]
    OBVIOUS
  <2>4. PICK p \in T : p = s[k + 1] /\ Lawful(p)
    BY <1>6, <2>1
  <2>5. PICK b : b = Drain(id, a, p)
    OBVIOUS
  <2>6. /\ b.left \in Nat /\ b.left <= a.left
        /\ b.items = a.items \/ \E q \in T : SameItem(q, p) /\ Lawful(q) /\ b.items = Append(a.items, q)
    <3>1. a.left \in Nat
      BY <2>1, <2>3
    <3> HIDE DEF P, Good
    <3>2. p \in PlacedSet(Mag, Inner) /\ Lawful(p)
      BY <2>4
    <3> HIDE DEF T
    <3>3. Drained(PlacedSet(Mag, Inner), a, p, b)
      BY <2>5, <3>1, <3>2, DrainOne
    <3> QED BY <3>3 DEF T, Drained
  <2>7. PICK f : Chosen(a.items, s, k, f)
    BY <2>1, <2>3
  <2>8. a.items \in Seq(T) /\ a.left \in Nat /\ a.left <= need
    BY <2>1, <2>3
  <2>9. b.items \in Seq(T) /\ \E h : Chosen(b.items, s, k + 1, h)
    <3>1. CASE b.items = a.items
      <4>1. Chosen(b.items, s, k + 1, f)
        <5>1. \A x \in 1 .. k : x \in 1 .. k + 1
          OBVIOUS
        <5> QED BY <2>7, <3>1, <5>1, Zenon DEF Chosen
      <4> QED BY <2>8, <3>1, <4>1
    <3>2. ASSUME NEW q \in T, SameItem(q, p), Lawful(q), b.items = Append(a.items, q)
          PROVE  b.items \in Seq(T) /\ \E h : Chosen(b.items, s, k + 1, h)
      <4>1. SameItem(q, s[k + 1])
        BY <2>4, <3>2
      <4>2. PICK t \in Seq(T) : t = a.items
        BY <2>8
      <4>3. \E h : Chosen(Append(t, q), s, k + 1, h)
        BY <2>7, <3>2, <4>1, <4>2, ChooseMore
      <4>4. Append(t, q) \in Seq(T)
        BY AppendProperties
      <4> QED BY <3>2, <4>2, <4>3, <4>4
    <3> QED BY <2>6, <3>1, <3>2
  <2> QED BY <2>2, <2>3, <2>4, <2>5, <2>6, <2>8, <2>9
<1>9. P = Nat
  <2> HIDE DEF P
  <2> QED BY <1>7, <1>8, SetInduction, P \in SUBSET Nat DEF P
<1>10. PICK b : b = v[n]
  OBVIOUS
<1>11. Good(b, n)
  BY <1>9, <1>10
<1>12. PICK f : Chosen(b.items, s, n, f)
  BY <1>11
<1>13. PICK h : h = [g EXCEPT !.items = b.items]
  OBVIOUS
<1>14. h.w = g.w /\ h.h = g.h /\ h.items = b.items /\ h \in GridSet(Mag, Inner)
  BY <1>11, <1>13 DEF Neat, GridSet
<1>15. Tidy(h)
  <2>1. \A i \in DOMAIN h.items :
           /\ f[i] \in DOMAIN g.items
           /\ SameSpot(h.items[i], g.items[f[i]])
           /\ Lawful(h.items[i])
    BY <1>1, <1>3, <1>12, <1>14, Zenon DEF Chosen, SameItem
  <2>2. \A i, j \in DOMAIN h.items : i # j => f[i] # f[j]
    BY <1>12, <1>14, Zenon DEF Chosen
  <2> QED BY <1>14, <2>1, <2>2, Rearrange DEF Neat
<1>16. Carries(h, K)
  <2> SUFFICES ASSUME NEW i \in DOMAIN h.items PROVE Sort(h.items[i]) \in K
    BY DEF Carries
  <2>1. f[i] \in DOMAIN g.items /\ SameItem(h.items[i], g.items[f[i]])
    BY <1>1, <1>3, <1>12, <1>14, Zenon DEF Chosen
  <2> QED BY <2>1 DEF Neat, Carries, SameItem
<1>17. ConsumeFromGrid(g, id, need) = [grid |-> h, taken |-> need - b.left]
  BY <1>1, <1>5, <1>10, <1>13 DEF ConsumeFromGrid
<1>18. need - b.left \in Nat /\ need - b.left <= need
  BY <1>11
<1> QED BY <1>14, <1>15, <1>16, <1>17, <1>18 DEF Neat

LEMMA DrainedLess ==
    ASSUME NEW Mag, NEW Inner, NEW id, NEW acc, acc.left \in Nat,
           NEW p \in PlacedSet(Mag, Inner), Lawful(p), NEW r, r = Drain(id, acc, p),
           NEW over \in Nat, over <= r.left,
           NEW bcc, bcc.items = acc.items, bcc.left = acc.left - over,
           NEW u, u = Drain(id, bcc, p)
    PROVE  u.items = r.items /\ u.left = r.left - over
<1> DEFINE take(l) == IF p.stack.id # id THEN 0
                      ELSE IF l < p.stack.count THEN l ELSE p.stack.count
           rest(m) == [p EXCEPT !.stack.count = @ - m]
<1>1. p.stack.count \in Nat
  BY DEF PlacedSet, StackSet
<1>2. /\ r.items = IF rest(take(acc.left)).stack.count = 0 THEN acc.items ELSE Append(acc.items, rest(take(acc.left)))
      /\ r.left = acc.left - take(acc.left)
  BY DEF Drain
<1>3. /\ u.items = IF rest(take(bcc.left)).stack.count = 0 THEN bcc.items ELSE Append(bcc.items, rest(take(bcc.left)))
      /\ u.left = bcc.left - take(bcc.left)
  BY DEF Drain
<1> HIDE DEF rest
<1>4. take(bcc.left) = take(acc.left) /\ take(acc.left) \in Nat
  BY <1>1, <1>2
<1> HIDE DEF take
<1>5. u.items = r.items
  BY <1>2, <1>3, <1>4
<1> QED BY <1>2, <1>3, <1>4, <1>5

LEMMA DrainsDescend ==
    ASSUME NEW Mag, NEW Inner, NEW s, NEW n \in Nat, NEW id, NEW need \in Nat,
           \A i \in 1 .. n : s[i] \in PlacedSet(Mag, Inner) /\ Lawful(s[i]),
           NEW v, Drains(v, id, s, need, n)
    PROVE  \A k \in 0 .. n : v[k].left \in Nat /\ v[n].left <= v[k].left
<1>1. ASSUME NEW k \in Nat, k + 1 <= n, v[k].left \in Nat
      PROVE  v[k + 1].left \in Nat /\ v[k + 1].left <= v[k].left
  <2>1. k + 1 \in 1 .. n /\ (k + 1) - 1 = k
    BY <1>1
  <2>2. v[k + 1] = Drain(id, v[(k + 1) - 1], s[k + 1])
    BY <2>1, Zenon DEF Drains
  <2>3. PICK a, p, b : a = v[k] /\ p = s[k + 1] /\ b = v[k + 1]
    OBVIOUS
  <2>4. a.left \in Nat /\ p \in PlacedSet(Mag, Inner) /\ Lawful(p) /\ b = Drain(id, a, p)
    BY <1>1, <2>1, <2>2, <2>3
  <2>5. Drained(PlacedSet(Mag, Inner), a, p, b)
    BY <2>4, DrainOne
  <2> QED BY <2>3, <2>5 DEF Drained
<1> DEFINE P == {k \in Nat : k <= n => v[k].left \in Nat}
<1>2. P = Nat
  <2>1. 0 \in P
    BY DEF Drains
  <2>2. \A k \in P : k + 1 \in P
    BY <1>1
  <2> HIDE DEF P
  <2> QED BY <2>1, <2>2, SetInduction, P \in SUBSET Nat DEF P
<1>3. \A k \in 0 .. n : v[k].left \in Nat
  BY <1>2
<1> HIDE DEF P
<1> DEFINE Q == {j \in Nat : \A k \in 0 .. n : k + j <= n => v[k + j].left <= v[k].left}
<1>4. Q = Nat
  <2>1. 0 \in Q
    BY <1>3
  <2>2. ASSUME NEW j \in Q PROVE j + 1 \in Q
    <3> SUFFICES ASSUME NEW k \in 0 .. n, k + (j + 1) <= n
                 PROVE  v[k + (j + 1)].left <= v[k].left
      OBVIOUS
    <3>1. PICK m \in Nat : m = k + j /\ m <= n /\ m + 1 <= n /\ k + (j + 1) = m + 1
      OBVIOUS
    <3>2. v[m].left <= v[k].left
      BY <3>1
    <3>3. v[m + 1].left <= v[m].left /\ v[m + 1].left \in Nat /\ v[m].left \in Nat /\ v[k].left \in Nat
      BY <1>1, <1>3, <3>1
    <3> QED BY <3>1, <3>2, <3>3
  <2> HIDE DEF Q
  <2> QED BY <2>1, <2>2, SetInduction, Q \in SUBSET Nat DEF Q
<1>5. ASSUME NEW k \in 0 .. n PROVE v[n].left <= v[k].left
  <2>1. PICK j \in Nat : k + j = n
    <3>1. n - k \in Nat /\ k + (n - k) = n
      OBVIOUS
    <3> QED BY <3>1
  <2>2. j \in Q
    <3> HIDE DEF Q
    <3> QED BY <1>4
  <2>3. k + j <= n
    BY <2>1
  <2>4. v[k + j].left <= v[k].left
    BY <2>2, <2>3
  <2> QED BY <2>1, <2>4
<1> QED BY <1>3, <1>5

(* Asking for exactly what was found takes the same units from the same    *)
(* stacks: a journal record that carries the number taken replays a call   *)
(* that carried the number wanted (consume_from_grid).                     *)
THEOREM ConsumeAgain ==
    ASSUME NEW Mag, NEW Inner, NEW K, NEW g \in Neat(Mag, Inner, K), NEW id, NEW need \in Nat,
           NEW taken, taken = ConsumeFromGrid(g, id, need).taken
    PROVE  ConsumeFromGrid(g, id, taken).grid = ConsumeFromGrid(g, id, need).grid
<1> DEFINE T == PlacedSet(Mag, Inner)
<1>1. PICK s \in Seq(T) : s = g.items
  BY DEF Neat, GridSet
<1>2. PICK n \in Nat : n = Len(s)
  BY LenProperties
<1>3. \A i \in 1 .. n : s[i] \in T /\ Lawful(s[i])
  <2>1. \A i \in DOMAIN g.items : Lawful(g.items[i])
    BY TidyMeans, Zenon DEF Neat
  <2> QED BY <1>1, <1>2, <2>1, LenProperties
<1>4. PICK v : Drains(v, id, s, need, n) /\ DrainAll(s, id, need) = v[n]
  BY <1>2, DrainAllIs
<1>5. PICK w : Drains(w, id, s, taken, n) /\ DrainAll(s, id, taken) = w[n]
  BY <1>2, DrainAllIs
<1>6. PICK over : over = v[n].left
  OBVIOUS
<1>7. \A k \in 0 .. n : v[k].left \in Nat /\ over <= v[k].left
  BY <1>3, <1>4, <1>6, DrainsDescend
<1>8. over \in Nat /\ taken = need - over
  BY <1>1, <1>4, <1>6, <1>7 DEF ConsumeFromGrid
<1> DEFINE P == {k \in Nat : k <= n => w[k].items = v[k].items /\ w[k].left = v[k].left - over}
<1>9. 0 \in P
  <2>1. v[0] = [items |-> <<>>, left |-> need] /\ w[0] = [items |-> <<>>, left |-> taken]
    BY <1>4, <1>5 DEF Drains
  <2> QED BY <1>8, <2>1
<1>10. ASSUME NEW k \in P PROVE k + 1 \in P
  <2> SUFFICES ASSUME k + 1 <= n
               PROVE  w[k + 1].items = v[k + 1].items /\ w[k + 1].left = v[k + 1].left - over
    OBVIOUS
  <2>1. k + 1 \in 1 .. n /\ k \in 0 .. n /\ k + 1 \in 0 .. n /\ (k + 1) - 1 = k
    OBVIOUS
  <2>2. v[k + 1] = Drain(id, v[(k + 1) - 1], s[k + 1]) /\ w[k + 1] = Drain(id, w[(k + 1) - 1], s[k + 1])
    BY <1>4, <1>5, <2>1, Zenon DEF Drains
  <2>3. PICK a, b, p : a = v[k] /\ b = w[k] /\ p = s[k + 1]
    OBVIOUS
  <2>4. PICK r, u : r = v[k + 1] /\ u = w[k + 1]
    OBVIOUS
  <2>5. /\ a.left \in Nat /\ p \in PlacedSet(Mag, Inner) /\ Lawful(p)
        /\ r = Drain(id, a, p) /\ u = Drain(id, b, p) /\ over <= r.left
        /\ b.items = a.items /\ b.left = a.left - over
    BY <1>3, <1>7, <2>1, <2>2, <2>3, <2>4
  <2>6. u.items = r.items /\ u.left = r.left - over
    BY <1>8, <2>5, DrainedLess
  <2> QED BY <2>4, <2>6
<1>11. P = Nat
  <2> HIDE DEF P
  <2> QED BY <1>9, <1>10, SetInduction, P \in SUBSET Nat DEF P
<1>12. w[n].items = v[n].items
  BY <1>11
<1> QED BY <1>1, <1>4, <1>5, <1>12 DEF ConsumeFromGrid

=============================================================================
